---------------------------- MODULE PhoneSocket ----------------------------
(***************************************************************************)
(* The phone's Link: one socket to the Mac at a time, held only while the   *)
(* page is shown.  A connect has a deadline from dialling to `auth-ok`; an  *)
(* authenticated socket is pinged, and given up when nothing answers; a     *)
(* failed or lost one is dialled again on a timer that backs off, or at     *)
(* once when the page is shown again, the network comes back, or a probe    *)
(* finds the Mac serving pages.  A Mac that turned the phone away is not    *)
(* dialled again until somebody looks.                                      *)
(*                                                                         *)
(* Timers are armed or not; the browser's events are taken in any order.    *)
(* drop() detaches a socket's handlers, so only the held one is heard.      *)
(***************************************************************************)
EXTENDS Naturals, FiniteSets, TLC

CONSTANTS MaxDials,   \* bound: sockets dialled
          MaxFlips    \* bound: times the page is hidden or shown

VARIABLES link, status, visible, probes, dials, flips

vars == <<link, status, visible, probes, dials, flips>>

Timers == {"deadline", "ping", "pong"}
Reasons == {"no-network", "mac-unreachable", "multi-code-down", "link-failed"}
NoSocket == [held |-> FALSE, at |-> "none", timers |-> {}]
NewLink == NoSocket @@ [running |-> FALSE, offline |-> FALSE, reason |-> "none",
                        refused |-> FALSE, retry |-> FALSE]
Paused == [state |-> "paused", reason |-> "none", retrying |-> FALSE]

Init ==
  /\ link = NewLink
  /\ status = Paused /\ visible \in BOOLEAN /\ probes = 0 /\ dials = 0 /\ flips = 0

---------------------------------------------------------------------------
(* What the Link's own methods do to it, as functions of its fields.       *)

drop(l) == NoSocket @@ l
clearRetry(l) == [l EXCEPT !.retry = FALSE]
scheduleRetry(l) == [l EXCEPT !.retry = TRUE]

Says(state) == status' = [state |-> state, reason |-> "none", retrying |-> FALSE]
SaysOffline(reason, retrying) ==
  status' = [state |-> "offline", reason |-> reason, retrying |-> retrying]

(* connect, in the state its callers leave: not refused, no socket held.    *)
connect(l) ==
  /\ dials < MaxDials /\ dials' = dials + 1
  /\ link' = [clearRetry(l) EXCEPT !.held = TRUE, !.at = "dialling", !.timers = {"deadline"}]
  /\ IF l.offline THEN SaysOffline(l.reason, TRUE) ELSE Says("connecting")

(* A connect that did not reach `auth-ok`.  At most one probe per 10 s.     *)
failed(l) ==
  /\ link' = scheduleRetry([drop(l) EXCEPT !.offline = TRUE])
  /\ SaysOffline(l.reason, FALSE)

Fails(l) ==
  /\ \/ probes < 2 /\ probes' = probes + 1
     \/ probes' = probes
  /\ failed(l)
  /\ UNCHANGED <<visible, dials, flips>>

lost(l) ==
  /\ link' = scheduleRetry(drop(l)) /\ Says("connecting")
  /\ UNCHANGED <<visible, probes, dials, flips>>

refuse(l) ==
  /\ link' = [clearRetry(drop(l)) EXCEPT !.refused = TRUE] /\ Says("refused")
  /\ UNCHANGED <<visible, probes, dials, flips>>

(* `ping`, unless one is unanswered. *)
ping(l) == [l EXCEPT !.timers = @ \cup {"pong"}]

---------------------------------------------------------------------------
Start ==
  /\ ~link.running
  /\ IF visible THEN connect([link EXCEPT !.running = TRUE])
     ELSE link' = [link EXCEPT !.running = TRUE] /\ status' = Paused /\ UNCHANGED dials
  /\ UNCHANGED <<visible, probes, flips>>

(* The store never starts a stopped Link again: it makes another, and a late *)
(* probe of the old one finds it stopped.                                    *)
Stop ==
  /\ link.running
  /\ link' = NewLink /\ status' = Paused /\ probes' = 0
  /\ UNCHANGED <<visible, dials, flips>>

retryNow ==
  /\ link.running /\ visible /\ ~link.held
  /\ connect([link EXCEPT !.refused = FALSE])
  /\ UNCHANGED <<visible, probes, flips>>

Hidden ==
  /\ visible /\ visible' = FALSE /\ flips < MaxFlips /\ flips' = flips + 1
  /\ IF ~link.running THEN UNCHANGED <<link, status>>
     ELSE /\ link' = clearRetry(drop(link))
          /\ IF link.refused THEN UNCHANGED status ELSE status' = Paused
  /\ UNCHANGED <<probes, dials>>

(* The page shown: with a socket held it may be half-open, so it is pinged. *)
Shown ==
  /\ ~visible /\ visible' = TRUE /\ flips < MaxFlips /\ flips' = flips + 1
  /\ IF link.running THEN connect([link EXCEPT !.refused = FALSE])
     ELSE UNCHANGED <<link, status, dials>>
  /\ UNCHANGED probes

(* `online`, or a page restored without having been hidden. *)
LooksAgain ==
  /\ link.running /\ link.at = "authed"
  /\ link' = ping(link)
  /\ UNCHANGED <<status, visible, probes, dials, flips>>

(* Its hello is answered with the pinned key, or with another. *)
OnHello ==
  /\ link.at = "dialling"
  /\ \/ link' = [link EXCEPT !.at = "sealed"] /\ UNCHANGED <<status, visible, probes, dials, flips>>
     \/ refuse(link)
     \/ Fails(link)

OnAuth ==
  /\ link.at = "sealed"
  /\ \/ /\ link' = [link EXCEPT !.at = "authed", !.timers = {"ping"},
                                !.offline = FALSE, !.reason = "none"]
        /\ Says("connected") /\ UNCHANGED <<visible, probes, dials, flips>>
     \/ refuse(link)

OnFrame ==
  /\ link.at = "authed" /\ "pong" \in link.timers
  /\ link' = [link EXCEPT !.timers = @ \ {"pong"}]
  /\ UNCHANGED <<status, visible, probes, dials, flips>>

OnClose == link.held /\ IF link.at = "authed" THEN lost(link) ELSE Fails(link)

Deadline == "deadline" \in link.timers /\ Fails(link)

PingTimer ==
  /\ "ping" \in link.timers /\ "pong" \notin link.timers
  /\ link' = ping(link) /\ UNCHANGED <<status, visible, probes, dials, flips>>

PongTimer == "pong" \in link.timers /\ lost(link)

RetryTimer ==
  /\ link.retry
  /\ IF visible /\ ~link.refused /\ ~link.held THEN connect(link)
     ELSE link' = clearRetry(link) /\ UNCHANGED <<status, dials>>
  /\ UNCHANGED <<visible, probes, flips>>

(* `new WebSocket` throws: no socket was held. *)
DialThrows ==
  /\ link.retry /\ visible /\ ~link.held /\ ~link.refused
  /\ Fails(clearRetry(link))

(* Why the Mac can't be reached is known, maybe long after. *)
ProbeAnswers ==
  /\ probes > 0 /\ probes' = probes - 1
  /\ \E reason \in Reasons :
       LET l == [link EXCEPT !.reason = reason]
       IN IF ~link.running \/ ~link.offline THEN UNCHANGED <<link, status, dials>>
          ELSE IF reason = "link-failed" /\ ~link.held /\ visible /\ ~link.refused THEN connect(l)
          ELSE /\ link' = l /\ UNCHANGED dials
               /\ status' = IF status.state = "offline" THEN [status EXCEPT !.reason = reason]
                            ELSE status
  /\ UNCHANGED <<visible, flips>>

Next ==
  \/ Start \/ Stop \/ retryNow \/ Hidden \/ Shown \/ LooksAgain
  \/ OnHello \/ OnAuth \/ OnFrame \/ OnClose
  \/ Deadline \/ PingTimer \/ PongTimer \/ RetryTimer \/ DialThrows \/ ProbeAnswers

Spec == Init /\ [][Next]_vars

(***************************************************************************)
(* The link never rests where nothing would wake it: shown and not turned   *)
(* away, it holds a socket that a deadline or a ping watches, or a retry is *)
(* due; hidden or stopped it holds and awaits nothing.  And what it says of *)
(* itself is so: connected exactly when authenticated, refused exactly when *)
(* turned away, offline only while a retry is due or an attempt under way.  *)
(***************************************************************************)
LinkIsTrue ==
  /\ link.held <=> link.at # "none"
  /\ link.held => IF link.at = "authed" THEN "ping" \in link.timers ELSE link.timers = {"deadline"}
  /\ ~link.held => link.timers = {}
  /\ link.running /\ visible /\ ~link.refused => link.held \/ link.retry
  /\ ~link.running \/ ~visible => ~link.held /\ ~link.retry
  /\ link.running =>
       /\ (status.state = "connected") <=> (link.at = "authed")
       /\ (status.state = "refused") <=> link.refused
       /\ (status.state = "paused") <=> (~visible /\ ~link.refused)
       /\ status.state = "offline" =>
            /\ link.offline /\ status.reason = link.reason
            /\ IF status.retrying THEN link.held ELSE link.retry
============================================================================
