------------------------------ MODULE Pairing ------------------------------
(***************************************************************************)
(* Pairing a phone: the Phone section shows a code, whose device row exists *)
(* from the moment the code is made; a phone that scans it (or is pasted    *)
(* it, now or later) dials, is sealed to the Mac's key and authenticates    *)
(* with the code's token.  "New code" revokes the code it replaces, unless  *)
(* a phone has used it by then; Revoke takes a row and its live sockets     *)
(* away.  Rows are saved on each change, which can fail.                    *)
(*                                                                         *)
(* A code, its token and its row are one number.  The hello that seals the  *)
(* socket is one step of the Mac and one of the phone; what a sealed frame  *)
(* says cannot be read or made by anyone else, so frames are their content. *)
(***************************************************************************)
EXTENDS Naturals, Sequences, FiniteSets

CONSTANTS Phones,
          MaxCodes,     \* bound: codes made
          MaxSockets,   \* bound: sockets dialled
          Budgets       \* bounds of each scenario: revokes, failed saves, restarts, https flips,
                        \* switches of the link, drops

VARIABLES
  devices, file,   \* the rows: code -> heard from; as remote-devices.json has them
  conns,           \* RemoteServer.connections, and what is known of every socket
  https, up,       \* the HTTPS check says ready; the server listens
  mail, tell,      \* frames on each socket, to the Mac and to the phone
  codes,           \* codes made so far
  section,         \* the Phone section: the code shown, whether it has an origin, the
                   \* request it waits for (still wanted?), the codes ever shown
  phone,           \* each phone's pairing, socket and link
  told, revoked, unsaved, left

server == <<devices, file, conns, codes>>
wires == <<mail, tell>>
noted == <<told, revoked, unsaved>>
vars == <<server, https, up, wires, section, phone, noted, left>>

None == 0
Codes == 1..MaxCodes
Sockets == 1..MaxSockets
Unheard == [c \in {} |-> FALSE]
Undialled == [at |-> "none", device |-> None, counted |-> FALSE, open |-> FALSE]
NoRequest == [replacing |-> None, at |-> "none", code |-> None, wanted |-> FALSE]
NothingShown == [shown |-> None, ready |-> TRUE, asked |-> NoRequest, copied |-> {}]
Unpaired == [code |-> None, socket |-> None, link |-> "off"]

Init ==
  /\ left \in Budgets
  /\ devices = Unheard /\ file = Unheard /\ codes = 0
  /\ conns = [s \in Sockets |-> Undialled]
  /\ https = TRUE /\ up = TRUE
  /\ mail = [s \in Sockets |-> <<>>] /\ tell = [s \in Sockets |-> <<>>]
  /\ section = NothingShown
  /\ phone = [p \in Phones |-> Unpaired]
  /\ told = {} /\ revoked = {} /\ unsaved = {}

Spend(what) == left[what] > 0 /\ left' = [left EXCEPT ![what] = @ - 1]

(* saveDevices: the rows are written, or it throws. *)
Saved(rows) == devices' = rows /\ file' = rows /\ UNCHANGED left
Unsaved(rows) == devices' = rows /\ UNCHANGED file /\ Spend("fails")

Without(rows, c) == [d \in DOMAIN rows \ {c} |-> rows[d]]
Dead(c) == {s \in Sockets : conns[s].device = c /\ conns[s].counted}

---------------------------------------------------------------------------
(* The Mac's rows.                                                         *)

(* A phone has used it: heard from, or a socket authenticated with it. *)
Used(rows, c) ==
  rows[c] \/ \E s \in Sockets : conns[s].counted /\ conns[s].at = "authed" /\ conns[s].device = c

(* Slip: the code a new one replaces goes, whoever has paired with it meanwhile. *)
RevokesReplaced(rows, c) == c \in DOMAIN rows

revokeUnusedDevice(rows, c) == c \in DOMAIN rows /\ ~Used(rows, c)

(* Sockets of a revoked device are told, closed and no longer counted. *)
Disconnect(c) ==
  /\ conns' = [s \in Sockets |-> IF s \in Dead(c) THEN [conns[s] EXCEPT !.counted = FALSE, !.open = FALSE]
                                 ELSE conns[s]]
  /\ tell' = [s \in Sockets |-> IF s \in Dead(c) /\ conns[s].open
                                  THEN tell[s] \o <<"revoked", "closed">> ELSE tell[s]]

(* remote-create-pairing: a row for the new code, and the one it replaces   *)
(* revoked unless used, in one go; the picture of the code is drawn after.  *)
createPairing ==
  LET asked == section.asked
      c == codes + 1
      rows == [d \in DOMAIN devices \cup {c} |-> d \in DOMAIN devices /\ devices[d]]
      replaced == revokeUnusedDevice(devices, asked.replacing)
  IN /\ asked.at = "sent"
     /\ IF ~up \/ ~https
          THEN /\ section' = [section EXCEPT !.asked.at = "made"]
               /\ UNCHANGED <<server, tell, left>>
        ELSE /\ codes < MaxCodes /\ codes' = c
             /\ section' = [section EXCEPT !.asked.at = "made", !.asked.code = c]
             /\ Saved(IF replaced THEN Without(rows, asked.replacing) ELSE rows)
             /\ IF replaced THEN Disconnect(asked.replacing) ELSE UNCHANGED <<conns, tell>>
     /\ UNCHANGED <<https, up, mail, phone, noted>>

(* A save throws, the new row's or the replaced one's: the section gets no  *)
(* code, and the rows in memory stay as they were being made.               *)
createPairingUnsaved ==
  LET c == codes + 1
      rows == [d \in DOMAIN devices \cup {c} |-> d \in DOMAIN devices /\ devices[d]]
      old == section.asked.replacing
  IN /\ section.asked.at = "sent" /\ up /\ https /\ codes < MaxCodes
     /\ codes' = c
     /\ \/ Unsaved(rows) /\ UNCHANGED unsaved
        \/ /\ revokeUnusedDevice(devices, old) /\ Spend("fails")
           /\ devices' = Without(rows, old) /\ file' = rows /\ unsaved' = unsaved \cup {old}
     /\ section' = [section EXCEPT !.asked = NoRequest]
     /\ UNCHANGED <<conns, https, up, wires, phone, told, revoked>>

(* The section's Revoke.  A save that throws leaves its sockets connected.  *)
revokeDevice(c) ==
  /\ c \in DOMAIN devices /\ left.revokes > 0
  /\ \/ Disconnect(c) /\ devices' = Without(devices, c) /\ file' = devices'
        /\ left' = [left EXCEPT !.revokes = @ - 1] /\ UNCHANGED unsaved
     \/ /\ left.fails > 0 /\ left' = [left EXCEPT !.revokes = @ - 1, !.fails = @ - 1]
        /\ devices' = Without(devices, c) /\ unsaved' = unsaved \cup {c}
        /\ UNCHANGED <<file, conns, tell>>
  /\ revoked' = revoked \cup {c}
  /\ UNCHANGED <<codes, https, up, mail, section, phone, told>>

---------------------------------------------------------------------------
(* The Mac's end of a socket.                                              *)

Answer(s, frames) == tell' = [tell EXCEPT ![s] = IF conns[s].open THEN @ \o frames ELSE @]

(* Before the seal only the hello is taken. *)
hello(s) ==
  /\ conns[s].at = "new" /\ mail[s] # <<>> /\ Head(mail[s]) = "hello"
  /\ conns' = [conns EXCEPT ![s].at = "sealed"]
  /\ Answer(s, <<"hello">>)
  /\ mail' = [mail EXCEPT ![s] = Tail(@)]
  /\ UNCHANGED <<devices, file, codes, https, up, section, phone, noted, left>>

(* `auth` is handled even on a socket already being closed. *)
authenticate(s) ==
  LET c == Head(mail[s])
      authed == [conns EXCEPT ![s].at = "authed", ![s].device = c]
      rows == [devices EXCEPT ![c] = TRUE]
  IN /\ conns[s].at = "sealed" /\ mail[s] # <<>>
     /\ mail' = [mail EXCEPT ![s] = Tail(@)]
     /\ \/ /\ c \notin DOMAIN devices
           /\ conns' = [conns EXCEPT ![s].open = FALSE]
           /\ Answer(s, <<"unknown-token", "closed">>)
           /\ UNCHANGED <<devices, file, left>>
        \/ /\ c \in DOMAIN devices /\ Saved(rows) /\ conns' = authed
           /\ Answer(s, <<"auth-ok">>)
        \/ /\ c \in DOMAIN devices /\ Unsaved(rows)
           /\ conns' = [authed EXCEPT ![s].open = FALSE]
           /\ Answer(s, <<"closed">>)
     /\ UNCHANGED <<codes, https, up, section, phone, noted>>

(* The socket's close: it stops counting, what was still on it is lost, and *)
(* its phone's row is saved with when it was last heard from.               *)
SocketCloses(s) ==
  /\ conns[s].at \notin {"none", "gone"} /\ \A p \in Phones : phone[p].socket # s
  /\ conns' = [conns EXCEPT ![s] = [@ EXCEPT !.at = "gone", !.counted = FALSE, !.open = FALSE]]
  /\ file' = IF conns[s].at = "authed" /\ conns[s].device \in DOMAIN devices THEN devices ELSE file
  /\ mail' = [mail EXCEPT ![s] = <<>>]
  /\ UNCHANGED <<devices, codes, https, up, tell, section, phone, noted, left>>

(* Silence, or 10 s without `auth`: the Mac closes it. *)
dropSilent(s) ==
  /\ conns[s].counted /\ conns[s].open /\ Spend("drops")
  /\ conns' = [conns EXCEPT ![s].counted = FALSE, ![s].open = FALSE]
  /\ tell' = [tell EXCEPT ![s] = Append(@, "closed")]
  /\ UNCHANGED <<devices, file, codes, https, up, mail, section, phone, noted>>

(* The link is switched off and on; the Mac's app quits and starts again.   *)
HungUp == /\ conns' = [s \in Sockets |-> [conns[s] EXCEPT !.counted = FALSE, !.open = FALSE]]
          /\ tell' = [s \in Sockets |-> IF conns[s].open THEN Append(tell[s], "closed") ELSE tell[s]]

stop == /\ up /\ Spend("switches") /\ up' = FALSE /\ HungUp
        /\ UNCHANGED <<devices, file, codes, https, mail, section, phone, noted>>

start == /\ ~up /\ up' = TRUE
         /\ UNCHANGED <<server, https, wires, section, phone, noted, left>>

Restart ==
  /\ Spend("restarts") /\ HungUp
  /\ devices' = file /\ mail' = [s \in Sockets |-> <<>>]
  /\ section' = [section EXCEPT !.shown = None, !.asked = NoRequest, !.ready = https]
  /\ unsaved' = {}
  /\ UNCHANGED <<file, codes, https, up, phone, told, revoked>>

HttpsChanges ==
  /\ Spend("https") /\ https' = ~https
  /\ UNCHANGED <<server, up, wires, section, phone, noted>>

---------------------------------------------------------------------------
(* The Phone section.                                                      *)

(* A status push: a code is shown only for the address it was made for. *)
SectionHears ==
  /\ section.ready # (https /\ up)
  /\ section' = [section EXCEPT !.ready = ~@, !.shown = None, !.asked.wanted = FALSE]
  /\ UNCHANGED <<server, https, up, wires, phone, noted, left>>

(* "Pair a phone", or "New code" with the code it replaces. *)
pairNew ==
  /\ section.asked = NoRequest /\ section.ready
  /\ codes < MaxCodes
  /\ section' = [section EXCEPT !.asked = [replacing |-> section.shown, at |-> "sent",
                                            code |-> None, wanted |-> TRUE]]
  /\ UNCHANGED <<server, https, up, wires, phone, noted, left>>

(* The reply; one for a code no longer wanted is dropped. *)
pairingMade ==
  /\ section.asked.at = "made"
  /\ LET shown == IF section.asked.wanted THEN section.asked.code ELSE section.shown
     IN section' = [section EXCEPT !.asked = NoRequest, !.shown = shown,
                                   !.copied = @ \cup ({shown} \ {None})]
  /\ UNCHANGED <<server, https, up, wires, phone, noted, left>>

Done ==
  /\ section.shown # None
  /\ section' = [section EXCEPT !.shown = None, !.asked.wanted = FALSE]
  /\ UNCHANGED <<server, https, up, wires, phone, noted, left>>

---------------------------------------------------------------------------
(* The phones.                                                             *)

(* Frames on a socket its phone has dropped reach nobody. *)
Unheld(p) == tell' = [s \in Sockets |-> IF s = phone[p].socket THEN <<>> ELSE tell[s]]

(* A code scanned or pasted, the one shown now or one shown before; the     *)
(* phone's own link goes and another begins.                                *)
pair(p, c) ==
  /\ c \in section.copied /\ phone[p].code # c
  /\ phone' = [phone EXCEPT ![p] = [code |-> c, socket |-> None, link |-> "off"]]
  /\ Unheld(p)
  /\ UNCHANGED <<server, https, up, mail, section, noted, left>>

Fresh(s) == conns[s].at = "none" /\ \A t \in 1..(s - 1) : conns[t].at # "none"

connect(p) ==
  /\ phone[p].code # None /\ phone[p].link = "off" /\ up
  /\ \E s \in Sockets :
       /\ Fresh(s)
       /\ conns' = [conns EXCEPT ![s] = [at |-> "new", device |-> None, counted |-> TRUE, open |-> TRUE]]
       /\ mail' = [mail EXCEPT ![s] = <<"hello">>]
       /\ phone' = [phone EXCEPT ![p].socket = s, ![p].link = "dialling"]
  /\ UNCHANGED <<devices, file, codes, https, up, tell, section, noted, left>>

receive(p) ==
  LET s == phone[p].socket
      frame == Head(tell[s])
      Now(link) == phone' = [phone EXCEPT ![p].link = link,
                               ![p].socket = IF link \in {"off", "refused"} THEN None ELSE s]
  IN /\ s # None /\ tell[s] # <<>>
     /\ mail' = [mail EXCEPT ![s] = IF frame = "hello" THEN Append(@, phone[p].code) ELSE @]
     /\ told' = IF frame = "auth-ok" THEN told \cup {phone[p].code} ELSE told
     /\ CASE frame = "hello" -> UNCHANGED phone
          [] frame = "auth-ok" -> Now("on")
          [] frame = "unknown-token" -> Now("refused")
          [] frame = "revoked" -> IF phone[p].link = "on" THEN UNCHANGED phone ELSE Now("refused")
          [] frame = "closed" -> Now("off")
     /\ tell' = [tell EXCEPT ![s] = IF phone'[p].socket = None THEN <<>> ELSE Tail(@)]
     /\ UNCHANGED <<server, https, up, section, revoked, unsaved, left>>

(* Lost, hidden, or past a deadline: the phone forgets the socket. *)
lost(p) ==
  /\ phone[p].socket # None /\ Spend("drops")
  /\ phone' = [phone EXCEPT ![p].socket = None, ![p].link = "off"]
  /\ Unheld(p)
  /\ UNCHANGED <<server, https, up, mail, section, noted>>

Next ==
  \/ createPairing \/ createPairingUnsaved \/ stop \/ start \/ Restart \/ HttpsChanges
  \/ SectionHears \/ pairNew \/ pairingMade \/ Done
  \/ \E c \in Codes : revokeDevice(c)
  \/ \E s \in Sockets : hello(s) \/ authenticate(s) \/ SocketCloses(s) \/ dropSilent(s)
  \/ \E p \in Phones : connect(p) \/ receive(p) \/ lost(p) \/ \E c \in Codes : pair(p, c)

Spec == Init /\ [][Next]_vars

(***************************************************************************)
(* A pairing holds until the builder revokes it: a phone that was let in    *)
(* with a code finds its row still there, on disk too, whatever new codes,  *)
(* dropped sockets and restarts came since.  A revoked one is out: no       *)
(* counted socket is authenticated for a row that is gone, but for a Revoke *)
(* that could not be saved.  And the code shown is one a phone can use,     *)
(* unless its own row was revoked meanwhile, saved or not.                  *)
(***************************************************************************)
PairingsHold ==
  /\ \A c \in told \ revoked : c \in DOMAIN devices /\ c \in DOMAIN file /\ file[c]
  /\ \A s \in Sockets : conns[s].counted /\ conns[s].at = "authed" =>
       conns[s].device \in DOMAIN devices \cup unsaved
  /\ section.shown # None /\ section.asked.at = "none" /\ section.shown \notin revoked \cup unsaved =>
       section.shown \in DOMAIN devices
============================================================================
