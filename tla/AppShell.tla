------------------------------- MODULE AppShell -------------------------------
(***************************************************************************)
(* The phone's service worker (renderer-mobile/sw.ts): it opens the app when  *)
(* the Mac does not answer, from a cache of each build, network first with a  *)
(* time-out.                                                                *)
(*                                                                         *)
(* A worker is named by the build of the app it came with.  Of the files it   *)
(* keeps, two are here: the page and its bundle.  A request that has been     *)
(* answered goes on in the background until its answer is kept.              *)
(***************************************************************************)
EXTENDS Naturals, Sequences, FiniteSets, SequencesExt

CONSTANTS MaxBuilds,
          Budgets        \* [opens, fails, updates]

VARIABLES build,         \* the app on the Mac
          active,        \* the worker in charge; 0 before the first
          installed,     \* a newer one that has its files, 0 for none
          caches,        \* in the order they were made: [name, files]
          requests,      \* [worker, asked, key, at, answer]
          kept,          \* the build of each file as the worker in charge last kept it
          wrong,         \* served from a cache: an error, or any other file than that
          left
vars == <<build, active, installed, caches, requests, kept, wrong, left>>

Spend(what) == left[what] > 0 /\ left' = [left EXCEPT ![what] = @ - 1]

Shell == {"page", "bundle"}
Empty == [f \in Shell |-> <<>>]
\* A file of a build: its kind and the build.
File(f, b) == <<f, b>>

Init ==
  /\ build = 1 /\ active = 0 /\ installed = 0 /\ caches = <<>> /\ requests = <<>>
  /\ kept = [f \in Shell |-> 0] /\ wrong = FALSE
  /\ left \in Budgets

-----------------------------------------------------------------------------
(* The caches *)

Named(b) == {i \in DOMAIN caches : caches[i].name = b}
open(b) == IF Named(b) = {} THEN Append(caches, [name |-> b, files |-> Empty]) ELSE caches
put(b, files) ==
  [i \in DOMAIN open(b) |->
     IF open(b)[i].name = b
     THEN [open(b)[i] EXCEPT !.files = [f \in Shell |-> IF files[f] # <<>> THEN files[f] ELSE @[f]]]
     ELSE open(b)[i]]

Having(f) == {i \in DOMAIN caches : caches[i].files[f] # <<>>}

(* Slip: a worker looks in its own cache only. *)
MatchOwn(f, worker) ==
  IF \E i \in Having(f) : caches[i].name = worker
  THEN caches[CHOOSE i \in Named(worker) : TRUE].files[f] ELSE <<>>

\* In the first cache that has it.
match(f, worker) ==
  IF Having(f) = {} THEN <<>>
  ELSE caches[CHOOSE i \in Having(f) : \A j \in Having(f) : i <= j].files[f]

\* All of its files or none, though the cache is made first; then it does not wait.
install ==
  /\ installed = 0 /\ build > active
  /\ \/ /\ caches' = put(build, [f \in Shell |-> File(f, build)])
        /\ installed' = build
        /\ UNCHANGED left
     \/ /\ Spend("fails")
        /\ caches' = open(build)
        /\ UNCHANGED installed
  /\ UNCHANGED <<build, active, requests, kept, wrong>>

\* Of the caches, each with a name of its own, only the new worker's stays.
activate ==
  /\ installed # 0
  /\ active' = installed /\ installed' = 0
  /\ caches' = <<caches[CHOOSE i \in Named(installed) : TRUE]>>
  /\ kept' = [f \in Shell |-> installed]
  /\ UNCHANGED <<build, requests, wrong, left>>

\* The Mac has a newer app; not while a worker is on its way in.
Updates ==
  /\ installed = 0 /\ build < MaxBuilds /\ Spend("updates")
  /\ build' = build + 1
  /\ UNCHANGED <<active, installed, caches, requests, kept, wrong>>

-----------------------------------------------------------------------------
(* A request: the network's answer if it comes in time, else the cache's *)

\* A navigation is answered with the page, even one to the bundle.
fetch ==
  /\ active # 0 /\ Spend("opens")
  /\ \E request \in {[asked |-> "page", key |-> "page"], [asked |-> "bundle", key |-> "bundle"],
                     [asked |-> "bundle", key |-> "page"]} :
       requests' = Append(requests, [worker |-> active, asked |-> request.asked, key |-> request.key,
                                     at |-> "racing", answer |-> <<>>])
  /\ UNCHANGED <<build, active, installed, caches, kept, wrong>>

\* Only an HTML answer is kept as the page.
Keeps(r, file) == file # <<>> /\ (requests[r].key = "page" => file[1] = "page")

Served(r, file) ==
  wrong' = (wrong \/ file # File(requests[r].key, kept[requests[r].key]))

\* The cache's answer, or with none the network's whatever it is.
FromCache(r) == Served(r, match(requests[r].key, requests[r].worker))

Answers(r, file, at) ==
  requests' = [requests EXCEPT ![r].at = at, ![r].answer = file]

\* The Mac answers, in time or late.
arrives(r) ==
  /\ requests[r].at \in {"racing", "late"}
  /\ Answers(r, File(requests[r].asked, build), "kept?")
  /\ UNCHANGED <<build, active, installed, caches, kept, wrong, left>>

\* It does not: no network, or a server's error in its place.
fails(r) ==
  /\ requests[r].at \in {"racing", "late"}
  /\ IF requests[r].at = "racing" THEN Spend("fails") /\ FromCache(r) ELSE UNCHANGED <<wrong, left>>
  /\ Answers(r, <<>>, "kept?")
  /\ UNCHANGED <<build, active, installed, caches, kept>>

timedOut(r) ==
  /\ requests[r].at = "racing" /\ Spend("fails")
  /\ FromCache(r)
  /\ Answers(r, <<>>, "late")
  /\ UNCHANGED <<build, active, installed, caches, kept>>

\* In the cache of the worker that asked, which may be gone by now, and made again.
done(r) ==
  /\ requests[r].at = "kept?"
  /\ LET file == requests[r].answer key == requests[r].key
     IN IF Keeps(r, file)
        THEN /\ caches' = put(requests[r].worker, [Empty EXCEPT ![key] = file])
             /\ kept' = IF requests[r].worker = active THEN [kept EXCEPT ![key] = file[2]] ELSE kept
        ELSE UNCHANGED <<caches, kept>>
  /\ requests' = RemoveAt(requests, r)
  /\ UNCHANGED <<build, active, installed, wrong, left>>

-----------------------------------------------------------------------------

Next ==
  \/ install \/ activate \/ Updates \/ fetch
  \/ \E r \in DOMAIN requests : arrives(r) \/ fails(r) \/ timedOut(r) \/ done(r)

Spec == Init /\ [][Next]_vars
-----------------------------------------------------------------------------

\* With a worker in charge the app opens without the Mac: from the caches comes the file asked
\* for, as that worker last kept it, with its install or from the network since, and never of
\* a build older than its own, through updates, answers that come after a time-out, those of
\* a worker gone by then, installs that fail and caches made again (networkFirst, respond,
\* install, activate).  The page and its bundle are kept one by one: until the network has
\* given a newer one of either they are of one build, the worker's, and after that they may
\* be of two.
AppOpens == ~wrong /\ (active # 0 => \A f \in Shell : kept[f] \in active..build)
=============================================================================
