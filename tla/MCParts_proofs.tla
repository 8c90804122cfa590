--------------------------- MODULE MCParts_proofs ---------------------------
(***************************************************************************)
(* That the parts proved on their own (Parts_proofs) are as good where      *)
(* MCParts runs them: `part` never changes, and a part takes none but its   *)
(* own steps.                                                               *)
(***************************************************************************)
EXTENDS MCParts, TLAPS

Proved ==
  INSTANCE Parts_proofs WITH
    Finished <- "finished", None <- Nil,
    disk <- v1, entries <- v2, deleted <- v3, kind <- v4, drop <- v5, changes <- v6,
    events <- v1, live <- v2, turn <- v3, link <- v4, fresh <- v5, restatements <- v6,
    on <- v7, brief <- v8, waiters <- v9, pushed <- v10, modes <- v11,
    build <- v1, active <- v2, installed <- v3, caches <- v4, requests <- v5, kept <- v6,
    wrong <- v7, openLeft <- v8,
    devices <- v1, file <- v2, conns <- v3, https <- v4, up <- v5, mail <- v6, tell <- v7,
    codes <- v8, section <- v9, phone <- v10, told <- v11, revoked <- v12, unsaved <- v13,
    pairLeft <- v14,
    at <- v1, makers <- v2, running <- v3, clone <- v4, stuck <- v5, removals <- v6,
    quit <- v7, others <- v8,
    settings <- v1, key <- v2, secretary <- v3, claude <- v4, page <- v5, asked <- v6,
    answers <- v7, test <- v8, sent <- v9, lost <- v10, ahead <- v11, speechLeft <- v12,
    Contacts <- Roster, First <- ShownFirst, NoFolder <- "none",
    selected <- v1, default <- v2, gone <- v3, busy <- v4, keys <- v5, holds <- v6, prompt <- v7,
    drawn <- v8, drops <- v9, notices <- v10, copies <- v11, slipped <- v12, stolen <- v13

-----------------------------------------------------------------------------
(* A part here is the part that was proved about, definition by definition. *)

LEMMA SameClone ==
  /\ Clone!Init = Proved!Clone!Init
  /\ [Clone!Next]_Clone!vars = [Proved!Clone!Next]_Proved!Clone!vars
  /\ Clone!FoldersKept = Proved!Clone!FoldersKept
BY DEF Clone!vars, Proved!Clone!vars, Clone!Nothing, Proved!Clone!Nothing, Clone!Idle,
       Proved!Clone!Idle, Clone!Other, Proved!Clone!Other, Clone!folders, Proved!Clone!folders,
       Clone!Unasked, Proved!Clone!Unasked, Clone!Underway, Proved!Clone!Underway,
       Clone!CloneTypeOK, Proved!Clone!CloneTypeOK, Clone!Init, Proved!Clone!Init, Clone!cloneRepo,
       Proved!Clone!cloneRepo, Clone!claimTarget, Proved!Clone!claimTarget, Clone!refuse,
       Proved!Clone!refuse, Clone!spawn, Proved!Clone!spawn, Clone!finish, Proved!Clone!finish,
       Clone!IsOwn, Proved!Clone!IsOwn, Clone!TakeAway, Proved!Clone!TakeAway,
       Clone!removeOwnFolder, Proved!Clone!removeOwnFolder, Clone!cancelClone,
       Proved!Clone!cancelClone, Clone!abortCloneForQuit, Proved!Clone!abortCloneForQuit,
       Clone!Elsewhere, Proved!Clone!Elsewhere, Clone!Next, Proved!Clone!Next, Clone!FoldersKept,
       Proved!Clone!FoldersKept
LEMMA SameDrop ==
  /\ Drop!Init = Proved!Drop!Init
  /\ [Drop!Next]_Drop!vars = [Proved!Drop!Next]_Proved!Drop!vars
  /\ Drop!NothingReplaced = Proved!Drop!NothingReplaced
BY DEF Drop!vars, Proved!Drop!vars, Drop!Other, Proved!Drop!Other, Drop!Kinds, Proved!Drop!Kinds,
       Drop!NotYet, Proved!Drop!NotYet, Drop!Copied, Proved!Drop!Copied, Drop!Failed,
       Proved!Drop!Failed, Drop!numberedName, Proved!Drop!numberedName, Drop!Init, Proved!Drop!Init,
       Drop!RefuseAll, Proved!Drop!RefuseAll, Drop!copyIntoFolder, Proved!Drop!copyIntoFolder,
       Drop!Place, Proved!Drop!Place, Drop!Settle, Proved!Drop!Settle, Drop!copyOne,
       Proved!Drop!copyOne, Drop!Destination, Proved!Drop!Destination, Drop!Create,
       Proved!Drop!Create, Drop!claimName, Proved!Drop!claimName, Drop!Elsewhere,
       Proved!Drop!Elsewhere, Drop!Upto, Proved!Drop!Upto, Drop!Next, Proved!Drop!Next,
       Drop!NothingReplaced, Proved!Drop!NothingReplaced
LEMMA SamePushes ==
  /\ Pushes!Init = Proved!Pushes!Init
  /\ [Pushes!Next]_Pushes!vars = [Proved!Pushes!Next]_Proved!Pushes!vars
  /\ Pushes!PushesFollowEvents = Proved!Pushes!PushesFollowEvents
BY DEF Pushes!vars, Proved!Pushes!vars, Pushes!Seqs, Proved!Pushes!Seqs, Pushes!Bodies,
       Proved!Pushes!Bodies, Pushes!Init, Proved!Pushes!Init, Pushes!todayLine,
       Proved!Pushes!todayLine, Pushes!briefLine, Proved!Pushes!briefLine, Pushes!pushEvent,
       Proved!Pushes!pushEvent, Pushes!LookAgain, Proved!Pushes!LookAgain, Pushes!onSecretaryEvent,
       Proved!Pushes!onSecretaryEvent, Pushes!written, Proved!Pushes!written,
       Pushes!setSecretaryMode, Proved!Pushes!setSecretaryMode, Pushes!timedOut,
       Proved!Pushes!timedOut, Pushes!cleared, Proved!Pushes!cleared, Pushes!turnStarts,
       Proved!Pushes!turnStarts, Pushes!setRemoteEnabled, Proved!Pushes!setRemoteEnabled,
       Pushes!Next, Proved!Pushes!Next, Pushes!PushesFollowEvents, Proved!Pushes!PushesFollowEvents
LEMMA SameOpens ==
  /\ Opens!Init = Proved!Opens!Init
  /\ [Opens!Next]_Opens!vars = [Proved!Opens!Next]_Proved!Opens!vars
  /\ Opens!AppOpens = Proved!Opens!AppOpens
BY DEF Opens!vars, Proved!Opens!vars, Opens!Spend, Proved!Opens!Spend, Opens!Shell,
       Proved!Opens!Shell, Opens!Empty, Proved!Opens!Empty, Opens!File, Proved!Opens!File,
       Opens!Init, Proved!Opens!Init, Opens!Named, Proved!Opens!Named, Opens!open,
       Proved!Opens!open, Opens!put, Proved!Opens!put, Opens!Having, Proved!Opens!Having,
       Opens!match, Proved!Opens!match, Opens!install, Proved!Opens!install, Opens!activate,
       Proved!Opens!activate, Opens!Updates, Proved!Opens!Updates, Opens!fetch, Proved!Opens!fetch,
       Opens!Keeps, Proved!Opens!Keeps, Opens!Served, Proved!Opens!Served, Opens!FromCache,
       Proved!Opens!FromCache, Opens!Answers, Proved!Opens!Answers, Opens!arrives,
       Proved!Opens!arrives, Opens!fails, Proved!Opens!fails, Opens!timedOut, Proved!Opens!timedOut,
       Opens!done, Proved!Opens!done, Opens!Next, Proved!Opens!Next, Opens!AppOpens,
       Proved!Opens!AppOpens, Opens!RemoveAt, Proved!Opens!RemoveAt
LEMMA SamePairings ==
  /\ Pairings!Init = Proved!Pairings!Init
  /\ [Pairings!Next]_Pairings!vars = [Proved!Pairings!Next]_Proved!Pairings!vars
  /\ Pairings!PairingsHold = Proved!Pairings!PairingsHold
BY ZenonT(120) DEF Pairings!server, Proved!Pairings!server, Pairings!wires, Proved!Pairings!wires,
       Pairings!noted, Proved!Pairings!noted, Pairings!vars, Proved!Pairings!vars, Pairings!None,
       Proved!Pairings!None, Pairings!Codes, Proved!Pairings!Codes, Pairings!Sockets,
       Proved!Pairings!Sockets, Pairings!Unheard, Proved!Pairings!Unheard, Pairings!Undialled,
       Proved!Pairings!Undialled, Pairings!NoRequest, Proved!Pairings!NoRequest,
       Pairings!NothingShown, Proved!Pairings!NothingShown, Pairings!Unpaired,
       Proved!Pairings!Unpaired, Pairings!Init, Proved!Pairings!Init, Pairings!Spend,
       Proved!Pairings!Spend, Pairings!Saved, Proved!Pairings!Saved, Pairings!Unsaved,
       Proved!Pairings!Unsaved, Pairings!Without, Proved!Pairings!Without, Pairings!Dead,
       Proved!Pairings!Dead, Pairings!Used, Proved!Pairings!Used, Pairings!revokeUnusedDevice,
       Proved!Pairings!revokeUnusedDevice, Pairings!Disconnect, Proved!Pairings!Disconnect,
       Pairings!createPairing, Proved!Pairings!createPairing, Pairings!createPairingUnsaved,
       Proved!Pairings!createPairingUnsaved, Pairings!revokeDevice, Proved!Pairings!revokeDevice,
       Pairings!Answer, Proved!Pairings!Answer, Pairings!hello, Proved!Pairings!hello,
       Pairings!authenticate, Proved!Pairings!authenticate, Pairings!SocketCloses,
       Proved!Pairings!SocketCloses, Pairings!dropSilent, Proved!Pairings!dropSilent,
       Pairings!HungUp, Proved!Pairings!HungUp, Pairings!stop, Proved!Pairings!stop, Pairings!start,
       Proved!Pairings!start, Pairings!Restart, Proved!Pairings!Restart, Pairings!HttpsChanges,
       Proved!Pairings!HttpsChanges, Pairings!SectionHears, Proved!Pairings!SectionHears,
       Pairings!pairNew, Proved!Pairings!pairNew, Pairings!pairingMade, Proved!Pairings!pairingMade,
       Pairings!Done, Proved!Pairings!Done, Pairings!Unheld, Proved!Pairings!Unheld, Pairings!pair,
       Proved!Pairings!pair, Pairings!Fresh, Proved!Pairings!Fresh, Pairings!connect,
       Proved!Pairings!connect, Pairings!receive, Proved!Pairings!receive, Pairings!lost,
       Proved!Pairings!lost, Pairings!Next, Proved!Pairings!Next, Pairings!PairingsHold,
       Proved!Pairings!PairingsHold
LEMMA SameSpeech ==
  /\ Speech!Init = Proved!Speech!Init
  /\ [Speech!Next]_Speech!vars = [Proved!Speech!Next]_Proved!Speech!vars
  /\ Speech!KeyStaysHome = Proved!Speech!KeyStaysHome
BY ZenonT(120) DEF Speech!vars, Proved!Speech!vars, Speech!NoKey, Proved!Speech!NoKey, Speech!Blank,
       Proved!Speech!Blank, Speech!Defaults, Proved!Speech!Defaults, Speech!Torn,
       Proved!Speech!Torn, Speech!NoTest, Proved!Speech!NoTest, Speech!NoLine, Proved!Speech!NoLine,
       Speech!Typed, Proved!Speech!Typed, Speech!Unread, Proved!Speech!Unread, Speech!Spend,
       Proved!Speech!Spend, Speech!loadSettings, Proved!Speech!loadSettings,
       Speech!normalizeServerUrl, Proved!Speech!normalizeServerUrl, Speech!serverOrigin,
       Proved!Speech!serverOrigin, Speech!NotSaved, Proved!Speech!NotSaved, Speech!movesOrigin,
       Proved!Speech!movesOrigin, Speech!Ends, Proved!Speech!Ends, Speech!setSpeechServer,
       Proved!Speech!setSpeechServer, Speech!loadSecretarySettings,
       Proved!Speech!loadSecretarySettings, Speech!checkClaude, Proved!Speech!checkClaude,
       Speech!Looked, Proved!Speech!Looked, Speech!Off, Proved!Speech!Off, Speech!Event,
       Proved!Speech!Event, Speech!Saved, Proved!Speech!Saved, Speech!Rejected,
       Proved!Speech!Rejected, Speech!Answer, Proved!Speech!Answer, Speech!getSettings,
       Proved!Speech!getSettings, Speech!switchMode, Proved!Speech!switchMode, Speech!setServer,
       Proved!Speech!setServer, Speech!NoEngine, Proved!Speech!NoEngine, Speech!Request,
       Proved!Speech!Request, Speech!Result, Proved!Speech!Result, Speech!testServer,
       Proved!Speech!testServer, Speech!Handle, Proved!Speech!Handle, Speech!TestSteps,
       Proved!Speech!TestSteps, Speech!synthesize, Proved!Speech!synthesize, Speech!PhoneSwitches,
       Proved!Speech!PhoneSwitches, Speech!BriefLooks, Proved!Speech!BriefLooks,
       Speech!ClaudeComesOrGoes, Proved!Speech!ClaudeComesOrGoes, Speech!Closed,
       Proved!Speech!Closed, Speech!Get, Proved!Speech!Get, Speech!Ask, Proved!Speech!Ask,
       Speech!Page, Proved!Speech!Page, Speech!claudeMissing, Proved!Speech!claudeMissing,
       Speech!modeOn, Proved!Speech!modeOn, Speech!dirty, Proved!Speech!dirty, Speech!Toggle,
       Proved!Speech!Toggle, Speech!LookAgain, Proved!Speech!LookAgain, Speech!Enabled,
       Proved!Speech!Enabled, Speech!Edit, Proved!Speech!Edit, Speech!Start, Proved!Speech!Start,
       Speech!saveServer, Proved!Speech!saveServer, Speech!save, Proved!Speech!save,
       Speech!TestSaved, Proved!Speech!TestSaved, Speech!PressTest, Proved!Speech!PressTest,
       Speech!clearKey, Proved!Speech!clearKey, Speech!toggleMode, Proved!Speech!toggleMode,
       Speech!applySaved, Proved!Speech!applySaved, Speech!Applied, Proved!Speech!Applied,
       Speech!Settled, Proved!Speech!Settled, Speech!GoesOn, Proved!Speech!GoesOn, Speech!Receives,
       Proved!Speech!Receives, Speech!Unstarted, Proved!Speech!Unstarted, Speech!Launch,
       Proved!Speech!Launch, Speech!Init, Proved!Speech!Init, Speech!Next, Proved!Speech!Next,
       Speech!KeyStaysHome, Proved!Speech!KeyStaysHome
LEMMA SameDropBox ==
  /\ DropBox!Init = Proved!DropBox!Init
  /\ [DropBox!Next]_DropBox!vars = [Proved!DropBox!Next]_Proved!DropBox!vars
  /\ DropBox!DropsEndWell = Proved!DropBox!DropsEndWell
BY ZenonT(120) DEF DropBox!asking, Proved!DropBox!asking, DropBox!vars, Proved!DropBox!vars, DropBox!NoPrompt,
       Proved!DropBox!NoPrompt, DropBox!Kinds, Proved!DropBox!Kinds, DropBox!Lookups,
       Proved!DropBox!Lookups, DropBox!Asks, Proved!DropBox!Asks, DropBox!Copying,
       Proved!DropBox!Copying, DropBox!Ends, Proved!DropBox!Ends, DropBox!Init, Proved!DropBox!Init,
       DropBox!Dropped, Proved!DropBox!Dropped, DropBox!withDropReport,
       Proved!DropBox!withDropReport, DropBox!reportDrop, Proved!DropBox!reportDrop, DropBox!To,
       Proved!DropBox!To, DropBox!dismissDrop, Proved!DropBox!dismissDrop, DropBox!takeDropKeys,
       Proved!DropBox!takeDropKeys, DropBox!returnDropKeys, Proved!DropBox!returnDropKeys,
       DropBox!Target, Proved!DropBox!Target, DropBox!copyDropped, Proved!DropBox!copyDropped,
       DropBox!copyDrop, Proved!DropBox!copyDrop, DropBox!DefaultSaved, Proved!DropBox!DefaultSaved,
       DropBox!Copied, Proved!DropBox!Copied, DropBox!Slow, Proved!DropBox!Slow,
       DropBox!handleFileDrop, Proved!DropBox!handleFileDrop, DropBox!Past, Proved!DropBox!Past,
       DropBox!dropStillWaiting, Proved!DropBox!dropStillWaiting, DropBox!focusDropWindow,
       Proved!DropBox!focusDropWindow, DropBox!Waits, Proved!DropBox!Waits, DropBox!dropStep,
       Proved!DropBox!dropStep, DropBox!getDropFolder, Proved!DropBox!getDropFolder,
       DropBox!describeDropped, Proved!DropBox!describeDropped, DropBox!GiveUp,
       Proved!DropBox!GiveUp, DropBox!pickDropFolder, Proved!DropBox!pickDropFolder, DropBox!Draw,
       Proved!DropBox!Draw, DropBox!closeDropPrompt, Proved!DropBox!closeDropPrompt,
       DropBox!Clickable, Proved!DropBox!Clickable, DropBox!onClose, Proved!DropBox!onClose,
       DropBox!putDropHere, Proved!DropBox!putDropHere, DropBox!pickForDrop,
       Proved!DropBox!pickForDrop, DropBox!PickedForDrop, Proved!DropBox!PickedForDrop,
       DropBox!Select, Proved!DropBox!Select, DropBox!Next, Proved!DropBox!Next,
       DropBox!DropsEndWell, Proved!DropBox!DropsEndWell, DropBox!RemoveAt, Proved!DropBox!RemoveAt

-----------------------------------------------------------------------------
(* Each part on its own: the steps it takes here keep its invariant.       *)

(* What the proofs ask of the constants is what PartsAssumption says of them. *)
LEMMA Assumed ==
  /\ Proved!CloneAssumption /\ Proved!DropAssumption /\ Proved!PushAssumption
  /\ Proved!SpeechAssumption /\ Proved!FlowAssumption
<1>1. Proved!CloneAssumption /\ Proved!DropAssumption /\ Proved!PushAssumption
  BY PartsAssumption
  DEF PartsAssumption, Proved!CloneAssumption, Proved!Clone!Idle, Proved!Clone!Other, Proved!Clone!Nothing,
       Clone!Idle, Clone!Other, Clone!Nothing, Proved!DropAssumption, Proved!PushAssumption,
       Proved!Pushes!Seqs, Proved!Pushes!Bodies, Proved!Statuses, Pushes!Seqs, Pushes!Bodies
<1>2. ASSUME NEW url \in Addresses PROVE url \in Proved!Urls
  BY PartsAssumption
  DEF PartsAssumption, Proved!Urls, Proved!Origins, Proved!Forms, Proved!Engines, Proved!Speech!NoEngine,
      Speech!NoEngine
<1>3. Proved!FlowAssumption BY PartsAssumption DEF PartsAssumption, Proved!FlowAssumption
<1> QED BY <1>1, <1>2, <1>3 DEF Proved!SpeechAssumption

LEMMA CloneKeep ==
  /\ Clone!Init => Proved!CloneInv
  /\ Proved!CloneInv /\ [Clone!Next]_Clone!vars => Proved!CloneInv'
  /\ Proved!CloneInv => Clone!FoldersKept
<1>1. Proved!Clone!Init => Proved!CloneInv BY Assumed, Proved!CloneStarts
<1>2. Proved!CloneInv /\ [Proved!Clone!Next]_Proved!Clone!vars => Proved!CloneInv'
  BY Assumed, Proved!CloneKept, Proved!CloneStill
<1>3. Proved!CloneInv => Proved!Clone!FoldersKept BY Assumed, Proved!CloneTrue
<1> QED BY <1>1, <1>2, <1>3, SameClone, Zenon

LEMMA DropKeep ==
  /\ Drop!Init => Proved!DropInv
  /\ Proved!DropInv /\ [Drop!Next]_Drop!vars => Proved!DropInv'
  /\ Proved!DropInv => Drop!NothingReplaced
<1>1. Proved!Drop!Init => Proved!DropInv BY Assumed, Proved!DropStarts
<1>2. Proved!DropInv /\ [Proved!Drop!Next]_Proved!Drop!vars => Proved!DropInv'
  BY Assumed, Proved!DropKept, Proved!DropStill
<1>3. Proved!DropInv => Proved!Drop!NothingReplaced BY Assumed, Proved!DropTrue
<1> QED BY <1>1, <1>2, <1>3, SameDrop, Zenon

LEMMA PushesKeep ==
  /\ Pushes!Init => Proved!PushInv
  /\ Proved!PushInv /\ [Pushes!Next]_Pushes!vars => Proved!PushInv'
  /\ Proved!PushInv => Pushes!PushesFollowEvents
<1>1. Proved!Pushes!Init => Proved!PushInv BY Assumed, Proved!PushStarts
<1>2. Proved!PushInv /\ [Proved!Pushes!Next]_Proved!Pushes!vars => Proved!PushInv'
  BY Assumed, Proved!PushKept, Proved!PushStill
<1>3. Proved!PushInv => Proved!Pushes!PushesFollowEvents BY Assumed, Proved!PushTrue
<1> QED BY <1>1, <1>2, <1>3, SamePushes, Zenon

LEMMA OpensKeep ==
  /\ Opens!Init => Proved!OpenInv
  /\ Proved!OpenInv /\ [Opens!Next]_Opens!vars => Proved!OpenInv'
  /\ Proved!OpenInv => Opens!AppOpens
<1>1. Proved!Opens!Init => Proved!OpenInv BY Assumed, Proved!OpenStarts
<1>2. Proved!OpenInv /\ [Proved!Opens!Next]_Proved!Opens!vars => Proved!OpenInv'
  BY Assumed, Proved!OpenKept, Proved!OpenStill
<1>3. Proved!OpenInv => Proved!Opens!AppOpens BY Assumed, Proved!OpenTrue
<1> QED BY <1>1, <1>2, <1>3, SameOpens, Zenon

LEMMA PairingsKeep ==
  /\ Pairings!Init => Proved!PairInv
  /\ Proved!PairInv /\ [Pairings!Next]_Pairings!vars => Proved!PairInv'
  /\ Proved!PairInv => Pairings!PairingsHold
<1>1. Proved!Pairings!Init => Proved!PairInv BY Assumed, Proved!PairStarts
<1>2. Proved!PairInv /\ [Proved!Pairings!Next]_Proved!Pairings!vars => Proved!PairInv'
  BY Assumed, Proved!PairKept, Proved!PairStill
<1>3. Proved!PairInv => Proved!Pairings!PairingsHold BY Assumed, Proved!PairTrue
<1> QED BY <1>1, <1>2, <1>3, SamePairings, Zenon

LEMMA SpeechKeep ==
  /\ Speech!Init => Proved!SpeechInv
  /\ Proved!SpeechInv /\ [Speech!Next]_Speech!vars => Proved!SpeechInv'
  /\ Proved!SpeechInv => Speech!KeyStaysHome
<1>1. Proved!Speech!Init => Proved!SpeechInv BY Assumed, Proved!SpeechStarts
<1>2. Proved!SpeechInv /\ [Proved!Speech!Next]_Proved!Speech!vars => Proved!SpeechInv'
  BY Assumed, Proved!SpeechKept, Proved!SpeechStill
<1>3. Proved!SpeechInv => Proved!Speech!KeyStaysHome BY Assumed, Proved!SpeechTrue
<1> QED BY <1>1, <1>2, <1>3, SameSpeech, Zenon

LEMMA DropBoxKeep ==
  /\ DropBox!Init => Proved!FlowInv
  /\ Proved!FlowInv /\ [DropBox!Next]_DropBox!vars => Proved!FlowInv'
  /\ Proved!FlowInv => DropBox!DropsEndWell
<1>1. Proved!DropBox!Init => Proved!FlowInv BY Assumed, Proved!FlowStarts
<1>2. Proved!FlowInv /\ [Proved!DropBox!Next]_Proved!DropBox!vars => Proved!FlowInv'
  BY Assumed, Proved!FlowKept, Proved!FlowStill
<1>3. Proved!FlowInv => Proved!DropBox!DropsEndWell BY Assumed, Proved!FlowTrue
<1> QED BY <1>1, <1>2, <1>3, SameDropBox, Zenon

-----------------------------------------------------------------------------
(* All of them, one in each behaviour. *)

PartInv ==
  /\ part = "clone" => Proved!CloneInv
  /\ part = "drop" => Proved!DropInv
  /\ part = "pushes" => Proved!PushInv
  /\ part = "opens" => Proved!OpenInv
  /\ part = "pairing" => Proved!PairInv
  /\ part = "speech" => Proved!SpeechInv
  /\ part = "dropped" => Proved!FlowInv

(* The part stays what it is. *)
LEMMA PartStays == [Next]_<<v1, v2, v3, v4, v5, Past5>> => part' = part
BY DEF Next, Past4, Past5, Past6, Past7, Past8, Past9, Past10, Past11, Past12, Past13, Past14, Past20, Past21

(* And takes none but its own steps. *)
LEMMA OwnSteps ==
  ASSUME [Next]_<<v1, v2, v3, v4, v5, Past5>>
  PROVE  /\ part = "clone" => [Clone!Next]_Clone!vars
         /\ part = "drop" => [Drop!Next]_Drop!vars
         /\ part = "pushes" => [Pushes!Next]_Pushes!vars
         /\ part = "opens" => [Opens!Next]_Opens!vars
         /\ part = "pairing" => [Pairings!Next]_Pairings!vars
         /\ part = "speech" => [Speech!Next]_Speech!vars
         /\ part = "dropped" => [DropBox!Next]_DropBox!vars
<1>1. CASE Next BY <1>1 DEF Next
<1>2. CASE UNCHANGED <<v1, v2, v3, v4, v5, Past5>>
  <2> UNCHANGED <<v1, v2, v3, v4, v5, v6, v7, v8, v9, v10, v11, v12, v13, v14>>
    BY <1>2 DEF Past5, Past6, Past7, Past8, Past9, Past10, Past11, Past12, Past13, Past14
  <2> QED BY DEF Clone!vars, Drop!vars, Pushes!vars, Opens!vars, Pairings!vars, Pairings!server, Pairings!wires,
                 Pairings!noted, Speech!vars, DropBox!vars, DropBox!asking
<1> QED BY <1>1, <1>2

(* Whatever the part, its invariant is kept. *)
THEOREM PartsKeep == Spec => []PartInv
<1>1. Init => PartInv
  <2> SUFFICES ASSUME Init PROVE PartInv OBVIOUS
  <2>1. /\ part = "clone" => Clone!Init
        /\ part = "drop" => Drop!Init
        /\ part = "pushes" => Pushes!Init
        /\ part = "opens" => Opens!Init
        /\ part = "pairing" => Pairings!Init
        /\ part = "speech" => Speech!Init
        /\ part = "dropped" => DropBox!Init
    BY DEF Init
  <2> QED BY <2>1, CloneKeep, DropKeep, PushesKeep, OpensKeep, PairingsKeep, SpeechKeep, DropBoxKeep DEF PartInv
<1>2. PartInv /\ [Next]_<<v1, v2, v3, v4, v5, Past5>> => PartInv'
  <2> SUFFICES ASSUME PartInv, [Next]_<<v1, v2, v3, v4, v5, Past5>> PROVE PartInv' OBVIOUS
  <2>1. part' = part BY PartStays
  <2>2. part = "clone" => Proved!CloneInv' BY OwnSteps, CloneKeep DEF PartInv
  <2>3. part = "drop" => Proved!DropInv' BY OwnSteps, DropKeep DEF PartInv
  <2>4. part = "pushes" => Proved!PushInv' BY OwnSteps, PushesKeep DEF PartInv
  <2>5. part = "opens" => Proved!OpenInv' BY OwnSteps, OpensKeep DEF PartInv
  <2>6. part = "pairing" => Proved!PairInv' BY OwnSteps, PairingsKeep DEF PartInv
  <2>7. part = "speech" => Proved!SpeechInv' BY OwnSteps, SpeechKeep DEF PartInv
  <2>8. part = "dropped" => Proved!FlowInv' BY OwnSteps, DropBoxKeep DEF PartInv
  <2> QED BY <2>1, <2>2, <2>3, <2>4, <2>5, <2>6, <2>7, <2>8 DEF PartInv
<1> QED BY <1>1, <1>2, PTL DEF Spec

(* The program removes no folder but one its clone made, and no copy replaces what is there:   *)
(* new-project.ts's claimTarget and removeOwnFolder, file-drop.ts's copyOne and claimName.     *)
THEOREM FilesAreKept == Spec => []FilesKept
<1>1. PartInv => FilesKept BY CloneKeep, DropKeep DEF PartInv, FilesKept
<1> QED BY <1>1, PartsKeep, PTL

(* Every event due a push gets one, in order, once, and about itself (remote-host.ts's         *)
(* pushEvent, waitForBrief and todayLine).                                                     *)
THEOREM PushesFollow == Spec => []PushesFollowEvents
<1>1. PartInv => PushesFollowEvents BY PushesKeep DEF PartInv, PushesFollowEvents
<1> QED BY <1>1, PartsKeep, PTL

(* A phone that was let in keeps its row until the builder revokes it, and one revoked is not   *)
(* served (ws-server.ts: createPairing, revokeUnusedDevice, revokeDevice, handleHello).        *)
THEOREM PairingsStay == Spec => []PairingsHold
<1>1. PartInv => PairingsHold BY PairingsKeep DEF PartInv, PairingsHold
<1> QED BY <1>1, PartsKeep, PTL

(* A speech server's key goes to no other server, whatever failed; and the settings' section     *)
(* says what is so, unless a save left the file unreadable (`lost`) or, for a test's result, one *)
(* that failed had moved the address, `ahead` (setSpeechServer; SecretarySection.tsx).           *)
THEOREM KeysStayAtHome == Spec => []KeyStaysHome
<1>1. PartInv => KeyStaysHome BY SpeechKeep DEF PartInv, KeyStaysHome
<1> QED BY <1>1, PartsKeep, PTL

(* Files are copied once, to where they were dropped; what is said of a drop became of it; and  *)
(* while none was let go in the moment before a dialog's state was set (~slipped), the keyboard  *)
(* is held for the one drop that asks (App.tsx; dropFlow.ts; dropNotice.ts).                     *)
THEOREM DropsKeepEndingWell == Spec => []DropsEndWell
<1>1. PartInv => DropsEndWell BY DropBoxKeep DEF PartInv, DropsEndWell
<1> QED BY <1>1, PartsKeep, PTL

(* What a cache answers the phone with is the file asked for, as the worker in charge last kept  *)
(* it, and never of a build older than that worker's (sw.ts: networkFirst, respond, install,     *)
(* activate).                                                                                   *)
THEOREM AppStaysOpen == Spec => []AppOpens
<1>1. PartInv => AppOpens BY OpensKeep DEF PartInv, AppOpens
<1> QED BY <1>1, PartsKeep, PTL
=============================================================================
