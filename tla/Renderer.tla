------------------------------ MODULE Renderer ------------------------------
(***************************************************************************)
(* The media renderer of main.java: the AVTransport actions that control   *)
(* points invoke, the Handler messages that carry them to the UI thread,   *)
(* the player's callbacks, and the list of videos the user can click.      *)
(*                                                                         *)
(* Each control request runs on an HTTP thread of its own.  It shares      *)
(* mVideoURL, mVideoItemList and the state variables with the UI thread    *)
(* and with other requests, without a lock; one action is one access to    *)
(* them.  Only the UI thread touches the player, when it handles a message *)
(* or a callback; that, and the ListView, are modelled from how main.java  *)
(* uses them.                                                              *)
(***************************************************************************)
EXTENDS Integers, SequencesExt

CONSTANTS
    Threads,      \* HTTP threads
    UI,           \* the UI thread
    Mp4, Mkv, Wmv, Asf,  \* URLs of .mp4, .mkv, .wmv and .asf resources
    Unsupported,  \* URLs of other resources
    Images,       \* URLs of .jpg and .png resources
    NoPort,       \* the URLs among these that name no port
    NoUrl,        \* ""
    Offers,       \* the resource lists of the items that are offered
    MaxInputs     \* bound: control requests and clicks together

Supported == Mp4 \cup Mkv \cup Wmv \cup Asf
Urls == Supported \cup Unsupported \cup Images
Actors == Threads \cup {UI}
Durations == {"none", "fraction", "nofraction"}
Resources == [url: Urls, duration: Durations]

ASSUME UIAssumption == UI \notin Threads
ASSUME NoUrlAssumption == NoUrl \notin Urls
ASSUME KindsAssumption == /\ Supported \cap Unsupported = {}
                          /\ Supported \cap Images = {}
                          /\ Unsupported \cap Images = {}
                          /\ NoPort \subseteq Urls
ASSUME OffersAssumption == Offers \subseteq Seq(Resources)
ASSUME MaxInputsAssumption == MaxInputs \in Nat

VARIABLES
    mVideoURL,       \* what the next playback will play
    mVideoItemList,  \* URL of the media item under each key
    rows,            \* keys of the items the ListView shows
    listVisible,     \* visibility of the list and of its clear button
    transportState,  \* state variable TransportState
    lastChange,      \* state variable LastChange, as <<variable, value>>
    queue,           \* messages of handlerUI
    player,          \* VideoView: its URL and what it is doing
    call,            \* what each thread is executing
    crashed,         \* an uncaught exception ends the whole process
    inputs,          \* counts requests and clicks against MaxInputs
    raced            \* history: since the last command was sent, something
                     \* else commanded or ended the playback

media == <<mVideoItemList, rows>>
state == <<transportState, lastChange>>
vars == <<mVideoURL, media, listVisible, state, queue, player, call, crashed,
          inputs, raced>>

(***************************************************************************)
(* A thread's call: "todo" are the resources not yet examined, headed by   *)
(* the current one, "news" the state variable to be set and its value,     *)
(* "then" where the call goes on after that, "url" the URL of the item.    *)
(* "tried" the formats that the name has not matched so far.               *)
(* Histories: "touched", another thread wrote mVideoURL since the call     *)
(* wrote it last, or found it supported; "cleared", the list was cleared   *)
(* during the call.                                                        *)
(***************************************************************************)
PCs == {"idle", "resource", "check", "discard", "known", "get", "setUrl",
        "put", "announce", "duration", "verify", "reject", "image", "send",
        "state", "event", "fault", "show"}

NoText == ""
NoNews == <<NoText, NoText>>

Idle == [op |-> "none", pc |-> "idle", then |-> "idle", todo |-> <<>>,
         news |-> NoNews, url |-> NoUrl, tried |-> 0,
         touched |-> FALSE, cleared |-> FALSE]

Doing(op, pc) == [Idle EXCEPT !.op = op, !.pc = pc]

Goto(a, pc) == call' = [call EXCEPT ![a].pc = pc]
Ends(a) == call' = [call EXCEPT ![a] = Idle]

(* setStateVariable(..., variable, value), then the call goes on at pc. *)
Setting(c, variable, newValue, pc) ==
    [c EXCEPT !.pc = "state", !.news = <<variable, newValue>>, !.then = pc]

(* Thread a writes mVideoURL and goes on with call c. *)
WriteURL(a, url, c) ==
    /\ mVideoURL' = url
    /\ call' = [b \in Actors |->
                  IF b = a THEN c
                  ELSE IF call[b].pc = "idle" THEN call[b]
                  ELSE [call[b] EXCEPT !.touched = TRUE]]

Input == inputs < MaxInputs /\ inputs' = inputs + 1

Init ==
    /\ mVideoURL = NoUrl
    /\ mVideoItemList = <<>>
    /\ rows = {}
    /\ listVisible = TRUE
    /\ transportState = "STOPPED"
    /\ lastChange = NoNews
    /\ queue = <<>>
    /\ player = [url |-> NoUrl, phase |-> "idle"]
    /\ call = [a \in Actors |-> Idle]
    /\ crashed = "no"
    /\ inputs = 0
    /\ raced = FALSE

-----------------------------------------------------------------------------
(* setStateVariable: the variable, then LastChange.  Notifying the         *)
(* subscribers of LastChange is the business of module Eventing.           *)

SetState(a) ==
    /\ call[a].pc = "state"
    /\ transportState' = IF call[a].news[1] = "TransportState"
                         THEN call[a].news[2] ELSE transportState
    /\ Goto(a, "event")
    /\ UNCHANGED <<mVideoURL, media, listVisible, lastChange, queue, player,
                   crashed, inputs, raced>>

SetEvent(a) ==
    /\ call[a].pc = "event"
    /\ lastChange' = call[a].news
    /\ call' = [call EXCEPT ![a] =
                  IF call[a].then = "idle" THEN Idle
                  ELSE [call[a] EXCEPT !.pc = call[a].then, !.then = "idle",
                                       !.news = NoNews]]
    /\ UNCHANGED <<mVideoURL, media, listVisible, transportState, queue, player,
                   crashed, inputs, raced>>

-----------------------------------------------------------------------------
(* SetAVTransportURI *)

(* A mistake: the URL of the last request stays for the time being. *)
LastURL == mVideoURL

FirstURL == NoUrl

(* The metadata is empty, holds no video item, or offers resources. *)
SetAVTransportURI(t) ==
    /\ call[t].pc = "idle"
    /\ Input
    /\ LET c == Doing("SetAVTransportURI", "reject")
       IN  \/ WriteURL(t, FirstURL,
                       Setting(c, "CurrentTrackDuration", NoText, "fault"))
           \/ WriteURL(t, FirstURL, c)
           \/ \E offer \in Offers :
                WriteURL(t, FirstURL,
                         [c EXCEPT !.pc = "resource", !.todo = offer])
    /\ UNCHANGED <<media, listVisible, state, queue, player, crashed, raced>>

Fault(t) ==
    /\ call[t].pc = "fault"
    /\ Ends(t)
    /\ UNCHANGED <<mVideoURL, media, listVisible, state, queue, player, crashed,
                   inputs, raced>>

(* The loop over the resources.  Each is tried by a connection first; the  *)
(* address of one without a port is refused by an exception nobody catches.*)
Resource(t) == Head(call[t].todo).url

Connects(t) ==
    /\ call[t].pc = "resource"
    /\ call[t].todo # <<>>
    /\ Resource(t) \notin NoPort

RefuseAddress(t) ==
    /\ call[t].pc = "resource"
    /\ call[t].todo # <<>>
    /\ Resource(t) \in NoPort
    /\ crashed' = "port"
    /\ UNCHANGED <<mVideoURL, media, listVisible, state, queue, player, call,
                   inputs, raced>>

(* No resource is left, or an image comes up when there is a video URL. *)
LeaveLoop(t) ==
    /\ \/ call[t].pc = "resource" /\ call[t].todo = <<>>
       \/ Connects(t) /\ Resource(t) \in Images /\ mVideoURL # NoUrl
    /\ Goto(t, "verify")
    /\ UNCHANGED <<mVideoURL, media, listVisible, state, queue, player, crashed,
                   inputs, raced>>

StoreImageUrl(t) ==
    /\ Connects(t)
    /\ Resource(t) \in Images
    /\ mVideoURL = NoUrl
    /\ call' = [call EXCEPT ![t].todo = Tail(@)]
    /\ UNCHANGED <<mVideoURL, media, listVisible, state, queue, player, crashed,
                   inputs, raced>>

TakeResource(t) ==
    /\ Connects(t)
    /\ Resource(t) \notin Images
    /\ WriteURL(t, Resource(t), [call[t] EXCEPT !.pc = "check", !.touched = FALSE])
    /\ UNCHANGED <<media, listVisible, state, queue, player, crashed, inputs,
                   raced>>

(* The name is compared with one format after another; each comparison     *)
(* reads mVideoURL again.                                                  *)
Tests == <<Mp4, Mkv, Wmv, Asf>>
Names == <<Mp4, Wmv, Asf, Mkv>>

(* A mistake: every name passes the last comparison. *)
AnyName(url, formats, i) == i = 4 \/ url \in formats[i]

Matches(url, formats, i) == url \in formats[i]

Compare(t, formats, found, missed) ==
    call' = [call EXCEPT ![t] =
               IF Matches(mVideoURL, formats, call[t].tried + 1) THEN found
               ELSE IF call[t].tried < 3 THEN [call[t] EXCEPT !.tried = @ + 1]
               ELSE missed]

CheckFormat(t) ==
    /\ call[t].pc = "check"
    /\ Compare(t, Tests,
               [call[t] EXCEPT !.pc = "known", !.tried = 0, !.touched = FALSE],
               [call[t] EXCEPT !.pc = "discard", !.tried = 0])
    /\ UNCHANGED <<mVideoURL, media, listVisible, state, queue, player, crashed,
                   inputs, raced>>

DiscardResource(t) ==
    /\ call[t].pc = "discard"
    /\ WriteURL(t, NoUrl, [call[t] EXCEPT !.pc = "resource", !.todo = Tail(@),
                                         !.touched = FALSE])
    /\ UNCHANGED <<media, listVisible, state, queue, player, crashed, inputs,
                   raced>>

(* A mistake: the item is fetched without asking whether it is there. *)
AlwaysKnown(url) == TRUE

IsKnown(url) == url \in DOMAIN mVideoItemList

LookUpItem(t) ==
    /\ call[t].pc = "known"
    /\ Goto(t, IF IsKnown(mVideoURL) THEN "get" ELSE "setUrl")
    /\ UNCHANGED <<mVideoURL, media, listVisible, state, queue, player, crashed,
                   inputs, raced>>

(* get() answers null for a key that is not there, and getTitle() throws. *)
GetItem(t) ==
    /\ call[t].pc = "get"
    /\ IF mVideoURL \in DOMAIN mVideoItemList
       THEN Goto(t, "duration") /\ UNCHANGED crashed
       ELSE crashed' = "null" /\ UNCHANGED call
    /\ UNCHANGED <<mVideoURL, media, listVisible, state, queue, player, inputs,
                   raced>>

SetItemUrl(t) ==
    /\ call[t].pc = "setUrl"
    /\ call' = [call EXCEPT ![t].pc = "put", ![t].url = mVideoURL]
    /\ UNCHANGED <<mVideoURL, media, listVisible, state, queue, player, crashed,
                   inputs, raced>>

(* A mistake: the list view is not told. *)
QuietlyOn == "duration"

AfterPut == "announce"

PutItem(t) ==
    /\ call[t].pc = "put"
    /\ mVideoItemList' = [key \in DOMAIN mVideoItemList \cup {mVideoURL} |->
                            IF key = mVideoURL THEN call[t].url
                            ELSE mVideoItemList[key]]
    /\ Goto(t, AfterPut)
    /\ UNCHANGED <<mVideoURL, rows, listVisible, state, queue, player, crashed,
                   inputs, raced>>

AnnounceItem(t) ==
    /\ call[t].pc = "announce"
    /\ queue' = Append(queue, "refresh")
    /\ Goto(t, "duration")
    /\ UNCHANGED <<mVideoURL, media, listVisible, state, player, crashed,
                   inputs, raced>>

(* fromHMS2Millis throws unless the duration has a fraction of a second. *)
UpdateDuration(t) ==
    /\ call[t].pc = "duration"
    /\ LET duration == Head(call[t].todo).duration
       IN  /\ crashed' = IF duration = "nofraction" THEN "duration" ELSE "no"
           /\ call' = CASE duration = "none" -> [call EXCEPT ![t].pc = "verify"]
                        [] duration = "nofraction" -> call
                        [] OTHER -> [call EXCEPT ![t] =
                             Setting(call[t], "CurrentTrackDuration", "ms", "verify")]
    /\ UNCHANGED <<mVideoURL, media, listVisible, state, queue, player, inputs,
                   raced>>

Verify(t) ==
    /\ call[t].pc = "verify"
    /\ Compare(t, Names, [call[t] EXCEPT !.pc = "image", !.tried = 0],
                         [call[t] EXCEPT !.pc = "reject", !.tried = 0])
    /\ UNCHANGED <<mVideoURL, media, listVisible, state, queue, player, crashed,
                   inputs, raced>>

Reject(t) ==
    /\ call[t].pc = "reject"
    /\ WriteURL(t, NoUrl, Idle)
    /\ UNCHANGED <<media, listVisible, state, queue, player, crashed, inputs,
                   raced>>

(* An image is there, is fetched or captured (and shown), or fails. *)
FetchImage(t) ==
    /\ call[t].pc = "image"
    /\ Ends(t)
    /\ queue' \in {queue, Append(queue, "refresh")}
    /\ UNCHANGED <<mVideoURL, media, listVisible, state, player, crashed,
                   inputs, raced>>

-----------------------------------------------------------------------------
(* Play, Stop and GetPositionInfo *)

Commands == {"play", "stop"}

InFlight ==
    \/ \E t \in Threads : /\ call[t].op \in {"Play", "Stop"}
                          /\ call[t].pc \in {"state", "event"}
    \/ \E i \in 1..Len(queue) : queue[i] \in Commands

(* handlerUI.sendEmptyMessage for a command, then TransportState. *)
SendCommand(t, op, msg, newState) ==
    /\ queue' = Append(queue, msg)
    /\ call' = [call EXCEPT ![t] =
                  Setting(Doing(op, "state"), "TransportState", newState, "idle")]
    /\ raced' = (InFlight \/ call[UI].pc # "idle")
    /\ UNCHANGED <<mVideoURL, media, listVisible, state, player, crashed>>

(* Without a URL nothing happens, and the request succeeds. *)
Play(t) ==
    /\ call[t].pc = "idle"
    /\ Input
    /\ call' = [call EXCEPT ![t] = IF mVideoURL = NoUrl THEN Idle
                                   ELSE Doing("Play", "send")]
    /\ UNCHANGED <<mVideoURL, media, listVisible, state, queue, player, crashed,
                   raced>>

SendPlay(t) ==
    /\ call[t].pc = "send"
    /\ SendCommand(t, "Play", "play", "PLAYING")
    /\ UNCHANGED inputs

Stop(t) ==
    /\ call[t].pc = "idle"
    /\ Input
    /\ SendCommand(t, "Stop", "stop", "STOPPED")

GetPositionInfo(t) ==
    /\ call[t].pc = "idle"
    /\ Input
    /\ call' = [call EXCEPT ![t] = Setting(Doing("GetPositionInfo", "state"),
                                  "RelativeTimePosition", "time", "idle")]
    /\ UNCHANGED <<mVideoURL, media, listVisible, state, queue, player, crashed,
                   raced>>

-----------------------------------------------------------------------------
(* The UI thread: handleMessage *)

UIFree == call[UI].pc = "idle"

Message(msg) ==
    /\ UIFree
    /\ queue # <<>>
    /\ Head(queue) = msg
    /\ queue' = Tail(queue)

(* setVideoPath releases the old player, which then calls back no more, *)
(* and prepares a new one.                                              *)
HandlePlay ==
    /\ Message("play")
    /\ player' = [url |-> mVideoURL, phase |-> "preparing"]
    /\ UNCHANGED <<mVideoURL, media, listVisible, state, call, crashed, inputs,
                   raced>>

HandleStop ==
    /\ Message("stop")
    /\ player' = [player EXCEPT !.phase = "idle"]
    /\ listVisible' = TRUE
    /\ UNCHANGED <<mVideoURL, media, state, call, crashed, inputs, raced>>

HandleRefresh ==
    /\ Message("refresh")
    /\ rows' = DOMAIN mVideoItemList
    /\ UNCHANGED <<mVideoURL, mVideoItemList, listVisible, state, player, call,
                   crashed, inputs, raced>>

(* The UI thread: callbacks of the player *)

onPrepared ==
    /\ UIFree
    /\ player.phase = "preparing"
    /\ player.url # NoUrl
    /\ player' = [player EXCEPT !.phase = "playing"]
    /\ listVisible' = FALSE
    /\ UNCHANGED <<mVideoURL, media, state, queue, call, crashed, inputs, raced>>

(* Mistakes: another state of AVTransport.xml is reported; none is. *)
ReportNoMedia == Setting(Doing("callback", "state"), "TransportState",
                         "NO_MEDIA_PRESENT", "show")
KeepState == Doing("callback", "show")

ReportStopped == Setting(Doing("callback", "state"), "TransportState", "STOPPED",
                         "show")

(* onCompletion of a playing video, onError of any. *)
PlaybackEnds(phases) ==
    /\ UIFree
    /\ player.phase \in phases
    /\ player' = [player EXCEPT !.phase = "idle"]
    /\ call' = [call EXCEPT ![UI] = ReportStopped]
    /\ raced' = (raced \/ InFlight)
    /\ UNCHANGED <<mVideoURL, media, listVisible, state, queue, crashed, inputs>>

onCompletion == PlaybackEnds({"playing"})
onError == PlaybackEnds({"preparing", "playing"})

(* A mistake: the list stays hidden. *)
StayHidden == UNCHANGED listVisible

SetVisible == listVisible' = TRUE

ShowList ==
    /\ call[UI].pc = "show"
    /\ SetVisible
    /\ Ends(UI)
    /\ UNCHANGED <<mVideoURL, media, state, queue, player, crashed, inputs, raced>>

(* The UI thread: clicks, while the list is visible *)

(* The item at the position clicked, by now: whichever is there. *)
onItemClick ==
    /\ UIFree
    /\ listVisible
    /\ Input
    /\ \E key \in DOMAIN mVideoItemList : WriteURL(UI, mVideoItemList[key], Idle)
    /\ queue' = Append(queue, "play")
    /\ raced' = TRUE
    /\ UNCHANGED <<media, listVisible, state, player, crashed>>

onClick ==
    /\ UIFree
    /\ listVisible
    /\ Input
    /\ mVideoItemList' = <<>>
    /\ queue' = Append(queue, "refresh")
    /\ call' = [a \in Actors |-> IF call[a].pc = "idle" THEN call[a]
                                 ELSE [call[a] EXCEPT !.cleared = TRUE]]
    /\ UNCHANGED <<mVideoURL, rows, listVisible, state, player, crashed, raced>>

-----------------------------------------------------------------------------
Control(t) ==
    \/ SetAVTransportURI(t) \/ Fault(t) \/ RefuseAddress(t) \/ LeaveLoop(t)
    \/ StoreImageUrl(t) \/ TakeResource(t) \/ CheckFormat(t) \/ DiscardResource(t)
    \/ LookUpItem(t) \/ GetItem(t) \/ SetItemUrl(t) \/ PutItem(t)
    \/ AnnounceItem(t) \/ UpdateDuration(t) \/ Verify(t) \/ Reject(t)
    \/ FetchImage(t)
    \/ Play(t) \/ SendPlay(t) \/ Stop(t) \/ GetPositionInfo(t)

UserInterface ==
    \/ HandlePlay \/ HandleStop \/ HandleRefresh
    \/ onPrepared \/ onCompletion \/ onError \/ ShowList
    \/ onItemClick \/ onClick

Next ==
    /\ crashed = "no"
    /\ \/ \E t \in Threads : Control(t)
       \/ \E a \in Actors : SetState(a) \/ SetEvent(a)
       \/ UserInterface

Spec == Init /\ [][Next]_vars

-----------------------------------------------------------------------------
(* Properties *)

News == {NoText, "TransportState", "CurrentTrackDuration", "RelativeTimePosition"}
        \X {NoText, "PLAYING", "STOPPED", "ms", "time"}

Call == [op: {"none", "SetAVTransportURI", "Play", "Stop", "GetPositionInfo",
              "callback"},
         pc: PCs, then: PCs, todo: Seq(Resources),
         news: News, url: Urls \cup {NoUrl}, tried: 0..3,
         touched: BOOLEAN, cleared: BOOLEAN]

(* Every variable holds a value of its type. *)
TypeOK ==
    /\ mVideoURL \in Urls \cup {NoUrl}
    /\ DOMAIN mVideoItemList \subseteq Urls \cup {NoUrl}
    /\ \A key \in DOMAIN mVideoItemList :
          mVideoItemList[key] \in Urls \cup {NoUrl}
    /\ rows \subseteq Urls \cup {NoUrl}
    /\ listVisible \in BOOLEAN
    /\ transportState \in {"STOPPED", "PLAYING"}
    /\ lastChange \in News
    /\ queue \in Seq({"play", "stop", "refresh"})
    /\ player \in [url: Urls \cup {NoUrl}, phase: {"idle", "preparing", "playing"}]
    /\ call \in [Actors -> Call]
    /\ crashed \in {"no", "null", "port", "duration"}
    /\ inputs \in Nat
    /\ raced \in BOOLEAN

AllQuiet == (\A a \in Actors : call[a].pc = "idle") /\ ~InFlight

(* What GetTransportInfo tells agrees with the player once everything is   *)
(* quiet, unless the last command overlapped with another one or with the  *)
(* end of a playback, or the user started the playback from the list (Play *)
(* and Stop set TransportState on the HTTP thread, the callbacks on the UI *)
(* thread, and the player follows later).                                  *)
StateFollowsPlayer ==
    (AllQuiet /\ ~raced) =>
        (transportState = "PLAYING" <=> player.phase # "idle")

(* The list is hidden only while there is a playback to look at, or for as *)
(* long as its end is being handled (onPrepared hides it; stopping, ending *)
(* and failing must each bring it back, whichever comes).                  *)
NoBlankScreen ==
    ~listVisible => player.phase # "idle" \/ call[UI].pc # "idle"

(* A list view that lags behind the list is going to be refreshed          *)
(* (SetAVTransportURI adds on its own thread, the clear button clears).    *)
RowsCatchUp ==
    \/ rows = DOMAIN mVideoItemList
    \/ \E i \in 1..Len(queue) : queue[i] = "refresh"
    \/ \E t \in Threads : call[t].pc = "announce"

(* A SetAVTransportURI that nobody interferes with leaves a URL that can   *)
(* be played, and is listed unless the list was cleared meanwhile, if it   *)
(* succeeds, and none if it fails, whatever the resources offered.         *)
URIOutcome ==
    [][\A t \in Threads :
         (/\ call[t].op = "SetAVTransportURI"
          /\ call[t].pc # "idle" /\ call'[t].pc = "idle"
          /\ ~call[t].touched) =>
            IF call[t].pc = "image"
            THEN /\ mVideoURL' \in Supported
                 /\ mVideoURL' \in DOMAIN mVideoItemList \/ call[t].cleared
            ELSE mVideoURL' = NoUrl]_vars

(* A known item is missing when it is fetched (and the process dies of it) *)
(* only if the list was cleared, or mVideoURL was written, meanwhile.      *)
NullNeedsInterference ==
    crashed = "null" =>
        \E t \in Threads : call[t].pc = "get" /\ (call[t].cleared \/ call[t].touched)

(* "format is supported", says main.java:496 of what it then lists: what a *)
(* step adds to the list is the URL of a supported format under that very  *)
(* URL, or it is added by a request while whose test, look-up and listing  *)
(* lasted another request or a click wrote mVideoURL, which each of the    *)
(* three reads again.                                                      *)
ListedWereTested ==
    [][\A key \in DOMAIN mVideoItemList' :
         \/ key \in Supported /\ mVideoItemList'[key] = key
         \/ key \in DOMAIN mVideoItemList /\ mVideoItemList'[key] = mVideoItemList[key]
         \/ \E t \in Threads : call[t].pc = "put" /\ call[t].touched]_vars
=============================================================================
