---------------------------- MODULE Renderer_proofs ----------------------------
(***************************************************************************)
(* What the media renderer keeps true, for any number of control requests  *)
(* at a time, any resources on offer and any number of inputs.             *)
(***************************************************************************)
EXTENDS Renderer, SequenceTheorems, TLAPS

(* A command is on its way while its thread is still to set TransportState. *)
Sets(c) == c.pc \in {"state", "event"}
Flying(c) == c.op \in {"Play", "Stop"} /\ Sets(c)

(* The resource that is being examined heads the list.                     *)
Examines == {"check", "discard", "known", "get", "setUrl", "put", "announce", "duration"}

NewStates == {<<"TransportState", "PLAYING">>, <<"TransportState", "STOPPED">>}

(* Where a request can be, and what it carries there. *)
ThreadShape(c) ==
    \/ c.pc = "idle"
    \/ /\ c.op = "SetAVTransportURI"
       /\ \/ c.pc \in Examines /\ c.todo # <<>>
          \/ c.pc \in {"resource", "verify", "reject", "image", "fault"}
          \/ /\ Sets(c)
             /\ c.then \in {"fault", "verify"} /\ c.news[1] = "CurrentTrackDuration"
    \/ c.op = "Play" /\ c.pc = "send"
    \/ c.op \in {"Play", "Stop"} /\ Sets(c) /\ c.then = "idle" /\ c.news \in NewStates
    \/ /\ c.op = "GetPositionInfo"
       /\ Sets(c) /\ c.then = "idle" /\ c.news[1] = "RelativeTimePosition"

(* The UI thread reports the end of a playback, then shows the list. *)
UIShape(c) ==
    \/ c.pc = "idle"
    \/ c.op = "callback" /\ c.pc = "show"
    \/ /\ c.op = "callback"
       /\ Sets(c) /\ c.then = "show" /\ c.news = <<"TransportState", "STOPPED">>

Shaped ==
    /\ \A t \in Threads : ThreadShape(call[t])
    /\ UIShape(call[UI])

(* What a SetAVTransportURI knows of mVideoURL at each place, as long as   *)
(* no other thread writes it: "url" is none until a resource is taken, a   *)
(* supported one from the check on, that of the item when it is about to   *)
(* be put, and listed once the item was found or put.                      *)
Track(c, url, listed) ==
    (c.op = "SetAVTransportURI" /\ ~c.touched) =>
        /\ c.pc \in {"resource", "fault"} \/ (Sets(c) /\ c.then = "fault") => url = NoUrl
        /\ c.pc \in {"known", "setUrl", "put"} => url \in Supported
        /\ c.pc = "put" => c.url = url
        /\ c.pc \in {"get", "announce", "duration", "image"}
           \/ (Sets(c) /\ c.then = "verify") =>
               url \in Supported /\ (url \in listed \/ c.cleared)
        /\ c.pc = "verify" =>
               url = NoUrl \/ (url \in Supported /\ (url \in listed \/ c.cleared))

OnTrack == \A t \in Threads : Track(call[t], mVideoURL, DOMAIN mVideoItemList)

Has(msg) == \E i \in 1..Len(queue) : queue[i] = msg
HasCommand == Has("play") \/ Has("stop")

OneCommand ==
    \A i, j \in 1..Len(queue) : queue[i] \in Commands /\ queue[j] \in Commands => i = j

(* Unless raced, there is at most one command, and TransportState and the  *)
(* player each follow it as soon as it has got to them.                    *)
Settled ==
    ~raced =>
        /\ OneCommand
        /\ \A t, u \in Threads : Flying(call[t]) /\ Flying(call[u]) => t = u
        /\ \A t \in Threads : Flying(call[t]) =>
              /\ call[t].pc = "event" => transportState = call[t].news[2]
              /\ Has("play") => call[t].news[2] = "PLAYING"
              /\ Has("stop") => call[t].news[2] = "STOPPED"
              /\ ~HasCommand => (player.phase # "idle" <=> call[t].news[2] = "PLAYING")
        /\ (\A t \in Threads : ~Flying(call[t])) =>
              /\ Has("play") => transportState = "PLAYING"
              /\ Has("stop") => transportState = "STOPPED"
              /\ (UIFree /\ ~HasCommand) =>
                    (player.phase # "idle" <=> transportState = "PLAYING")
        /\ ~UIFree =>
              /\ \A t \in Threads : ~Flying(call[t])
              /\ ~HasCommand /\ player.phase = "idle"
        /\ call[UI].pc \in {"event", "show"} => transportState = "STOPPED"

IInv ==
    /\ TypeOK
    /\ Shaped
    /\ OnTrack
    /\ Settled
    /\ NoBlankScreen
    /\ RowsCatchUp
    /\ NullNeedsInterference
---------------------------------------------------------------------------
(* The calls                                                               *)

UrlType == Urls \cup {NoUrl}

(* What a step of another thread does to the call of b: it may note that   *)
(* mVideoURL was written, or the list cleared; and if either happens, it   *)
(* does.                                                                   *)
Bystander(b) ==
    /\ call'[b] \in Call
    /\ call'[b].op = call[b].op /\ call'[b].pc = call[b].pc
    /\ call'[b].then = call[b].then /\ call'[b].news = call[b].news
    /\ call'[b].todo = call[b].todo /\ call'[b].url = call[b].url
    /\ call[b].touched => call'[b].touched
    /\ call[b].cleared => call'[b].cleared
    /\ call[b].pc = "idle" \/ call'[b].touched \/ mVideoURL' = mVideoURL
    /\ \/ call[b].pc = "idle"
       \/ call'[b].cleared
       \/ DOMAIN mVideoItemList \subseteq DOMAIN mVideoItemList'

(* A step of thread a. *)
Mover(a) ==
    /\ DOMAIN call' = Actors /\ call' = [b \in Actors |-> call'[b]]
    /\ \A b \in Actors : b # a => Bystander(b)

LEMMA OneMoves ==
    ASSUME call \in [Actors -> Call], NEW a \in Actors, NEW c,
           call' = [call EXCEPT ![a] = c], mVideoURL' = mVideoURL,
           DOMAIN mVideoItemList \subseteq DOMAIN mVideoItemList'
    PROVE  Mover(a) /\ call'[a] = c
BY DEF Mover, Bystander

LEMMA OneWrites ==
    ASSUME call \in [Actors -> Call], NEW a \in Actors, NEW url, NEW c,
           WriteURL(a, url, c), mVideoItemList' = mVideoItemList
    PROVE  Mover(a) /\ call'[a] = c /\ mVideoURL' = url
<1>1. /\ call'[a] = c /\ mVideoURL' = url
      /\ DOMAIN call' = Actors /\ call' = [b \in Actors |-> call'[b]]
    BY DEF WriteURL
<1>2. ASSUME NEW b \in Actors, b # a
      PROVE  Bystander(b)
    <2>1. CASE call[b].pc = "idle"
        BY <1>2, <2>1 DEF WriteURL, Bystander
    <2>2. CASE call[b].pc # "idle"
        <3>1. call'[b] = [call[b] EXCEPT !.touched = TRUE]
            BY <1>2, <2>2 DEF WriteURL
        <3>2. call[b] \in Call
            OBVIOUS
        <3> QED BY <3>1, <3>2 DEF Bystander, Call
    <2> QED BY <2>1, <2>2
<1> QED BY <1>1, <1>2 DEF Mover

LEMMA IdleIsCall == Idle \in Call
<1>1. <<>> \in Seq(Resources)
    BY EmptySeq
<1>2. NoNews \in News
    BY DEF NoNews, News
<1>3. /\ Idle = [op |-> "none", pc |-> "idle", then |-> "idle", todo |-> <<>>,
                 news |-> NoNews, url |-> NoUrl, tried |-> 0,
                 touched |-> FALSE, cleared |-> FALSE]
      /\ "idle" \in PCs /\ 0 \in 0..3
    BY DEF Idle, PCs
<1> QED BY <1>1, <1>2, <1>3 DEF Call

(* A call that is to set a state variable. *)
LEMMA SetsNews ==
    ASSUME NEW c \in Call, NEW variable, NEW newValue, NEW pc \in PCs,
           <<variable, newValue>> \in News
    PROVE  /\ Setting(c, variable, newValue, pc) \in Call
           /\ Setting(c, variable, newValue, pc).op = c.op
           /\ Setting(c, variable, newValue, pc).pc = "state"
           /\ Setting(c, variable, newValue, pc).then = pc
           /\ Setting(c, variable, newValue, pc).news = <<variable, newValue>>
           /\ Setting(c, variable, newValue, pc).todo = c.todo
           /\ Setting(c, variable, newValue, pc).touched = c.touched
           /\ Setting(c, variable, newValue, pc).cleared = c.cleared
<1> DEFINE news == <<variable, newValue>>
<1>1. news \in News /\ "state" \in PCs
    BY DEF PCs
<1>2. Setting(c, variable, newValue, pc) =
          [c EXCEPT !.pc = "state", !.news = news, !.then = pc]
    BY DEF Setting
<1> HIDE DEF news
<1>3. LET d == [c EXCEPT !.pc = "state", !.news = news, !.then = pc]
      IN  /\ d \in Call /\ d.op = c.op /\ d.pc = "state" /\ d.then = pc
          /\ d.news = news /\ d.todo = c.todo
          /\ d.touched = c.touched /\ d.cleared = c.cleared
    BY <1>1 DEF Call
<1> QED BY <1>2, <1>3 DEF news

(* Records of a call that begins. *)
LEMMA DoingIsCall ==
    ASSUME NEW op \in {"none", "SetAVTransportURI", "Play", "Stop", "GetPositionInfo",
                       "callback"},
           NEW pc \in PCs
    PROVE  /\ Doing(op, pc) \in Call
           /\ Doing(op, pc).op = op /\ Doing(op, pc).pc = pc
           /\ Doing(op, pc).todo = <<>> /\ Doing(op, pc).then = "idle"
           /\ ~Doing(op, pc).touched /\ ~Doing(op, pc).cleared
<1>1. Doing(op, pc) = [Idle EXCEPT !.op = op, !.pc = pc]
    BY DEF Doing
<1>2. /\ Idle.todo = <<>> /\ Idle.then = "idle" /\ Idle.touched = FALSE
      /\ Idle.cleared = FALSE
    BY DEF Idle
<1> QED BY <1>1, <1>2, IdleIsCall DEF Call

(* What is left of the resources. *)
LEMMA TailOfTodo ==
    ASSUME NEW s \in Seq(Resources), s # <<>>
    PROVE  Tail(s) \in Seq(Resources) /\ Head(s) \in Resources
OBVIOUS

(* Only the place of the call changes. *)
LEMMA OneGoes ==
    ASSUME call \in [Actors -> Call], NEW a \in Actors, NEW pc \in PCs,
           Goto(a, pc), mVideoURL' = mVideoURL,
           DOMAIN mVideoItemList \subseteq DOMAIN mVideoItemList'
    PROVE  /\ Mover(a) /\ call'[a] \in Call
           /\ call'[a].pc = pc
           /\ call'[a].op = call[a].op /\ call'[a].then = call[a].then
           /\ call'[a].todo = call[a].todo /\ call'[a].news = call[a].news
           /\ call'[a].url = call[a].url
           /\ call'[a].touched = call[a].touched /\ call'[a].cleared = call[a].cleared
<1>1. call' = [call EXCEPT ![a] = [call[a] EXCEPT !.pc = pc]]
    BY DEF Goto
<1>2. Mover(a) /\ call'[a] = [call[a] EXCEPT !.pc = pc]
    BY <1>1, OneMoves
<1> QED BY <1>2 DEF Call

(* Thread t is where it may be, and knows what it should. *)
Arrives(t) ==
    /\ Mover(t) /\ call'[t] \in Call
    /\ ThreadShape(call'[t])
    /\ Track(call'[t], mVideoURL', DOMAIN mVideoItemList')

LEMMA EndsArrives ==
    ASSUME call \in [Actors -> Call], NEW t \in Threads,
           Ends(t), mVideoURL' = mVideoURL, mVideoItemList' = mVideoItemList
    PROVE  Arrives(t) /\ call'[t] = Idle
<1>1. Mover(t) /\ call'[t] = Idle
    BY OneMoves DEF Ends, Actors
<1> QED BY <1>1, IdleIsCall DEF Arrives, ThreadShape, Track, Idle

(* One comparison: a match has found a supported URL, and the last miss    *)
(* comes before the tests run out.                                         *)
LEMMA Compares ==
    ASSUME call \in [Actors -> Call], NEW t \in Actors, NEW found, NEW missed,
           NEW formats \in {Tests, Names},
           mVideoURL' = mVideoURL, mVideoItemList' = mVideoItemList,
           Compare(t, formats, found, missed)
    PROVE  /\ Mover(t)
           /\ \/ call'[t] = found /\ mVideoURL \in Supported
              \/ call'[t] = missed
              \/ /\ call'[t] = [call[t] EXCEPT !.tried = call[t].tried + 1]
                 /\ call[t].tried < 3
<1> DEFINE next == [call[t] EXCEPT !.tried = call[t].tried + 1]
           matches == Matches(mVideoURL, formats, call[t].tried + 1)
<1>1. call' = [call EXCEPT ![t] = IF matches THEN found
                                  ELSE IF call[t].tried < 3 THEN next ELSE missed]
    BY DEF Compare
<1>2. matches => mVideoURL \in Supported
    <2>1. call[t].tried \in 0..3
        BY DEF Call
    <2>2. call[t].tried + 1 \in {1, 2, 3, 4}
        BY <2>1
    <2> QED BY <2>2 DEF Matches, Tests, Names, Supported
<1> HIDE DEF next, matches
<1>3. Mover(t) /\ call'[t] = IF matches THEN found
                              ELSE IF call[t].tried < 3 THEN next ELSE missed
    BY <1>1, OneMoves
<1>4. \/ call'[t] = found /\ mVideoURL \in Supported
      \/ call'[t] = missed
      \/ call'[t] = next /\ call[t].tried < 3
    BY <1>2, <1>3
<1> QED BY <1>3, <1>4 DEF next

(* A miss before the last leaves the request where it is. *)
LEMMA TriesOn ==
    ASSUME NEW c \in Call, NEW d, d = [c EXCEPT !.tried = c.tried + 1], c.tried < 3,
           ThreadShape(c), NEW url, NEW listed, Track(c, url, listed)
    PROVE  d \in Call /\ ThreadShape(d) /\ Track(d, url, listed)
<1>1. c.tried + 1 \in 0..3
    BY DEF Call
<1>2. /\ d \in Call /\ d.pc = c.pc /\ d.op = c.op /\ d.then = c.then
      /\ d.news = c.news /\ d.todo = c.todo /\ d.url = c.url
      /\ d.touched = c.touched /\ d.cleared = c.cleared
    BY <1>1 DEF Call
<1>3. ThreadShape(d)
    BY <1>2 DEF ThreadShape, Sets
<1>4. Track(d, url, listed)
    BY <1>2 DEF Track, Sets
<1> QED BY <1>2, <1>3, <1>4

(* The steps of SetAVTransportURI. *)
LEMMA URISteps ==
    ASSUME TypeOK, Shaped, OnTrack, NEW t \in Threads,
           \/ Fault(t) \/ LeaveLoop(t) \/ StoreImageUrl(t) \/ TakeResource(t)
           \/ CheckFormat(t) \/ DiscardResource(t) \/ LookUpItem(t) \/ GetItem(t)
           \/ SetItemUrl(t) \/ PutItem(t) \/ AnnounceItem(t) \/ UpdateDuration(t)
           \/ Verify(t) \/ Reject(t) \/ FetchImage(t) \/ RefuseAddress(t)
    PROVE  Arrives(t)
<1>0. /\ call \in [Actors -> Call] /\ t \in Actors /\ call[t] \in Call
      /\ ThreadShape(call[t])
      /\ Track(call[t], mVideoURL, DOMAIN mVideoItemList)
      /\ mVideoURL \in UrlType
    BY DEF TypeOK, Shaped, OnTrack, Actors, UrlType
<1> USE <1>0
<1>1. CASE Fault(t) \/ FetchImage(t)
    BY <1>1, EndsArrives DEF Fault, FetchImage, media
<1>2. CASE LeaveLoop(t)
    <2>1. /\ Goto(t, "verify") /\ UNCHANGED <<mVideoURL, mVideoItemList>>
          /\ call[t].pc = "resource"
        BY <1>2 DEF LeaveLoop, Connects, media
    <2> QED BY <2>1, OneGoes DEF Arrives, ThreadShape, Track, Sets, Examines, PCs
<1>3. CASE StoreImageUrl(t)
    <2>1. /\ call[t].pc = "resource" /\ call[t].todo # <<>>
          /\ UNCHANGED <<mVideoURL, mVideoItemList>>
          /\ call' = [call EXCEPT ![t] = [call[t] EXCEPT !.todo = Tail(call[t].todo)]]
        BY <1>3 DEF StoreImageUrl, Connects, media
    <2>2. Mover(t) /\ call'[t] = [call[t] EXCEPT !.todo = Tail(call[t].todo)]
        BY <2>1, OneMoves
    <2>3. call[t].todo \in Seq(Resources)
        BY DEF Call
    <2>4. Tail(call[t].todo) \in Seq(Resources)
        BY <2>1, <2>3, TailOfTodo
    <2> QED BY <2>1, <2>2, <2>4 DEF Arrives, ThreadShape, Track, Sets, Examines, Call
<1>4. CASE TakeResource(t)
    <2>1. /\ call[t].pc = "resource" /\ call[t].todo # <<>>
          /\ WriteURL(t, Resource(t),
                      [call[t] EXCEPT !.pc = "check", !.touched = FALSE])
          /\ mVideoItemList' = mVideoItemList
        BY <1>4 DEF TakeResource, Connects, media
    <2>2. Mover(t) /\ call'[t] = [call[t] EXCEPT !.pc = "check", !.touched = FALSE]
        BY <2>1, OneWrites
    <2> QED BY <2>1, <2>2 DEF Arrives, ThreadShape, Track, Sets, Examines, Call, PCs
<1>5. CASE CheckFormat(t)
    <2> DEFINE known == [call[t] EXCEPT !.pc = "known", !.tried = 0, !.touched = FALSE]
               discard == [call[t] EXCEPT !.pc = "discard", !.tried = 0]
    <2>1. /\ call[t].pc = "check" /\ UNCHANGED <<mVideoURL, mVideoItemList>>
          /\ Compare(t, Tests, known, discard)
        BY <1>5 DEF CheckFormat, media
    <2>2. /\ Mover(t)
          /\ \/ call'[t] = known /\ mVideoURL \in Supported
             \/ call'[t] = discard
             \/ /\ call'[t] = [call[t] EXCEPT !.tried = call[t].tried + 1]
                /\ call[t].tried < 3
        <3> HIDE DEF known, discard
        <3> QED BY <2>1, Compares
    <2>3. CASE call'[t] = known /\ mVideoURL \in Supported
        <3>1. 0 \in 0..3 /\ FALSE \in BOOLEAN /\ "known" \in PCs
            BY DEF PCs
        <3>2. /\ call'[t] \in Call /\ call'[t].pc = "known"
              /\ call'[t].op = call[t].op /\ call'[t].todo = call[t].todo
            BY <2>3, <3>1 DEF Call
        <3> QED BY <2>1, <2>2, <2>3, <3>2 DEF Arrives, ThreadShape, Track, Sets, Examines
    <2>4. CASE call'[t] = discard
        <3>1. 0 \in 0..3 /\ "discard" \in PCs
            BY DEF PCs
        <3>2. /\ call'[t] \in Call /\ call'[t].pc = "discard"
              /\ call'[t].op = call[t].op /\ call'[t].todo = call[t].todo
            BY <2>4, <3>1 DEF Call
        <3> QED BY <2>1, <2>2, <2>4, <3>2 DEF Arrives, ThreadShape, Track, Sets, Examines
    <2>5. CASE /\ call'[t] = [call[t] EXCEPT !.tried = call[t].tried + 1]
               /\ call[t].tried < 3
        BY <2>1, <2>2, <2>5, TriesOn DEF Arrives
    <2> QED BY <2>2, <2>3, <2>4, <2>5
<1>6. CASE DiscardResource(t)
    <2>1. /\ call[t].pc = "discard" /\ mVideoItemList' = mVideoItemList
          /\ WriteURL(t, NoUrl, [call[t] EXCEPT !.pc = "resource",
                                               !.todo = Tail(call[t].todo),
                                               !.touched = FALSE])
        BY <1>6 DEF DiscardResource, media
    <2>2. /\ Mover(t) /\ mVideoURL' = NoUrl
          /\ call'[t] = [call[t] EXCEPT !.pc = "resource", !.todo = Tail(call[t].todo),
                                        !.touched = FALSE]
        BY <2>1, OneWrites
    <2>3. call[t].todo \in Seq(Resources)
        BY DEF Call
    <2>4. call[t].todo # <<>> /\ call[t].op = "SetAVTransportURI"
        BY <2>1 DEF ThreadShape, Sets, Examines
    <2>5. Tail(call[t].todo) \in Seq(Resources)
        BY <2>3, <2>4, TailOfTodo
    <2> QED BY <2>2, <2>4, <2>5 DEF Arrives, ThreadShape, Track, Sets, Examines, Call, PCs
<1>7. CASE LookUpItem(t)
    <2>1. /\ call[t].pc = "known" /\ UNCHANGED <<mVideoURL, mVideoItemList>>
          /\ \/ Goto(t, "get") /\ mVideoURL \in DOMAIN mVideoItemList
             \/ Goto(t, "setUrl")
        BY <1>7 DEF LookUpItem, IsKnown, media
    <2> QED BY <2>1, OneGoes DEF Arrives, ThreadShape, Track, Sets, Examines, PCs
<1>8. CASE GetItem(t)
    <2>1. CASE Goto(t, "duration")
        <3>1. call[t].pc = "get" /\ UNCHANGED <<mVideoURL, mVideoItemList>>
            BY <1>8 DEF GetItem, media
        <3> QED BY <2>1, <3>1, OneGoes DEF Arrives, ThreadShape, Track, Sets, Examines, PCs
    <2>2. CASE call' = call
        <3>1. UNCHANGED <<mVideoURL, mVideoItemList>> /\ call' = [call EXCEPT ![t] = call[t]]
            BY <1>8, <2>2 DEF GetItem, media
        <3> QED BY <3>1, OneMoves DEF Arrives
    <2> QED BY <1>8, <2>1, <2>2 DEF GetItem
<1>9. CASE SetItemUrl(t)
    <2>1. /\ call[t].pc = "setUrl" /\ UNCHANGED <<mVideoURL, mVideoItemList>>
          /\ call' = [call EXCEPT ![t] = [call[t] EXCEPT !.pc = "put", !.url = mVideoURL]]
        BY <1>9 DEF SetItemUrl, media
    <2>2. Mover(t) /\ call'[t] = [call[t] EXCEPT !.pc = "put", !.url = mVideoURL]
        BY <2>1, OneMoves
    <2> QED BY <2>1, <2>2 DEF Arrives, ThreadShape, Track, Sets, Examines, Call, PCs, UrlType
<1>10. CASE PutItem(t)
    <2>1. /\ call[t].pc = "put" /\ mVideoURL' = mVideoURL
          /\ Goto(t, "announce")
          /\ DOMAIN mVideoItemList' = DOMAIN mVideoItemList \cup {mVideoURL}
        BY <1>10 DEF PutItem, AfterPut
    <2> QED BY <2>1, OneGoes DEF Arrives, ThreadShape, Track, Sets, Examines, PCs
<1>11. CASE AnnounceItem(t)
    <2>1. /\ call[t].pc = "announce" /\ UNCHANGED <<mVideoURL, mVideoItemList>>
          /\ Goto(t, "duration")
        BY <1>11 DEF AnnounceItem, media
    <2> QED BY <2>1, OneGoes DEF Arrives, ThreadShape, Track, Sets, Examines, PCs
<1>12. CASE UpdateDuration(t)
    <2>1. call[t].pc = "duration" /\ UNCHANGED <<mVideoURL, mVideoItemList>>
        BY <1>12 DEF UpdateDuration, media
    <2>2. \/ call' = [call EXCEPT ![t] = [call[t] EXCEPT !.pc = "verify"]]
          \/ call' = [call EXCEPT ![t] = call[t]]
          \/ call' = [call EXCEPT ![t] =
                         Setting(call[t], "CurrentTrackDuration", "ms", "verify")]
        BY <1>12 DEF UpdateDuration
    <2>3. Mover(t) /\ \/ call'[t] = [call[t] EXCEPT !.pc = "verify"]
                      \/ call'[t] = call[t]
                      \/ call'[t] = Setting(call[t], "CurrentTrackDuration", "ms", "verify")
        BY <2>1, <2>2, OneMoves
    <2>4. CASE call'[t] = [call[t] EXCEPT !.pc = "verify"]
        BY <2>1, <2>3, <2>4 DEF Arrives, ThreadShape, Track, Sets, Examines, Call, PCs
    <2>5. CASE call'[t] = call[t]
        BY <2>1, <2>3, <2>5 DEF Arrives
    <2>6. CASE call'[t] = Setting(call[t], "CurrentTrackDuration", "ms", "verify")
        <3>1. call[t].op = "SetAVTransportURI"
            BY <2>1 DEF ThreadShape, Sets, Examines
        <3>2. <<"CurrentTrackDuration", "ms">> \in News /\ "verify" \in PCs
            BY DEF News, PCs
        <3>3. /\ call'[t] \in Call
              /\ call'[t].op = call[t].op /\ call'[t].pc = "state"
              /\ call'[t].then = "verify"
              /\ call'[t].news = <<"CurrentTrackDuration", "ms">>
              /\ call'[t].touched = call[t].touched /\ call'[t].cleared = call[t].cleared
            BY <2>6, <3>2, SetsNews
        <3>4. ThreadShape(call'[t])
            BY <3>1, <3>3 DEF ThreadShape, Sets
        <3>5. Track(call'[t], mVideoURL', DOMAIN mVideoItemList')
            BY <2>1, <3>1, <3>3 DEF Track, Sets
        <3> QED BY <2>3, <3>3, <3>4, <3>5 DEF Arrives
    <2> QED BY <2>3, <2>4, <2>5, <2>6
<1>13. CASE Verify(t)
    <2> DEFINE image == [call[t] EXCEPT !.pc = "image", !.tried = 0]
               reject == [call[t] EXCEPT !.pc = "reject", !.tried = 0]
    <2>1. /\ call[t].pc = "verify" /\ UNCHANGED <<mVideoURL, mVideoItemList>>
          /\ Compare(t, Names, image, reject)
        BY <1>13 DEF Verify, media
    <2>2. /\ Mover(t)
          /\ \/ call'[t] = image /\ mVideoURL \in Supported
             \/ call'[t] = reject
             \/ /\ call'[t] = [call[t] EXCEPT !.tried = call[t].tried + 1]
                /\ call[t].tried < 3
        <3> HIDE DEF image, reject
        <3> QED BY <2>1, Compares
    <2>3. 0 \in 0..3 /\ "image" \in PCs /\ "reject" \in PCs /\ NoUrl \notin Supported
        BY NoUrlAssumption DEF PCs, Urls
    <2>4. CASE call'[t] = image /\ mVideoURL \in Supported
        <3>1. /\ call'[t] \in Call /\ call'[t].pc = "image"
              /\ call'[t].op = call[t].op /\ call'[t].touched = call[t].touched
              /\ call'[t].cleared = call[t].cleared
            BY <2>3, <2>4 DEF Call
        <3> QED BY <2>1, <2>2, <2>3, <2>4, <3>1
                DEF Arrives, ThreadShape, Track, Sets, Examines
    <2>5. CASE call'[t] = reject
        <3>1. /\ call'[t] \in Call /\ call'[t].pc = "reject"
              /\ call'[t].op = call[t].op
            BY <2>3, <2>5 DEF Call
        <3> QED BY <2>1, <2>2, <2>5, <3>1 DEF Arrives, ThreadShape, Track, Sets, Examines
    <2>6. CASE /\ call'[t] = [call[t] EXCEPT !.tried = call[t].tried + 1]
               /\ call[t].tried < 3
        BY <2>1, <2>2, <2>6, TriesOn DEF Arrives
    <2> QED BY <2>2, <2>4, <2>5, <2>6
<1>14. CASE Reject(t)
    <2>1. Mover(t) /\ call'[t] = Idle
        BY <1>14, OneWrites DEF Reject, media
    <2> QED BY <2>1, IdleIsCall DEF Arrives, ThreadShape, Track, Idle
<1>15. CASE RefuseAddress(t)
    <2>1. UNCHANGED <<mVideoURL, mVideoItemList>> /\ call' = [call EXCEPT ![t] = call[t]]
        BY <1>15 DEF RefuseAddress, media
    <2> QED BY <2>1, OneMoves DEF Arrives
<1> QED BY <1>1, <1>2, <1>3, <1>4, <1>5, <1>6, <1>7, <1>8, <1>9, <1>10, <1>11, <1>12,
           <1>13, <1>14, <1>15

(* The requests that begin, the commands, and setStateVariable. *)
LEMMA OtherSteps ==
    ASSUME TypeOK, Shaped, OnTrack, NEW t \in Threads,
           \/ SetAVTransportURI(t) \/ Play(t) \/ SendPlay(t) \/ Stop(t)
           \/ GetPositionInfo(t) \/ SetState(t) \/ SetEvent(t)
    PROVE  Arrives(t)
<1>0. /\ call \in [Actors -> Call] /\ t \in Actors /\ call[t] \in Call
      /\ ThreadShape(call[t])
      /\ Track(call[t], mVideoURL, DOMAIN mVideoItemList)
    BY DEF TypeOK, Shaped, OnTrack, Actors
<1> USE <1>0
<1>1. CASE SetAVTransportURI(t)
    <2> DEFINE c == Doing("SetAVTransportURI", "reject")
    <2>0. /\ c \in Call /\ c.op = "SetAVTransportURI" /\ c.pc = "reject"
          /\ "reject" \in PCs
        BY DoingIsCall DEF PCs
    <2>1. mVideoItemList' = mVideoItemList
        BY <1>1 DEF SetAVTransportURI, media
    <2>2. PICK d : /\ WriteURL(t, NoUrl, d)
                   /\ \/ d = Setting(c, "CurrentTrackDuration", NoText, "fault")
                      \/ d = c
                      \/ \E offer \in Offers : d = [c EXCEPT !.pc = "resource", !.todo = offer]
        BY <1>1 DEF SetAVTransportURI, FirstURL
    <2>3. Mover(t) /\ call'[t] = d /\ mVideoURL' = NoUrl
        BY <2>1, <2>2, OneWrites
    <2> HIDE DEF c
    <2>4. CASE d = Setting(c, "CurrentTrackDuration", NoText, "fault")
        <3>1. <<"CurrentTrackDuration", NoText>> \in News /\ "fault" \in PCs
            BY DEF News, PCs
        <3>2. /\ d \in Call /\ d.op = "SetAVTransportURI" /\ d.pc = "state"
              /\ d.then = "fault" /\ d.news = <<"CurrentTrackDuration", NoText>>
            BY <2>0, <2>4, <3>1, SetsNews
        <3> QED BY <2>3, <3>2 DEF Arrives, ThreadShape, Track, Sets
    <2>5. CASE d = c
        BY <2>0, <2>3, <2>5 DEF Arrives, ThreadShape, Track, Sets
    <2>6. ASSUME NEW offer \in Offers, d = [c EXCEPT !.pc = "resource", !.todo = offer]
          PROVE  Arrives(t)
        <3>1. offer \in Seq(Resources) /\ "resource" \in PCs
            BY OffersAssumption DEF PCs
        <3>2. d \in Call /\ d.op = "SetAVTransportURI" /\ d.pc = "resource"
            BY <2>0, <2>6, <3>1 DEF Call
        <3> QED BY <2>3, <3>2 DEF Arrives, ThreadShape, Track, Sets
    <2> QED BY <2>2, <2>4, <2>5, <2>6
<1>2. CASE Play(t)
    <2>1. UNCHANGED <<mVideoURL, mVideoItemList>>
        BY <1>2 DEF Play, media
    <2>2. call' = [call EXCEPT ![t] = Idle] \/ call' = [call EXCEPT ![t] = Doing("Play", "send")]
        BY <1>2 DEF Play
    <2>3. Mover(t) /\ (call'[t] = Idle \/ call'[t] = Doing("Play", "send"))
        BY <2>1, <2>2, OneMoves
    <2>4. Doing("Play", "send") \in Call /\ Doing("Play", "send").op = "Play"
          /\ Doing("Play", "send").pc = "send"
        BY DoingIsCall DEF PCs
    <2>5. Idle \in Call /\ Idle.pc = "idle" /\ Idle.op = "none"
        BY IdleIsCall DEF Idle
    <2> QED BY <2>3, <2>4, <2>5 DEF Arrives, ThreadShape, Track
<1>3. CASE SendPlay(t) \/ Stop(t)
    <2>1. UNCHANGED <<mVideoURL, mVideoItemList>>
        BY <1>3 DEF SendPlay, Stop, SendCommand, media
    <2>2. PICK op \in {"Play", "Stop"}, newState \in {"PLAYING", "STOPPED"} :
             call' = [call EXCEPT ![t] =
                         Setting(Doing(op, "state"), "TransportState", newState, "idle")]
        BY <1>3 DEF SendPlay, Stop, SendCommand
    <2>3. Mover(t) /\ call'[t] = Setting(Doing(op, "state"), "TransportState", newState, "idle")
        BY <2>1, <2>2, OneMoves
    <2>4. Doing(op, "state") \in Call /\ Doing(op, "state").op = op
        BY DoingIsCall DEF PCs
    <2>5. <<"TransportState", newState>> \in News /\ "idle" \in PCs
        BY DEF News, PCs
    <2>6. /\ call'[t] \in Call /\ call'[t].op = op /\ call'[t].pc = "state"
          /\ call'[t].then = "idle" /\ call'[t].news = <<"TransportState", newState>>
        BY <2>3, <2>4, <2>5, SetsNews
    <2>7. <<"TransportState", newState>> \in NewStates
        BY DEF NewStates
    <2> QED BY <2>3, <2>6, <2>7 DEF Arrives, ThreadShape, Track, Sets
<1>4. CASE GetPositionInfo(t)
    <2>1. UNCHANGED <<mVideoURL, mVideoItemList>>
        BY <1>4 DEF GetPositionInfo, media
    <2> DEFINE c == Doing("GetPositionInfo", "state")
    <2>2. call' = [call EXCEPT ![t] = Setting(c, "RelativeTimePosition", "time", "idle")]
        BY <1>4 DEF GetPositionInfo
    <2>3. Mover(t) /\ call'[t] = Setting(c, "RelativeTimePosition", "time", "idle")
        BY <2>1, <2>2, OneMoves
    <2>4. c \in Call /\ c.op = "GetPositionInfo"
        BY DoingIsCall DEF PCs
    <2>5. <<"RelativeTimePosition", "time">> \in News /\ "idle" \in PCs
        BY DEF News, PCs
    <2> HIDE DEF c
    <2>6. /\ call'[t] \in Call /\ call'[t].op = "GetPositionInfo" /\ call'[t].pc = "state"
          /\ call'[t].then = "idle" /\ call'[t].news = <<"RelativeTimePosition", "time">>
        BY <2>3, <2>4, <2>5, SetsNews
    <2> QED BY <2>3, <2>6 DEF Arrives, ThreadShape, Track, Sets
<1>5. CASE SetState(t)
    <2>1. /\ call[t].pc = "state" /\ Goto(t, "event")
          /\ UNCHANGED <<mVideoURL, mVideoItemList>>
        BY <1>5 DEF SetState, media
    <2> QED BY <2>1, OneGoes DEF Arrives, ThreadShape, Track, Sets, Examines, PCs
<1>6. CASE SetEvent(t)
    <2>1. /\ call[t].pc = "event" /\ UNCHANGED <<mVideoURL, mVideoItemList>>
          /\ call' = [call EXCEPT ![t] =
                IF call[t].then = "idle" THEN Idle
                ELSE [call[t] EXCEPT !.pc = call[t].then, !.then = "idle", !.news = NoNews]]
        BY <1>6 DEF SetEvent, media
    <2>2. /\ Mover(t)
          /\ call'[t] = IF call[t].then = "idle" THEN Idle
                        ELSE [call[t] EXCEPT !.pc = call[t].then, !.then = "idle",
                                             !.news = NoNews]
        BY <2>1, OneMoves
    <2>3. CASE call[t].then = "idle"
        BY <2>2, <2>3, IdleIsCall DEF Arrives, ThreadShape, Track, Idle
    <2>4. CASE call[t].then # "idle"
        <3>1. call[t].op = "SetAVTransportURI" /\ call[t].then \in {"fault", "verify"}
            BY <2>1, <2>4 DEF ThreadShape, Sets, Examines
        <3>2. NoNews \in News /\ "idle" \in PCs
            BY DEF NoNews, News, PCs
        <3>3. /\ call'[t] \in Call /\ call'[t].op = "SetAVTransportURI"
              /\ call'[t].pc = call[t].then
              /\ call'[t].touched = call[t].touched /\ call'[t].cleared = call[t].cleared
            BY <2>2, <2>4, <3>1, <3>2 DEF Call
        <3>4. ThreadShape(call'[t])
            BY <3>1, <3>3 DEF ThreadShape
        <3>5. Track(call'[t], mVideoURL', DOMAIN mVideoItemList')
            BY <2>1, <3>1, <3>3 DEF Track, Sets
        <3> QED BY <2>2, <3>3, <3>4, <3>5 DEF Arrives
    <2> QED BY <2>3, <2>4
<1> QED BY <1>1, <1>2, <1>3, <1>4, <1>5, <1>6

(* The UI thread does as it should. *)
LEMMA UISteps ==
    ASSUME TypeOK, Shaped, UserInterface \/ SetState(UI) \/ SetEvent(UI)
    PROVE  Mover(UI) /\ call'[UI] \in Call /\ UIShape(call'[UI])
<1>0. call \in [Actors -> Call] /\ UI \in Actors /\ call[UI] \in Call /\ UIShape(call[UI])
    BY DEF TypeOK, Shaped, Actors
<1> USE <1>0
<1>1. CASE HandlePlay \/ HandleStop \/ HandleRefresh \/ onPrepared
    <2>1. UNCHANGED <<mVideoURL, mVideoItemList>> /\ call' = [call EXCEPT ![UI] = call[UI]]
        BY <1>1 DEF HandlePlay, HandleStop, HandleRefresh, onPrepared, media
    <2> QED BY <2>1, OneMoves
<1>2. CASE onCompletion \/ onError
    <2>1. /\ UNCHANGED <<mVideoURL, mVideoItemList>>
          /\ call' = [call EXCEPT ![UI] = ReportStopped]
        BY <1>2 DEF onCompletion, onError, PlaybackEnds, media
    <2>2. Mover(UI) /\ call'[UI] = ReportStopped
        BY <2>1, OneMoves
    <2>3. Doing("callback", "state") \in Call /\ Doing("callback", "state").op = "callback"
        BY DoingIsCall DEF PCs
    <2>4. <<"TransportState", "STOPPED">> \in News /\ "show" \in PCs
        BY DEF News, PCs
    <2>5. /\ ReportStopped \in Call /\ ReportStopped.op = "callback"
          /\ ReportStopped.pc = "state" /\ ReportStopped.then = "show"
          /\ ReportStopped.news = <<"TransportState", "STOPPED">>
        BY <2>3, <2>4, SetsNews DEF ReportStopped
    <2> QED BY <2>2, <2>5 DEF UIShape, Sets
<1>3. CASE ShowList
    <2>1. /\ UNCHANGED <<mVideoURL, mVideoItemList>>
          /\ call' = [call EXCEPT ![UI] = Idle]
        BY <1>3 DEF ShowList, Ends, media
    <2> QED BY <2>1, OneMoves, IdleIsCall DEF UIShape, Idle
<1>4. CASE onItemClick
    <2>1. PICK url : WriteURL(UI, url, Idle)
        BY <1>4 DEF onItemClick
    <2>2. Mover(UI) /\ call'[UI] = Idle
        BY <1>4, <2>1, OneWrites DEF onItemClick, media
    <2> QED BY <2>2, IdleIsCall DEF UIShape, Idle
<1>5. CASE onClick
    <2>1. /\ mVideoURL' = mVideoURL /\ call[UI].pc = "idle"
          /\ call' = [a \in Actors |-> IF call[a].pc = "idle" THEN call[a]
                                       ELSE [call[a] EXCEPT !.cleared = TRUE]]
        BY <1>5 DEF onClick, UIFree
    <2>2. ASSUME NEW b \in Actors
          PROVE  Bystander(b)
        <3>1. CASE call[b].pc = "idle"
            BY <2>1, <3>1 DEF Bystander
        <3>2. CASE call[b].pc # "idle"
            <4>1. call'[b] = [call[b] EXCEPT !.cleared = TRUE]
                BY <2>1, <3>2
            <4>2. call[b] \in Call
                OBVIOUS
            <4> QED BY <2>1, <4>1, <4>2 DEF Bystander, Call
        <3> QED BY <3>1, <3>2
    <2> QED BY <2>1, <2>2 DEF Mover, UIShape
<1>6. CASE SetState(UI)
    <2>1. /\ call[UI].pc = "state" /\ Goto(UI, "event")
          /\ UNCHANGED <<mVideoURL, mVideoItemList>>
        BY <1>6 DEF SetState, media
    <2> QED BY <2>1, OneGoes DEF UIShape, Sets, PCs
<1>7. CASE SetEvent(UI)
    <2>1. call[UI].pc = "event" /\ call[UI].then = "show" /\ call[UI].op = "callback"
        BY <1>7 DEF SetEvent, UIShape, Sets
    <2>2. /\ UNCHANGED <<mVideoURL, mVideoItemList>>
          /\ call' = [call EXCEPT ![UI] = [call[UI] EXCEPT !.pc = "show", !.then = "idle",
                                                           !.news = NoNews]]
        BY <1>7, <2>1 DEF SetEvent, media
    <2>3. Mover(UI) /\ call'[UI] = [call[UI] EXCEPT !.pc = "show", !.then = "idle",
                                                    !.news = NoNews]
        BY <2>2, OneMoves
    <2>4. NoNews \in News /\ "idle" \in PCs /\ "show" \in PCs
        BY DEF NoNews, News, PCs
    <2> QED BY <2>1, <2>3, <2>4 DEF UIShape, Call
<1> QED BY <1>1, <1>2, <1>3, <1>4, <1>5, <1>6, <1>7 DEF UserInterface

(* Every step is one of a thread or of the UI. *)
LEMMA Steps ==
    ASSUME TypeOK, Shaped, OnTrack, Next
    PROVE  \/ \E t \in Threads : Arrives(t)
           \/ Mover(UI) /\ call'[UI] \in Call /\ UIShape(call'[UI])
<1>1. ASSUME NEW t \in Threads, Control(t) \/ SetState(t) \/ SetEvent(t)
      PROVE  Arrives(t)
    BY <1>1, URISteps, OtherSteps DEF Control
<1>2. ASSUME UserInterface \/ SetState(UI) \/ SetEvent(UI)
      PROVE  Mover(UI) /\ call'[UI] \in Call /\ UIShape(call'[UI])
    BY <1>2, UISteps
<1> QED BY <1>1, <1>2 DEF Next, Actors

LEMMA CallsStep ==
    ASSUME TypeOK, Shaped, OnTrack, Next
    PROVE  call' \in [Actors -> Call] /\ Shaped' /\ OnTrack'
<1>0. /\ \A t \in Threads : t \in Actors /\ t # UI
      /\ UI \in Actors
    BY UIAssumption DEF Actors
<1>1. ASSUME NEW b \in Threads, Bystander(b)
      PROVE  /\ ThreadShape(call'[b])
             /\ Track(call'[b], mVideoURL', DOMAIN mVideoItemList')
    <2>1. ThreadShape(call[b]) /\ Track(call[b], mVideoURL, DOMAIN mVideoItemList)
        BY DEF Shaped, OnTrack
    <2>2. ThreadShape(call'[b])
        BY <1>1, <2>1 DEF Bystander, ThreadShape, Sets
    <2>3. Track(call'[b], mVideoURL', DOMAIN mVideoItemList')
        BY <1>1, <2>1 DEF Bystander, Track, Sets
    <2> QED BY <2>2, <2>3
<1>2. ASSUME Bystander(UI)
      PROVE  UIShape(call'[UI])
    BY <1>2 DEF Shaped, Bystander, UIShape, Sets
<1>3. ASSUME NEW t \in Threads, Arrives(t)
      PROVE  call' \in [Actors -> Call] /\ Shaped' /\ OnTrack'
    <2>1. \A b \in Actors : b # t => Bystander(b)
        BY <1>3 DEF Arrives, Mover
    <2>2. call' \in [Actors -> Call]
        BY <1>3, <2>1 DEF Arrives, Mover, Bystander
    <2>3. UIShape(call'[UI])
        BY <1>0, <1>2, <2>1
    <2>4. \A b \in Threads : ThreadShape(call'[b])
                             /\ Track(call'[b], mVideoURL', DOMAIN mVideoItemList')
        BY <1>0, <1>1, <1>3, <2>1 DEF Arrives
    <2> QED BY <2>2, <2>3, <2>4 DEF Shaped, OnTrack
<1>4. ASSUME Mover(UI), call'[UI] \in Call, UIShape(call'[UI])
      PROVE  call' \in [Actors -> Call] /\ Shaped' /\ OnTrack'
    <2>1. \A b \in Actors : b # UI => Bystander(b)
        BY <1>4 DEF Mover
    <2>2. call' \in [Actors -> Call]
        BY <1>4, <2>1 DEF Mover, Bystander
    <2>3. \A b \in Threads : ThreadShape(call'[b])
                             /\ Track(call'[b], mVideoURL', DOMAIN mVideoItemList')
        BY <1>0, <1>1, <2>1
    <2> QED BY <1>4, <2>2, <2>3 DEF Shaped, OnTrack
<1> QED BY <1>3, <1>4, Steps
---------------------------------------------------------------------------
(* The handler's queue                                                     *)

Messages == {"play", "stop", "refresh"}

LEMMA Appended ==
    ASSUME queue \in Seq(Messages), NEW msg \in Messages, queue' = Append(queue, msg)
    PROVE  /\ queue' \in Seq(Messages)
           /\ Has(msg)'
           /\ \A m \in Messages : m # msg => (Has(m)' <=> Has(m))
           /\ msg = "refresh" => (OneCommand => OneCommand')
           /\ ~HasCommand => OneCommand'
<1>1. /\ Len(queue) \in Nat /\ Len(queue') = Len(queue) + 1
      /\ queue'[Len(queue) + 1] = msg
      /\ \A i \in 1..Len(queue) : queue'[i] = queue[i]
      /\ queue' \in Seq(Messages)
    BY AppendProperties, LenProperties
<1>2. Has(msg)'
    BY <1>1 DEF Has
<1>3. ASSUME NEW m \in Messages, m # msg
      PROVE  Has(m)' <=> Has(m)
    BY <1>1, <1>3 DEF Has
<1>4. ASSUME msg = "refresh", OneCommand
      PROVE  OneCommand'
    BY <1>1, <1>4 DEF OneCommand, Commands
<1>5. ASSUME ~HasCommand
      PROVE  OneCommand'
    BY <1>1, <1>5 DEF OneCommand, HasCommand, Has, Commands
<1> QED BY <1>1, <1>2, <1>3, <1>4, <1>5

LEMMA Taken ==
    ASSUME queue \in Seq(Messages), queue # <<>>, queue' = Tail(queue)
    PROVE  /\ queue' \in Seq(Messages) /\ Head(queue) \in Messages
           /\ \A m \in Messages : m # Head(queue) => (Has(m)' <=> Has(m))
           /\ OneCommand => OneCommand'
           /\ Head(queue) \in Commands => Has(Head(queue))
           /\ (OneCommand /\ Head(queue) \in Commands) => ~HasCommand'
<1>1. /\ Len(queue) \in Nat \ {0} /\ Len(queue') = Len(queue) - 1
      /\ Head(queue) = queue[1] /\ Head(queue) \in Messages
      /\ \A i \in 1..Len(queue) - 1 : queue'[i] = queue[i + 1]
      /\ queue' \in Seq(Messages)
    BY HeadTailProperties, LenProperties, EmptySeq
<1>2. ASSUME NEW i \in 1..Len(queue), i # 1
      PROVE  i - 1 \in 1..Len(queue') /\ queue'[i - 1] = queue[i]
    <2>1. i - 1 \in 1..Len(queue) - 1 /\ (i - 1) + 1 = i
        BY <1>1, <1>2
    <2> QED BY <1>1, <2>1
<1>3. ASSUME NEW m \in Messages, m # Head(queue)
      PROVE  Has(m)' <=> Has(m)
    <2>1. ASSUME Has(m)
          PROVE  Has(m)'
        <3>1. PICK i \in 1..Len(queue) : queue[i] = m
            BY <2>1 DEF Has
        <3>2. i # 1
            BY <1>1, <1>3, <3>1
        <3> QED BY <1>2, <3>1, <3>2 DEF Has
    <2>2. ASSUME Has(m)'
          PROVE  Has(m)
        <3>1. PICK i \in 1..Len(queue') : queue'[i] = m
            BY <2>2 DEF Has
        <3>2. i + 1 \in 1..Len(queue) /\ queue[i + 1] = m
            BY <1>1, <3>1
        <3> QED BY <3>2 DEF Has
    <2> QED BY <2>1, <2>2
<1>4. ASSUME OneCommand
      PROVE  OneCommand'
    <2>1. ASSUME NEW i \in 1..Len(queue'), NEW j \in 1..Len(queue'),
                 queue'[i] \in Commands, queue'[j] \in Commands
          PROVE  i = j
        <3>1. /\ i + 1 \in 1..Len(queue) /\ queue[i + 1] \in Commands
              /\ j + 1 \in 1..Len(queue) /\ queue[j + 1] \in Commands
            BY <1>1, <2>1
        <3>2. i + 1 = j + 1
            BY <1>4, <3>1 DEF OneCommand
        <3> QED BY <3>2
    <2> QED BY <2>1 DEF OneCommand
<1>5. ASSUME OneCommand, Head(queue) \in Commands
      PROVE  ~HasCommand'
    <2>1. ASSUME NEW i \in 1..Len(queue')
          PROVE  queue'[i] \notin Commands
        <3>1. i + 1 \in 1..Len(queue) /\ i + 1 # 1 /\ queue'[i] = queue[i + 1]
            BY <1>1
        <3>2. 1 \in 1..Len(queue)
            BY <1>1
        <3> QED BY <1>1, <1>5, <3>1, <3>2 DEF OneCommand
    <2> QED BY <2>1 DEF HasCommand, Has, Commands
<1>6. ASSUME Head(queue) \in Commands
      PROVE  Has(Head(queue))
    BY <1>1 DEF Has
<1> QED BY <1>1, <1>3, <1>4, <1>5, <1>6

LEMMA CommandsInFlight ==
    InFlight <=> HasCommand \/ \E t \in Threads : Flying(call[t])
BY DEF InFlight, HasCommand, Has, Commands, Flying, Sets

---------------------------------------------------------------------------
(* The steps that touch neither commands nor their effects                 *)

Ground(t) ==
    \/ Fault(t) \/ LeaveLoop(t) \/ StoreImageUrl(t) \/ TakeResource(t)
    \/ CheckFormat(t) \/ DiscardResource(t) \/ LookUpItem(t) \/ GetItem(t)
    \/ SetItemUrl(t) \/ PutItem(t) \/ AnnounceItem(t) \/ UpdateDuration(t)
    \/ Verify(t) \/ Reject(t) \/ FetchImage(t) \/ RefuseAddress(t)

Begins(t) == SetAVTransportURI(t) \/ Play(t) \/ GetPositionInfo(t)

LEMMA GroundFrame ==
    ASSUME NEW t \in Threads, Ground(t) \/ Begins(t)
    PROVE  /\ UNCHANGED <<rows, listVisible, transportState, lastChange, player, raced>>
           /\ queue' \in {queue, Append(queue, "refresh")}
<1>1. CASE Ground(t)
    <2>1. CASE AnnounceItem(t) \/ FetchImage(t)
        BY <2>1 DEF AnnounceItem, FetchImage, media, state
    <2>2. CASE PutItem(t)
        BY <2>2 DEF PutItem, state
    <2>3. CASE \/ Fault(t) \/ LeaveLoop(t) \/ StoreImageUrl(t) \/ TakeResource(t)
               \/ CheckFormat(t) \/ DiscardResource(t) \/ LookUpItem(t) \/ GetItem(t)
               \/ SetItemUrl(t) \/ UpdateDuration(t) \/ Verify(t) \/ Reject(t)
               \/ RefuseAddress(t)
        BY <2>3 DEF Fault, LeaveLoop, StoreImageUrl, TakeResource, CheckFormat,
            DiscardResource, LookUpItem, GetItem, SetItemUrl, UpdateDuration, Verify,
            Reject, RefuseAddress, media, state
    <2> QED BY <1>1, <2>1, <2>2, <2>3 DEF Ground
<1>2. CASE Begins(t)
    BY <1>2 DEF Begins, SetAVTransportURI, Play, GetPositionInfo, media, state
<1> QED BY <1>1, <1>2

LEMMA GroundNeverFlies ==
    ASSUME TypeOK, Shaped, NEW t \in Threads, Ground(t) \/ Begins(t)
    PROVE  ~Flying(call[t]) /\ ~Flying(call'[t])
<1>0. call \in [Actors -> Call] /\ t \in Actors /\ call[t] \in Call /\ ThreadShape(call[t])
    BY DEF TypeOK, Shaped, Actors
<1> USE <1>0
<1>1. CASE Ground(t)
    <2>1. /\ call[t].pc \in Examines \cup {"resource", "verify", "reject", "image", "fault"}
        BY <1>1 DEF Ground, Fault, LeaveLoop, StoreImageUrl, TakeResource, CheckFormat,
            DiscardResource, LookUpItem, GetItem, SetItemUrl, PutItem, AnnounceItem,
            UpdateDuration, Verify, Reject, FetchImage, RefuseAddress, Connects, Examines
    <2>2. call[t].op = "SetAVTransportURI" /\ ~Sets(call[t])
        BY <2>1 DEF ThreadShape, Sets, Examines
    <2>3. Idle.op = "none"
        BY DEF Idle
    <2>4. call'[t].op \in {call[t].op, Idle.op}
        <3>1. CASE \/ LeaveLoop(t) \/ LookUpItem(t) \/ GetItem(t)
                   \/ PutItem(t) \/ AnnounceItem(t) \/ RefuseAddress(t)
            BY <3>1 DEF LeaveLoop, LookUpItem, GetItem, PutItem, AnnounceItem,
                RefuseAddress, Goto, Call
        <3>6. CASE CheckFormat(t) \/ Verify(t)
            <4>1. \A n : [call[t] EXCEPT !.tried = n].op = call[t].op
                BY DEF Call
            <4>2. \A pc, n : [call[t] EXCEPT !.pc = pc, !.tried = n].op = call[t].op
                BY DEF Call
            <4>3. \A pc, n, b : [call[t] EXCEPT !.pc = pc, !.tried = n, !.touched = b].op
                                  = call[t].op
                BY DEF Call
            <4>4. \/ \E n : call'[t] = [call[t] EXCEPT !.tried = n]
                  \/ \E pc, n : call'[t] = [call[t] EXCEPT !.pc = pc, !.tried = n]
                  \/ \E pc, n, b : call'[t] = [call[t] EXCEPT !.pc = pc, !.tried = n,
                                                              !.touched = b]
                <5> DEFINE M(formats) == Matches(mVideoURL, formats, call[t].tried + 1)
                <5> HIDE DEF M
                <5>1. CASE CheckFormat(t)
                    <6>1. call'[t] = IF M(Tests)
                                     THEN [call[t] EXCEPT !.pc = "known", !.tried = 0,
                                                          !.touched = FALSE]
                                     ELSE IF call[t].tried < 3
                                     THEN [call[t] EXCEPT !.tried = call[t].tried + 1]
                                     ELSE [call[t] EXCEPT !.pc = "discard", !.tried = 0]
                        BY <5>1 DEF CheckFormat, Compare, M
                    <6> QED BY <6>1
                <5>2. CASE Verify(t)
                    <6>1. call'[t] = IF M(Names)
                                     THEN [call[t] EXCEPT !.pc = "image", !.tried = 0]
                                     ELSE IF call[t].tried < 3
                                     THEN [call[t] EXCEPT !.tried = call[t].tried + 1]
                                     ELSE [call[t] EXCEPT !.pc = "reject", !.tried = 0]
                        BY <5>2 DEF Verify, Compare, M
                    <6> QED BY <6>1
                <5> QED BY <3>6, <5>1, <5>2
            <4>5. CASE \E n : call'[t] = [call[t] EXCEPT !.tried = n]
                BY <4>1, <4>5
            <4>6. CASE \E pc, n : call'[t] = [call[t] EXCEPT !.pc = pc, !.tried = n]
                BY <4>2, <4>6
            <4>7. CASE \E pc, n, b : call'[t] = [call[t] EXCEPT !.pc = pc, !.tried = n,
                                                                !.touched = b]
                BY <4>3, <4>7
            <4> QED BY <4>4, <4>5, <4>6, <4>7
        <3>2. CASE StoreImageUrl(t) \/ SetItemUrl(t)
            BY <3>2 DEF StoreImageUrl, SetItemUrl, Call
        <3>3. CASE TakeResource(t) \/ DiscardResource(t)
            BY <3>3 DEF TakeResource, DiscardResource, WriteURL, Call
        <3>4. CASE Fault(t) \/ Reject(t) \/ FetchImage(t)
            BY <3>4 DEF Fault, Reject, FetchImage, WriteURL, Ends
        <3>5. CASE UpdateDuration(t)
            BY <3>5 DEF UpdateDuration, Setting, Call
        <3> QED BY <1>1, <3>1, <3>2, <3>3, <3>4, <3>5, <3>6 DEF Ground
    <2> QED BY <2>2, <2>3, <2>4 DEF Flying
<1>2. CASE Begins(t)
    <2>1. ~Flying(call[t])
        BY <1>2 DEF Begins, SetAVTransportURI, Play, GetPositionInfo, Flying, Sets
    <2>2. CASE SetAVTransportURI(t)
        <3>1. call'[t].op = "SetAVTransportURI"
            <4> DEFINE c == Doing("SetAVTransportURI", "reject")
            <4>1. c \in Call /\ c.op = "SetAVTransportURI"
                BY DoingIsCall DEF PCs
            <4>2. \/ call'[t] = c
                  \/ call'[t] = Setting(c, "CurrentTrackDuration", NoText, "fault")
                  \/ \E offer : call'[t] = [c EXCEPT !.pc = "resource", !.todo = offer]
                BY <2>2 DEF SetAVTransportURI, WriteURL
            <4> HIDE DEF c
            <4> QED BY <4>1, <4>2 DEF Setting, Call
        <3> QED BY <2>1, <3>1 DEF Flying
    <2>3. CASE Play(t)
        <3>1. call'[t] = Idle \/ call'[t] = Doing("Play", "send")
            BY <2>3 DEF Play
        <3>2. Doing("Play", "send").pc = "send" /\ Idle.pc = "idle"
            BY DoingIsCall DEF PCs, Idle
        <3> QED BY <2>1, <3>1, <3>2 DEF Flying, Sets
    <2>4. CASE GetPositionInfo(t)
        <3> DEFINE c == Doing("GetPositionInfo", "state")
        <3>1. c \in Call /\ c.op = "GetPositionInfo"
            BY DoingIsCall DEF PCs
        <3>2. call'[t] = Setting(c, "RelativeTimePosition", "time", "idle")
            BY <2>4 DEF GetPositionInfo
        <3> HIDE DEF c
        <3>3. call'[t].op = "GetPositionInfo"
            BY <3>1, <3>2 DEF Setting, Call
        <3> QED BY <2>1, <3>3 DEF Flying
    <2> QED BY <1>2, <2>2, <2>3, <2>4 DEF Begins
<1> QED BY <1>1, <1>2
---------------------------------------------------------------------------
(* Types of the other variables                                            *)

Items(list) == /\ DOMAIN list \subseteq UrlType
               /\ \A key \in DOMAIN list : list[key] \in UrlType

LEMMA MediaTypes ==
    ASSUME TypeOK, Shaped, Next
    PROVE  mVideoURL' \in UrlType /\ Items(mVideoItemList') /\ rows' \subseteq UrlType
<1>0. /\ mVideoURL \in UrlType /\ Items(mVideoItemList) /\ rows \subseteq UrlType
      /\ NoUrl \in UrlType /\ call \in [Actors -> Call]
    BY DEF TypeOK, UrlType, Items
<1> USE <1>0
<1>1. ASSUME NEW t \in Threads, Ground(t) \/ Begins(t)
      PROVE  mVideoURL' \in UrlType /\ Items(mVideoItemList') /\ rows' \subseteq UrlType
    <2>0. rows' = rows
        BY <1>1, GroundFrame
    <2>1. CASE SetAVTransportURI(t) \/ DiscardResource(t) \/ Reject(t)
        BY <2>0, <2>1 DEF SetAVTransportURI, DiscardResource, Reject, WriteURL, FirstURL, media
    <2>2. CASE TakeResource(t)
        <3>1. call[t].todo \in Seq(Resources) /\ call[t].todo # <<>>
            BY <2>2 DEF TakeResource, Connects, Actors, Call
        <3>2. Resource(t) \in UrlType
            BY <3>1, TailOfTodo DEF Resource, Resources, UrlType
        <3> QED BY <2>0, <2>2, <3>2 DEF TakeResource, WriteURL, media
    <2>3. CASE PutItem(t)
        <3>1. call[t].url \in UrlType
            BY DEF Actors, Call, UrlType
        <3>2. /\ mVideoURL' = mVideoURL
              /\ mVideoItemList' = [key \in DOMAIN mVideoItemList \cup {mVideoURL} |->
                                      IF key = mVideoURL THEN call[t].url
                                      ELSE mVideoItemList[key]]
            BY <2>3 DEF PutItem
        <3> QED BY <2>0, <3>1, <3>2 DEF Items
    <2>4. CASE \/ Fault(t) \/ LeaveLoop(t) \/ StoreImageUrl(t) \/ CheckFormat(t)
               \/ LookUpItem(t) \/ GetItem(t) \/ SetItemUrl(t) \/ AnnounceItem(t)
               \/ UpdateDuration(t) \/ Verify(t) \/ FetchImage(t) \/ RefuseAddress(t)
               \/ Play(t) \/ GetPositionInfo(t)
        BY <2>0, <2>4 DEF Fault, LeaveLoop, StoreImageUrl, CheckFormat, LookUpItem, GetItem,
            SetItemUrl, AnnounceItem, UpdateDuration, Verify, FetchImage, RefuseAddress,
            Play, GetPositionInfo, media
    <2> QED BY <1>1, <2>1, <2>2, <2>3, <2>4 DEF Ground, Begins
<1>2. CASE \/ \E t \in Threads : SendPlay(t) \/ Stop(t)
           \/ \E a \in Actors : SetState(a) \/ SetEvent(a)
    BY <1>2 DEF SendPlay, Stop, SendCommand, SetState, SetEvent, media
<1>3. CASE HandlePlay \/ HandleStop \/ onPrepared \/ onCompletion \/ onError \/ ShowList
    BY <1>3 DEF HandlePlay, HandleStop, onPrepared, onCompletion, onError, PlaybackEnds,
        ShowList, media
<1>4. CASE HandleRefresh
    BY <1>4 DEF HandleRefresh, Items
<1>5. CASE onItemClick
    BY <1>5 DEF onItemClick, WriteURL, Items, media
<1>6. CASE onClick
    BY <1>6 DEF onClick, Items
<1> QED BY <1>1, <1>2, <1>3, <1>4, <1>5, <1>6
        DEF Next, Control, UserInterface, Ground, Begins

(* setStateVariable, on any thread. *)
LEMMA SetStateVariable ==
    ASSUME TypeOK, Shaped, NEW a \in Actors, SetState(a)
    PROVE  /\ transportState' = IF call[a].op \in {"Play", "Stop", "callback"}
                                THEN call[a].news[2] ELSE transportState
           /\ call[a].op \in {"Play", "Stop", "callback"} =>
                 call[a].news[2] \in {"PLAYING", "STOPPED"}
           /\ call[a].pc = "state"
<1>1. /\ call[a].pc = "state"
      /\ transportState' = IF call[a].news[1] = "TransportState"
                           THEN call[a].news[2] ELSE transportState
    BY DEF SetState
<1>2. CASE a \in Threads
    <2>1. ThreadShape(call[a])
        BY <1>2 DEF Shaped
    <2> QED BY <1>1, <2>1 DEF ThreadShape, Sets, NewStates, Examines
<1>3. CASE a = UI
    <2>1. UIShape(call[UI])
        BY DEF Shaped
    <2> QED BY <1>1, <1>3, <2>1 DEF UIShape, Sets
<1> QED BY <1>2, <1>3 DEF Actors

LEMMA StateTypes ==
    ASSUME TypeOK, Shaped, Next
    PROVE  transportState' \in {"STOPPED", "PLAYING"} /\ lastChange' \in News
<1>0. transportState \in {"STOPPED", "PLAYING"} /\ lastChange \in News
      /\ call \in [Actors -> Call]
    BY DEF TypeOK
<1> USE <1>0
<1>1. CASE \E t \in Threads : Ground(t) \/ Begins(t)
    BY <1>1, GroundFrame
<1>2. CASE \E t \in Threads : SendPlay(t) \/ Stop(t)
    BY <1>2 DEF SendPlay, Stop, SendCommand, state
<1>3. ASSUME NEW a \in Actors, SetState(a)
      PROVE  transportState' \in {"STOPPED", "PLAYING"} /\ lastChange' \in News
    BY <1>3, SetStateVariable DEF SetState
<1>4. ASSUME NEW a \in Actors, SetEvent(a)
      PROVE  transportState' \in {"STOPPED", "PLAYING"} /\ lastChange' \in News
    BY <1>4 DEF SetEvent, Call
<1>5. CASE UserInterface
    BY <1>5 DEF UserInterface, HandlePlay, HandleStop, HandleRefresh, onPrepared,
        onCompletion, onError, PlaybackEnds, ShowList, onItemClick, onClick, state
<1> QED BY <1>1, <1>2, <1>3, <1>4, <1>5 DEF Next, Control, Ground, Begins

LEMMA PlayerTypes ==
    ASSUME TypeOK, Shaped, Next
    PROVE  /\ listVisible' \in BOOLEAN /\ raced' \in BOOLEAN
           /\ queue' \in Seq(Messages)
           /\ player' \in [url: UrlType, phase: {"idle", "preparing", "playing"}]
<1>0. /\ listVisible \in BOOLEAN /\ raced \in BOOLEAN /\ queue \in Seq(Messages)
      /\ player \in [url: UrlType, phase: {"idle", "preparing", "playing"}]
      /\ mVideoURL \in UrlType
      /\ \A msg \in Messages : Append(queue, msg) \in Seq(Messages)
      /\ queue # <<>> => Tail(queue) \in Seq(Messages)
    BY AppendProperties, HeadTailProperties DEF TypeOK, UrlType, Messages
<1> USE <1>0
<1>1. CASE \E t \in Threads : Ground(t) \/ Begins(t)
    BY <1>1, GroundFrame DEF Messages
<1>2. CASE \E t \in Threads : SendPlay(t) \/ Stop(t)
    BY <1>2 DEF SendPlay, Stop, SendCommand, InFlight, Messages
<1>3. CASE \E a \in Actors : SetState(a) \/ SetEvent(a)
    BY <1>3 DEF SetState, SetEvent
<1>4. CASE HandlePlay \/ HandleStop \/ HandleRefresh
    <2>1. CASE HandlePlay
        BY <2>1 DEF HandlePlay, Message
    <2>2. CASE HandleStop
        BY <2>2 DEF HandleStop, Message
    <2>3. CASE HandleRefresh
        BY <2>3 DEF HandleRefresh, Message
    <2> QED BY <1>4, <2>1, <2>2, <2>3
<1>5. CASE onPrepared \/ onCompletion \/ onError
    BY <1>5 DEF onPrepared, onCompletion, onError, PlaybackEnds, InFlight
<1>6. CASE ShowList \/ onItemClick \/ onClick
    BY <1>6 DEF ShowList, SetVisible, onItemClick, onClick, Messages
<1> QED BY <1>1, <1>2, <1>3, <1>4, <1>5, <1>6
        DEF Next, Control, UserInterface, Ground, Begins

LEMMA CountTypes ==
    ASSUME TypeOK, Next
    PROVE  inputs' \in Nat /\ crashed' \in {"no", "null", "port", "duration"}
<1>0. inputs \in Nat /\ crashed = "no"
    BY DEF TypeOK, Next
<1> USE <1>0
<1>1. CASE \/ \E t \in Threads : Control(t)
           \/ \E a \in Actors : SetState(a) \/ SetEvent(a)
    <2>1. ASSUME NEW t \in Threads, Ground(t)
          PROVE  inputs' \in Nat /\ crashed' \in {"no", "null", "port", "duration"}
        BY <2>1 DEF Ground, Fault, LeaveLoop, StoreImageUrl, TakeResource, CheckFormat,
            DiscardResource, LookUpItem, GetItem, SetItemUrl, PutItem, AnnounceItem,
            UpdateDuration, Verify, Reject, FetchImage, RefuseAddress
    <2>2. CASE \/ \E t \in Threads : Begins(t) \/ SendPlay(t) \/ Stop(t)
               \/ \E a \in Actors : SetState(a) \/ SetEvent(a)
        <3>1. crashed' = crashed
            BY <2>2 DEF Begins, SetAVTransportURI, Play, GetPositionInfo, SendPlay, Stop,
                SendCommand, SetState, SetEvent
        <3>2. inputs' \in {inputs, inputs + 1}
            BY <2>2 DEF Begins, SetAVTransportURI, Play, GetPositionInfo, SendPlay, Stop,
                Input, SetState, SetEvent
        <3> QED BY <3>1, <3>2
    <2> QED BY <1>1, <2>1, <2>2 DEF Control, Ground, Begins
<1>2. CASE UserInterface
    BY <1>2 DEF UserInterface, HandlePlay, HandleStop, HandleRefresh, onPrepared,
        onCompletion, onError, PlaybackEnds, ShowList, onItemClick, onClick, Input
<1> QED BY <1>1, <1>2 DEF Next

LEMMA TypeStep ==
    ASSUME TypeOK, Shaped, OnTrack, Next
    PROVE  TypeOK'
<1>1. /\ mVideoURL' \in UrlType /\ Items(mVideoItemList') /\ rows' \subseteq UrlType
      /\ transportState' \in {"STOPPED", "PLAYING"} /\ lastChange' \in News
      /\ listVisible' \in BOOLEAN /\ raced' \in BOOLEAN
      /\ queue' \in Seq(Messages)
      /\ player' \in [url: UrlType, phase: {"idle", "preparing", "playing"}]
      /\ inputs' \in Nat /\ crashed' \in {"no", "null", "port", "duration"}
      /\ call' \in [Actors -> Call]
    BY MediaTypes, StateTypes, PlayerTypes, CountTypes, CallsStep
<1> QED BY <1>1 DEF TypeOK, UrlType, Items, Messages

---------------------------------------------------------------------------
(* Lists and crashes                                                       *)

LEMMA BlankStep ==
    ASSUME TypeOK, Shaped, OnTrack, NoBlankScreen, Next
    PROVE  NoBlankScreen'
<1>0. /\ call \in [Actors -> Call] /\ UI \in Actors /\ UI \notin Threads
      /\ player \in [url: UrlType, phase: {"idle", "preparing", "playing"}]
    BY UIAssumption DEF TypeOK, Actors, UrlType
<1> USE <1>0 DEF NoBlankScreen
<1>1. ASSUME Bystander(UI), listVisible' = listVisible, player' = player
      PROVE  NoBlankScreen'
    BY <1>1 DEF Bystander
<1>2. ASSUME NEW t \in Threads, Ground(t) \/ Begins(t)
      PROVE  NoBlankScreen'
    <2>1. Arrives(t)
        BY <1>2, URISteps, OtherSteps DEF Ground, Begins
    <2>2. Bystander(UI)
        BY <2>1 DEF Arrives, Mover
    <2> QED BY <1>1, <1>2, <2>2, GroundFrame
<1>3. ASSUME NEW t \in Threads, SendPlay(t) \/ Stop(t) \/ SetState(t) \/ SetEvent(t)
      PROVE  NoBlankScreen'
    <2>1. call'[UI] = call[UI]
        BY <1>3 DEF SendPlay, Stop, SendCommand, SetState, SetEvent, Goto
    <2>2. listVisible' = listVisible /\ player' = player
        BY <1>3 DEF SendPlay, Stop, SendCommand, SetState, SetEvent
    <2> QED BY <2>1, <2>2
<1>4. CASE SetState(UI) \/ SetEvent(UI)
    <2>1. listVisible' = listVisible
        BY <1>4 DEF SetState, SetEvent
    <2>2. call'[UI].pc # "idle"
        <3>1. CASE SetState(UI)
            BY <3>1 DEF SetState, Goto, Call
        <3>2. CASE SetEvent(UI)
            <4>1. call[UI].then = "show"
                BY <3>2 DEF SetEvent, Shaped, UIShape, Sets
            <4> QED BY <3>2, <4>1 DEF SetEvent, Call
        <3> QED BY <1>4, <3>1, <3>2
    <2> QED BY <2>1, <2>2
<1>5. CASE HandlePlay \/ HandleStop \/ HandleRefresh \/ onPrepared
    BY <1>5 DEF HandlePlay, HandleStop, HandleRefresh, onPrepared
<1>6. CASE onCompletion \/ onError
    <2>1. call'[UI] = ReportStopped
        BY <1>6 DEF onCompletion, onError, PlaybackEnds
    <2>2. ReportStopped.pc = "state"
        <3>1. Doing("callback", "state") \in Call
            BY DoingIsCall DEF PCs
        <3> QED BY <3>1 DEF ReportStopped, Setting, Call
    <2> QED BY <2>1, <2>2
<1>7. CASE ShowList \/ onItemClick \/ onClick
    BY <1>7 DEF ShowList, SetVisible, onItemClick, onClick
<1> QED BY <1>2, <1>3, <1>4, <1>5, <1>6, <1>7
        DEF Next, Control, UserInterface, Ground, Begins, Actors

LEMMA RowsStep ==
    ASSUME TypeOK, Shaped, OnTrack, RowsCatchUp, Next
    PROVE  RowsCatchUp'
<1>0. /\ queue \in Seq(Messages) /\ "refresh" \in Messages /\ "play" \in Messages
      /\ "stop" \in Messages
      /\ rows = DOMAIN mVideoItemList \/ Has("refresh")
         \/ \E t \in Threads : call[t].pc = "announce"
      /\ \A t \in Threads : t \in Actors /\ t # UI
    BY UIAssumption DEF TypeOK, Messages, RowsCatchUp, Has, Actors
<1> SUFFICES \/ rows' = DOMAIN mVideoItemList' \/ Has("refresh")'
             \/ \E t \in Threads : call'[t].pc = "announce"
    BY DEF RowsCatchUp, Has
<1> USE <1>0
<1>1. ASSUME UNCHANGED <<rows, mVideoItemList>>, Has("refresh") => Has("refresh")',
             NEW a \in Actors, Mover(a), call[a].pc # "announce"
      PROVE  \/ rows' = DOMAIN mVideoItemList' \/ Has("refresh")'
             \/ \E t \in Threads : call'[t].pc = "announce"
    BY <1>1 DEF Mover, Bystander
<1>2. ASSUME NEW t \in Threads, PutItem(t)
      PROVE  call'[t].pc = "announce"
    BY <1>2 DEF PutItem, AfterPut, Goto, TypeOK, Call
<1>3. ASSUME NEW t \in Threads, AnnounceItem(t)
      PROVE  Has("refresh")'
    BY <1>3, Appended DEF AnnounceItem
<1>4. ASSUME NEW t \in Threads, Ground(t) \/ Begins(t), ~PutItem(t), ~AnnounceItem(t)
      PROVE  \/ rows' = DOMAIN mVideoItemList' \/ Has("refresh")'
             \/ \E u \in Threads : call'[u].pc = "announce"
    <2>1. call[t].pc # "announce" /\ mVideoItemList' = mVideoItemList
        <3>1. CASE Ground(t)
            BY <1>4, <3>1 DEF Ground, Fault, LeaveLoop, StoreImageUrl, TakeResource,
                CheckFormat, DiscardResource, LookUpItem, GetItem, SetItemUrl,
                UpdateDuration, Verify, Reject, FetchImage, RefuseAddress, Connects, media
        <3>2. CASE Begins(t)
            BY <3>2 DEF Begins, SetAVTransportURI, Play, GetPositionInfo, media
        <3> QED BY <1>4, <3>1, <3>2
    <2>2. rows' = rows /\ (Has("refresh") => Has("refresh")')
        <3>1. rows' = rows /\ queue' \in {queue, Append(queue, "refresh")}
            BY <1>4, GroundFrame
        <3>2. CASE queue' = queue
            BY <3>1, <3>2 DEF Has
        <3>3. CASE queue' = Append(queue, "refresh")
            BY <3>1, <3>3, Appended
        <3> QED BY <3>1, <3>2, <3>3
    <2>3. Mover(t)
        BY <1>4, URISteps, OtherSteps DEF Ground, Begins, Arrives
    <2> QED BY <1>1, <2>1, <2>2, <2>3
<1>5. ASSUME NEW t \in Threads, SendPlay(t) \/ Stop(t)
      PROVE  \/ rows' = DOMAIN mVideoItemList' \/ Has("refresh")'
             \/ \E u \in Threads : call'[u].pc = "announce"
    <2>1. UNCHANGED <<rows, mVideoItemList>> /\ call[t].pc # "announce"
        BY <1>5 DEF SendPlay, Stop, SendCommand, media
    <2>2. \E msg \in {"play", "stop"} : queue' = Append(queue, msg)
        BY <1>5 DEF SendPlay, Stop, SendCommand
    <2>3. Has("refresh") => Has("refresh")'
        BY <2>2, Appended
    <2>4. Mover(t)
        BY <1>5, OtherSteps DEF Arrives
    <2> QED BY <1>1, <2>1, <2>3, <2>4
<1>6. ASSUME NEW a \in Actors, SetState(a) \/ SetEvent(a)
      PROVE  \/ rows' = DOMAIN mVideoItemList' \/ Has("refresh")'
             \/ \E u \in Threads : call'[u].pc = "announce"
    <2>1. /\ UNCHANGED <<rows, mVideoItemList>> /\ queue' = queue
          /\ call[a].pc # "announce"
        BY <1>6 DEF SetState, SetEvent, media
    <2>2. Mover(a)
        BY <1>6, OtherSteps, UISteps DEF Arrives, Actors
    <2> QED BY <1>1, <2>1, <2>2 DEF Has
<1>7. ASSUME UserInterface
      PROVE  \/ rows' = DOMAIN mVideoItemList' \/ Has("refresh")'
             \/ \E u \in Threads : call'[u].pc = "announce"
    <2>0. /\ Mover(UI) /\ UI \in Actors
          /\ call[UI].pc # "announce"
        BY <1>7, UISteps DEF Actors, Shaped, UIShape, Sets
    <2>1. CASE HandlePlay \/ HandleStop
        <3>1. /\ UNCHANGED <<rows, mVideoItemList>> /\ queue # <<>>
              /\ queue' = Tail(queue) /\ Head(queue) # "refresh"
            BY <2>1 DEF HandlePlay, HandleStop, Message, media
        <3>2. Has("refresh") => Has("refresh")'
            BY <3>1, Taken
        <3> QED BY <1>1, <2>0, <3>1, <3>2
    <2>2. CASE HandleRefresh
        BY <2>2 DEF HandleRefresh
    <2>3. CASE onPrepared \/ onCompletion \/ onError \/ ShowList
        <3>1. UNCHANGED <<rows, mVideoItemList>> /\ queue' = queue
            BY <2>3 DEF onPrepared, onCompletion, onError, PlaybackEnds, ShowList, media
        <3> QED BY <1>1, <2>0, <3>1 DEF Has
    <2>4. CASE onItemClick
        <3>1. UNCHANGED <<rows, mVideoItemList>> /\ queue' = Append(queue, "play")
            BY <2>4 DEF onItemClick, media
        <3>2. Has("refresh") => Has("refresh")'
            BY <3>1, Appended
        <3> QED BY <1>1, <2>0, <3>1, <3>2
    <2>5. CASE onClick
        BY <2>5, Appended DEF onClick
    <2> QED BY <1>7, <2>1, <2>2, <2>3, <2>4, <2>5 DEF UserInterface
<1> QED BY <1>2, <1>3, <1>4, <1>5, <1>6, <1>7 DEF Next, Control, Ground, Begins

LEMMA NullStep ==
    ASSUME TypeOK, Shaped, OnTrack, Next
    PROVE  NullNeedsInterference'
<1>0. crashed = "no"
    BY DEF Next
<1> USE <1>0
<1>1. ASSUME NEW t \in Threads, GetItem(t)
      PROVE  NullNeedsInterference'
    <2>1. CASE mVideoURL \in DOMAIN mVideoItemList
        BY <1>1, <2>1 DEF GetItem, NullNeedsInterference
    <2>2. CASE mVideoURL \notin DOMAIN mVideoItemList
        <3>1. call' = call /\ call[t].pc = "get"
            BY <1>1, <2>2 DEF GetItem
        <3>2. ThreadShape(call[t]) /\ Track(call[t], mVideoURL, DOMAIN mVideoItemList)
            BY DEF Shaped, OnTrack
        <3>3. call[t].op = "SetAVTransportURI"
            BY <3>1, <3>2 DEF ThreadShape, Sets
        <3>4. call[t].cleared \/ call[t].touched
            BY <2>2, <3>1, <3>2, <3>3 DEF Track
        <3> QED BY <3>1, <3>4 DEF NullNeedsInterference
    <2> QED BY <2>1, <2>2
<1>2. ASSUME NEW t \in Threads, Ground(t), ~GetItem(t)
      PROVE  crashed' # "null"
    BY <1>2 DEF Ground, Fault, LeaveLoop, StoreImageUrl, TakeResource, CheckFormat,
        DiscardResource, LookUpItem, SetItemUrl, PutItem, AnnounceItem,
        UpdateDuration, Verify, Reject, FetchImage, RefuseAddress
<1>3. CASE \/ \E t \in Threads : Begins(t) \/ SendPlay(t) \/ Stop(t)
           \/ \E a \in Actors : SetState(a) \/ SetEvent(a)
    BY <1>3 DEF Begins, SetAVTransportURI, Play, GetPositionInfo, SendPlay, Stop,
        SendCommand, SetState, SetEvent, NullNeedsInterference
<1>4. CASE UserInterface
    BY <1>4 DEF UserInterface, HandlePlay, HandleStop, HandleRefresh, onPrepared,
        onCompletion, onError, PlaybackEnds, ShowList, onItemClick, onClick,
        NullNeedsInterference
<1> QED BY <1>1, <1>2, <1>3, <1>4 DEF Next, Control, Ground, Begins, NullNeedsInterference

---------------------------------------------------------------------------
(* Commands                                                                *)

(* A step that concerns neither the commands nor what follows them. *)
LEMMA NothingCommanded ==
    ASSUME Settled, UNCHANGED <<transportState, raced>>,
           player'.phase = "idle" <=> player.phase = "idle",
           OneCommand => OneCommand',
           Has("play")' <=> Has("play"), Has("stop")' <=> Has("stop"),
           call'[UI].pc = call[UI].pc,
           \A t \in Threads : /\ Flying(call'[t]) <=> Flying(call[t])
                              /\ Flying(call[t]) => /\ call'[t].pc = call[t].pc
                                                    /\ call'[t].news = call[t].news
    PROVE  Settled'
BY DEF Settled, HasCommand, UIFree

LEMMA BystanderFlies ==
    ASSUME NEW b, Bystander(b)
    PROVE  /\ Flying(call'[b]) <=> Flying(call[b])
           /\ call'[b].pc = call[b].pc /\ call'[b].news = call[b].news
BY DEF Bystander, Flying, Sets

LEMMA CommandStep ==
    ASSUME TypeOK, Shaped, OnTrack, Settled, NEW t \in Threads, SendPlay(t) \/ Stop(t)
    PROVE  Settled'
<1>0. /\ queue \in Seq(Messages) /\ "play" \in Messages /\ "stop" \in Messages
      /\ t \in Actors /\ t # UI
      /\ UI \in Actors
    BY UIAssumption DEF TypeOK, Messages, Actors
<1>1. SUFFICES ASSUME ~raced'
               PROVE  Settled'
    BY DEF Settled
<1>2. PICK op \in {"Play", "Stop"}, msg \in {"play", "stop"}, newState \in {"PLAYING", "STOPPED"} :
         /\ SendCommand(t, op, msg, newState)
         /\ msg = "play" <=> newState = "PLAYING"
    BY DEF SendPlay, Stop
<1>3. ~InFlight /\ UIFree /\ UNCHANGED <<player, transportState>>
    BY <1>1, <1>2 DEF SendCommand, UIFree, state
<1>4. ~HasCommand /\ \A u \in Threads : ~Flying(call[u])
    BY <1>3, CommandsInFlight
<1>5. \A b \in Actors : b # t => Bystander(b)
    BY OtherSteps DEF Arrives, Mover
<1>6. \A u \in Threads : u # t => ~Flying(call'[u])
    BY <1>4, <1>5, BystanderFlies DEF Actors
<1>7. /\ call'[t].op = op /\ call'[t].pc = "state"
      /\ call'[t].news = <<"TransportState", newState>>
    <2>1. Doing(op, "state") \in Call /\ Doing(op, "state").op = op
        BY DoingIsCall DEF PCs
    <2>2. call'[t] = Setting(Doing(op, "state"), "TransportState", newState, "idle")
        BY <1>0, <1>2 DEF SendCommand, TypeOK
    <2>3. <<"TransportState", newState>> \in News /\ "idle" \in PCs
        BY DEF News, PCs
    <2> QED BY <2>1, <2>2, <2>3, SetsNews
<1>8. Flying(call'[t]) /\ call'[t].news[2] = newState
    BY <1>7 DEF Flying, Sets
<1>9. queue' = Append(queue, msg) /\ msg \in Messages
    BY <1>0, <1>2 DEF SendCommand
<1>10. /\ OneCommand' /\ Has(msg)'
       /\ \A m \in {"play", "stop"} : m # msg => ~Has(m)'
    BY <1>0, <1>4, <1>9, Appended DEF HasCommand
<1>11. call'[UI].pc = "idle"
    BY <1>0, <1>3, <1>5, BystanderFlies DEF UIFree
<1> QED BY <1>2, <1>6, <1>7, <1>8, <1>10, <1>11 DEF Settled, HasCommand, UIFree

LEMMA ThreadSettles ==
    ASSUME TypeOK, Shaped, OnTrack, Settled, NEW t \in Threads, SetState(t) \/ SetEvent(t)
    PROVE  Settled'
<1>0. /\ t \in Actors /\ UI \in Actors /\ t # UI /\ call[t] \in Call
      /\ ThreadShape(call[t]) /\ call \in [Actors -> Call]
    BY UIAssumption DEF TypeOK, Actors, Shaped
<1>1. \A b \in Actors : b # t => Bystander(b)
    BY OtherSteps DEF Arrives, Mover
<1>2. /\ \A u \in Threads : u # t => /\ Flying(call'[u]) <=> Flying(call[u])
                                     /\ call'[u].pc = call[u].pc
                                     /\ call'[u].news = call[u].news
      /\ call'[UI].pc = call[UI].pc
    BY <1>0, <1>1, BystanderFlies DEF Actors
<1>3. /\ UNCHANGED <<raced, player, queue>>
      /\ (Has("play")' <=> Has("play")) /\ (Has("stop")' <=> Has("stop"))
      /\ OneCommand' <=> OneCommand
    BY DEF SetState, SetEvent, Has, OneCommand
<1>4. CASE SetState(t)
    <2>1. call'[t].pc = "event" /\ call'[t].op = call[t].op /\ call'[t].news = call[t].news
        BY <1>0, <1>4 DEF SetState, Goto, Call
    <2>2. call[t].pc = "state"
        BY <1>4 DEF SetState
    <2>3. CASE Flying(call[t])
        <3>1. transportState' = call[t].news[2] /\ Flying(call'[t])
            BY <1>0, <1>4, <2>1, <2>3, SetStateVariable DEF Flying, Sets
        <3>2. ~raced => UIFree
            BY <2>3 DEF Settled
        <3> QED BY <1>2, <1>3, <2>1, <2>3, <3>1, <3>2 DEF Settled, HasCommand, UIFree
    <2>4. CASE ~Flying(call[t])
        <3>1. transportState' = transportState /\ ~Flying(call'[t])
            <4>1. call[t].op \notin {"Play", "Stop", "callback"}
                BY <1>0, <2>2, <2>4 DEF Flying, Sets, ThreadShape
            <4>2. transportState' = transportState
                BY <1>0, <1>4, <4>1, SetStateVariable
            <4> QED BY <2>1, <4>1, <4>2 DEF Flying
        <3> QED BY <1>2, <1>3, <2>4, <3>1, NothingCommanded
    <2> QED BY <2>3, <2>4
<1>5. CASE SetEvent(t)
    <2>1. transportState' = transportState /\ call[t].pc = "event"
        BY <1>5 DEF SetEvent
    <2>2. CASE Flying(call[t])
        <3>1. call[t].then = "idle"
            BY <1>0, <2>1, <2>2 DEF Flying, Sets, ThreadShape
        <3>2. call'[t] = Idle
            BY <1>0, <1>5, <3>1 DEF SetEvent
        <3>3. ~Flying(call'[t])
            BY <3>2 DEF Flying, Sets, Idle
        <3>4. ~raced => \A u \in Threads : ~Flying(call'[u])
            BY <1>2, <2>2, <3>3 DEF Settled
        <3>5. ~raced => UIFree
            BY <2>2 DEF Settled
        <3> QED BY <1>2, <1>3, <2>1, <2>2, <3>4, <3>5 DEF Settled, HasCommand, UIFree
    <2>3. CASE ~Flying(call[t])
        <3>1. call'[t].op = call[t].op \/ call'[t] = Idle
            BY <1>0, <1>5 DEF SetEvent, Call
        <3>2. ~Flying(call'[t])
            <4>1. call[t].op \notin {"Play", "Stop"}
                BY <2>1, <2>3 DEF Flying, Sets
            <4>2. Idle.op = "none"
                BY DEF Idle
            <4> QED BY <3>1, <4>1, <4>2 DEF Flying
        <3> QED BY <1>2, <1>3, <2>1, <2>3, <3>2, NothingCommanded
    <2> QED BY <2>2, <2>3
<1> QED BY <1>4, <1>5

LEMMA UISettles ==
    ASSUME TypeOK, Shaped, Settled, UserInterface \/ SetState(UI) \/ SetEvent(UI)
    PROVE  Settled'
<1>0. /\ UI \in Actors /\ call \in [Actors -> Call] /\ UIShape(call[UI])
      /\ queue \in Seq(Messages) /\ Messages = {"play", "stop", "refresh"}
      /\ Commands = {"play", "stop"}
      /\ player \in [url: UrlType, phase: {"idle", "preparing", "playing"}]
    BY DEF TypeOK, Actors, Shaped, Messages, Commands, UrlType
<1>1. \A b \in Threads : /\ Flying(call'[b]) <=> Flying(call[b])
                         /\ call'[b].pc = call[b].pc /\ call'[b].news = call[b].news
    <2>1. \A b \in Actors : b # UI => Bystander(b)
        BY UISteps DEF Mover
    <2> QED BY <2>1, UIAssumption, BystanderFlies DEF Actors
<1> USE <1>0
<1>2. CASE HandlePlay \/ HandleStop
    <2>1. /\ queue # <<>> /\ queue' = Tail(queue) /\ Head(queue) \in Commands
          /\ UNCHANGED <<transportState, raced, call>> /\ UIFree
          /\ Head(queue) = "play" <=> player'.phase # "idle"
        <3>1. CASE HandlePlay
            BY <3>1 DEF HandlePlay, Message, state
        <3>2. CASE HandleStop
            BY <3>2 DEF HandleStop, Message, state
        <3> QED BY <1>2, <3>1, <3>2
    <2>2. SUFFICES ASSUME ~raced
                   PROVE  Settled'
        BY <2>1 DEF Settled
    <2>3. OneCommand
        BY <2>2 DEF Settled
    <2>4. OneCommand' /\ ~HasCommand' /\ Has(Head(queue))
        BY <2>1, <2>3, Taken
    <2>5. CASE Head(queue) = "play"
        BY <1>1, <2>1, <2>2, <2>4, <2>5 DEF Settled, HasCommand, UIFree
    <2>6. CASE Head(queue) = "stop"
        <3>1. call'[UI].pc = "idle"
            BY <2>1 DEF UIFree
        <3>2. \A t \in Threads : Flying(call[t]) => call[t].news[2] = "STOPPED"
            BY <2>2, <2>4, <2>6 DEF Settled
        <3>3. (\A t \in Threads : ~Flying(call[t])) => transportState = "STOPPED"
            BY <2>2, <2>4, <2>6 DEF Settled
        <3>4. player'.phase = "idle"
            BY <2>1, <2>6
        <3> QED BY <1>1, <2>1, <2>2, <2>4, <3>1, <3>2, <3>3, <3>4
                DEF Settled, HasCommand, UIFree
    <2> QED BY <2>1, <2>5, <2>6
<1>3. CASE HandleRefresh
    <2>1. /\ queue # <<>> /\ queue' = Tail(queue) /\ Head(queue) = "refresh"
          /\ UNCHANGED <<transportState, raced, call, player>>
        BY <1>3 DEF HandleRefresh, Message, state
    <2>2. /\ OneCommand => OneCommand'
          /\ (Has("play")' <=> Has("play")) /\ (Has("stop")' <=> Has("stop"))
        BY <2>1, Taken
    <2> QED BY <1>1, <2>1, <2>2, NothingCommanded
<1>4. CASE onPrepared
    <2>1. /\ UNCHANGED <<transportState, raced, call, queue>>
          /\ player'.phase # "idle" /\ player.phase # "idle"
        BY <1>4 DEF onPrepared, state
    <2>2. /\ OneCommand => OneCommand'
          /\ (Has("play")' <=> Has("play")) /\ (Has("stop")' <=> Has("stop"))
        BY <2>1 DEF OneCommand, Has
    <2> QED BY <1>1, <2>1, <2>2, NothingCommanded
<1>5. CASE onCompletion \/ onError
    <2>1. /\ UNCHANGED <<transportState, queue>> /\ raced' = (raced \/ InFlight)
          /\ player'.phase = "idle" /\ call'[UI] = ReportStopped
        BY <1>5 DEF onCompletion, onError, PlaybackEnds, state
    <2>2. SUFFICES ASSUME ~raced'
                   PROVE  Settled'
        BY DEF Settled
    <2>3. ~raced /\ ~HasCommand /\ \A t \in Threads : ~Flying(call[t])
        BY <2>1, <2>2, CommandsInFlight
    <2>4. ReportStopped.pc = "state"
        <3>1. Doing("callback", "state") \in Call
            BY DoingIsCall DEF PCs
        <3> QED BY <3>1 DEF ReportStopped, Setting, Call
    <2>5. ~HasCommand' /\ (OneCommand => OneCommand')
        BY <2>1, <2>3 DEF HasCommand, Has, OneCommand
    <2> QED BY <1>1, <2>1, <2>3, <2>4, <2>5 DEF Settled, HasCommand, UIFree
<1>6. CASE SetState(UI)
    <2>1. call[UI].pc = "state" /\ call[UI].news[2] = "STOPPED" /\ call[UI].op = "callback"
        BY <1>6 DEF SetState, UIShape, Sets
    <2>2. /\ transportState' = "STOPPED" /\ UNCHANGED <<raced, queue, player>>
          /\ call'[UI].pc = "event"
        BY <1>6, <2>1, SetStateVariable DEF SetState, Goto, Call
    <2>3. /\ OneCommand => OneCommand'
          /\ HasCommand' <=> HasCommand
        BY <2>2 DEF OneCommand, HasCommand, Has
    <2> QED BY <1>1, <2>1, <2>2, <2>3 DEF Settled, HasCommand, UIFree
<1>7. CASE SetEvent(UI)
    <2>1. call[UI].pc = "event" /\ call[UI].then = "show"
        BY <1>7 DEF SetEvent, UIShape, Sets
    <2>2. /\ UNCHANGED <<transportState, raced, queue, player>>
          /\ call'[UI].pc = "show"
        BY <1>7, <2>1 DEF SetEvent, Call
    <2>3. /\ OneCommand => OneCommand'
          /\ HasCommand' <=> HasCommand
        BY <2>2 DEF OneCommand, HasCommand, Has
    <2> QED BY <1>1, <2>1, <2>2, <2>3 DEF Settled, HasCommand, UIFree
<1>8. CASE ShowList
    <2>1. /\ UNCHANGED <<transportState, raced, queue, player>> /\ call[UI].pc = "show"
          /\ call'[UI] = Idle
        BY <1>8 DEF ShowList, Ends, state
    <2>2. call'[UI].pc = "idle"
        BY <2>1 DEF Idle
    <2>3. /\ OneCommand => OneCommand'
          /\ HasCommand' <=> HasCommand
        BY <2>1 DEF OneCommand, HasCommand, Has
    <2> QED BY <1>1, <2>1, <2>2, <2>3 DEF Settled, HasCommand, UIFree
<1>9. CASE onItemClick
    BY <1>9 DEF onItemClick, Settled
<1>10. CASE onClick
    <2>1. /\ UNCHANGED <<transportState, raced, player>> /\ queue' = Append(queue, "refresh")
          /\ call'[UI].pc = call[UI].pc
        BY <1>10 DEF onClick, UIFree, state
    <2>2. /\ OneCommand => OneCommand'
          /\ (Has("play")' <=> Has("play")) /\ (Has("stop")' <=> Has("stop"))
        BY <2>1, Appended
    <2> QED BY <1>1, <2>1, <2>2, NothingCommanded
<1> QED BY <1>2, <1>3, <1>4, <1>5, <1>6, <1>7, <1>8, <1>9, <1>10 DEF UserInterface

LEMMA SettledStep ==
    ASSUME TypeOK, Shaped, OnTrack, Settled, Next
    PROVE  Settled'
<1>1. ASSUME NEW t \in Threads, Ground(t) \/ Begins(t)
      PROVE  Settled'
    <2>0. /\ t \in Actors /\ UI \in Actors /\ t # UI /\ queue \in Seq(Messages)
          /\ Messages = {"play", "stop", "refresh"}
        BY UIAssumption DEF TypeOK, Actors, Messages
    <2>1. \A b \in Actors : b # t => Bystander(b)
        BY <1>1, URISteps, OtherSteps DEF Ground, Begins, Arrives, Mover
    <2>2. call'[UI].pc = call[UI].pc
        BY <2>0, <2>1, BystanderFlies
    <2>3. \A u \in Threads : /\ Flying(call'[u]) <=> Flying(call[u])
                             /\ Flying(call[u]) => /\ call'[u].pc = call[u].pc
                                                   /\ call'[u].news = call[u].news
        BY <1>1, <2>1, BystanderFlies, GroundNeverFlies DEF Actors
    <2>4. /\ UNCHANGED <<transportState, player, raced>>
          /\ queue' \in {queue, Append(queue, "refresh")}
        BY <1>1, GroundFrame
    <2>5. /\ OneCommand => OneCommand'
          /\ (Has("play")' <=> Has("play")) /\ (Has("stop")' <=> Has("stop"))
        <3>1. CASE queue' = queue
            BY <3>1 DEF OneCommand, Has
        <3>2. CASE queue' = Append(queue, "refresh")
            BY <2>0, <3>2, Appended
        <3> QED BY <2>4, <3>1, <3>2
    <2> QED BY <2>2, <2>3, <2>4, <2>5, NothingCommanded
<1>2. ASSUME NEW t \in Threads, SendPlay(t) \/ Stop(t) \/ SetState(t) \/ SetEvent(t)
      PROVE  Settled'
    BY <1>2, CommandStep, ThreadSettles
<1>3. ASSUME UserInterface \/ SetState(UI) \/ SetEvent(UI)
      PROVE  Settled'
    BY <1>3, UISettles
<1> QED BY <1>1, <1>2, <1>3 DEF Next, Control, Ground, Begins, Actors

---------------------------------------------------------------------------
(* How a SetAVTransportURI ends                                            *)

LEMMA OutcomeStep ==
    ASSUME TypeOK, Shaped, OnTrack, Next, NEW t \in Threads,
           call[t].op = "SetAVTransportURI",
           call[t].pc # "idle", call'[t].pc = "idle", ~call[t].touched
    PROVE  IF call[t].pc = "image"
           THEN /\ mVideoURL' \in Supported
                /\ mVideoURL' \in DOMAIN mVideoItemList \/ call[t].cleared
           ELSE mVideoURL' = NoUrl
<1>0. /\ t \in Actors /\ UI \in Actors /\ t # UI /\ \A u \in Threads : u \in Actors
      /\ call \in [Actors -> Call] /\ call[t] \in Call
      /\ ThreadShape(call[t]) /\ Track(call[t], mVideoURL, DOMAIN mVideoItemList)
    BY UIAssumption DEF TypeOK, Shaped, OnTrack, Actors
<1> USE <1>0
<1>1. ~Bystander(t)
    BY DEF Bystander
<1>2. ASSUME NEW u \in Threads, Control(u) \/ SetState(u) \/ SetEvent(u)
      PROVE  u = t
    BY <1>1, <1>2, URISteps, OtherSteps DEF Control, Arrives, Mover
<1>3. ~(UserInterface \/ SetState(UI) \/ SetEvent(UI))
    BY <1>1, UISteps DEF Mover
<1>4. Control(t) \/ SetState(t) \/ SetEvent(t)
    BY <1>2, <1>3 DEF Next, Actors
<1>5. CASE Fault(t)
    <2>1. call[t].pc = "fault" /\ mVideoURL' = mVideoURL
        BY <1>5 DEF Fault
    <2> QED BY <2>1 DEF Track
<1>6. CASE Reject(t)
    <2>1. call[t].pc = "reject" /\ mVideoURL' = NoUrl
        BY <1>6 DEF Reject, WriteURL
    <2> QED BY <2>1
<1>7. CASE FetchImage(t)
    <2>1. call[t].pc = "image" /\ UNCHANGED <<mVideoURL, mVideoItemList>>
        BY <1>7 DEF FetchImage, media
    <2> QED BY <2>1 DEF Track
<1>8. ~(LeaveLoop(t) \/ LookUpItem(t) \/ GetItem(t)
        \/ PutItem(t) \/ AnnounceItem(t) \/ RefuseAddress(t) \/ SetState(t))
    BY DEF LeaveLoop, LookUpItem, GetItem, PutItem, AfterPut, AnnounceItem,
           RefuseAddress, SetState, Goto, Call
<1>15. ~(CheckFormat(t) \/ Verify(t))
    BY DEF CheckFormat, Verify, Compare, Call
<1>9. ~(StoreImageUrl(t) \/ SetItemUrl(t))
    BY DEF StoreImageUrl, SetItemUrl, Call
<1>10. ~(TakeResource(t) \/ DiscardResource(t))
    BY DEF TakeResource, DiscardResource, WriteURL, Call
<1>11. ~UpdateDuration(t)
    BY DEF UpdateDuration, Setting, Call
<1>12. ~(Begins(t) \/ Stop(t))
    BY DEF Begins, SetAVTransportURI, Play, GetPositionInfo, Stop
<1>13. ~SendPlay(t)
    BY DEF SendPlay, ThreadShape, Sets, Examines
<1>14. ~SetEvent(t)
    <2>1. ASSUME SetEvent(t)
          PROVE  FALSE
        <3>1. call[t].pc = "event"
            BY <2>1 DEF SetEvent
        <3>2. call[t].then \in {"fault", "verify"}
            BY <3>1 DEF ThreadShape, Sets, Examines
        <3> QED BY <2>1, <3>2 DEF SetEvent, Call
    <2> QED BY <2>1
<1> QED BY <1>4, <1>5, <1>6, <1>7, <1>8, <1>9, <1>10, <1>11, <1>12, <1>13, <1>14,
           <1>15 DEF Control, Begins

---------------------------------------------------------------------------
(* The theorems                                                            *)

LEMMA InvInit == Init => IInv
<1> SUFFICES ASSUME Init
             PROVE  IInv
    OBVIOUS
<1>0. /\ Idle \in Call /\ Idle.pc = "idle" /\ Idle.op = "none"
      /\ \A a \in Actors : call[a] = Idle
      /\ call = [a \in Actors |-> Idle]
    BY IdleIsCall DEF Init, Idle
<1>1. TypeOK
    <2>1. NoNews \in News
        BY DEF NoNews, News
    <2>2. /\ call \in [Actors -> Call] /\ queue \in Seq({"play", "stop", "refresh"})
          /\ lastChange \in News /\ inputs \in Nat
          /\ player \in [url: Urls \cup {NoUrl}, phase: {"idle", "preparing", "playing"}]
        BY <1>0, <2>1, EmptySeq DEF Init
    <2>3. DOMAIN mVideoItemList = {}
        BY EmptySeq DEF Init
    <2> QED BY <2>2, <2>3 DEF TypeOK, Init
<1>2. Shaped /\ OnTrack
    BY <1>0 DEF Shaped, OnTrack, ThreadShape, UIShape, Track, Actors
<1>3. NoBlankScreen /\ RowsCatchUp /\ NullNeedsInterference
    BY EmptySeq DEF Init, NoBlankScreen, RowsCatchUp, NullNeedsInterference
<1>4. Settled
    <2>1. ~HasCommand /\ OneCommand
        BY DEF Init, HasCommand, Has, OneCommand
    <2>2. /\ \A t \in Threads : ~Flying(call[t])
          /\ call[UI].pc = "idle"
        BY <1>0 DEF Flying, Sets, Actors
    <2>3. player.phase = "idle" /\ transportState = "STOPPED"
        BY DEF Init
    <2> QED BY <2>1, <2>2, <2>3 DEF Settled, HasCommand, UIFree
<1> QED BY <1>1, <1>2, <1>3, <1>4 DEF IInv

LEMMA InvStep == IInv /\ [Next]_vars => IInv'
<1> SUFFICES ASSUME IInv, [Next]_vars
             PROVE  IInv'
    OBVIOUS
<1> USE DEF IInv
<1>1. CASE Next
    BY <1>1, TypeStep, CallsStep, SettledStep, BlankStep, RowsStep, NullStep
<1>2. CASE UNCHANGED vars
    <2>1. UNCHANGED <<mVideoURL, mVideoItemList, rows, listVisible, transportState,
                      lastChange, queue, player, call, crashed, inputs, raced>>
        BY <1>2 DEF vars, media, state
    <2>2. TypeOK' /\ Shaped' /\ OnTrack'
        BY <2>1 DEF TypeOK, Shaped, OnTrack
    <2>3. NoBlankScreen' /\ RowsCatchUp' /\ NullNeedsInterference'
        BY <2>1 DEF NoBlankScreen, RowsCatchUp, NullNeedsInterference
    <2>4. Settled'
        BY <2>1 DEF Settled, HasCommand, Has, OneCommand, UIFree
    <2> QED BY <2>2, <2>3, <2>4
<1> QED BY <1>1, <1>2

(* The invariant holds of the application, for any threads, resources and  *)
(* number of inputs.                                                       *)
THEOREM Invariance == Spec => []IInv
<1> QED BY InvInit, InvStep, PTL DEF Spec

(* Every variable of the application keeps its type. *)
THEOREM TypeCorrect == Spec => []TypeOK
<1>1. IInv => TypeOK
    BY DEF IInv
<1> QED BY <1>1, Invariance, PTL

(* Whatever stops, ends or fails a playback brings the list of videos back *)
(* (handleMessage, onPrepared, onCompletion, onError).                     *)
THEOREM NeverBlank == Spec => []NoBlankScreen
<1>1. IInv => NoBlankScreen
    BY DEF IInv
<1> QED BY <1>1, Invariance, PTL

(* A change of mVideoItemList by an HTTP thread or by the clear button is  *)
(* shown, or its refresh is under way.                                     *)
THEOREM RowsFollow == Spec => []RowsCatchUp
<1>1. IInv => RowsCatchUp
    BY DEF IInv
<1> QED BY <1>1, Invariance, PTL

(* Once all is quiet TransportState tells what the player does, unless     *)
(* commands or the end of a playback overlapped.                           *)
THEOREM StateIsThePlayers == Spec => []StateFollowsPlayer
<1>1. IInv => StateFollowsPlayer
    <2>1. ASSUME IInv, AllQuiet, ~raced
          PROVE  transportState = "PLAYING" <=> player.phase # "idle"
        <3>1. UIFree
            BY <2>1 DEF AllQuiet, UIFree, Actors
        <3>2. ~HasCommand /\ \A t \in Threads : ~Flying(call[t])
            BY <2>1, CommandsInFlight DEF AllQuiet
        <3> QED BY <2>1, <3>1, <3>2 DEF IInv, Settled
    <2> QED BY <2>1 DEF StateFollowsPlayer
<1> QED BY <1>1, Invariance, PTL

(* SetAVTransportURI dies of an item that get() does not find only if      *)
(* another thread cleared the list or wrote mVideoURL in between.          *)
THEOREM NullIsInterference == Spec => []NullNeedsInterference
<1>1. IInv => NullNeedsInterference
    BY DEF IInv
<1> QED BY <1>1, Invariance, PTL

(* A SetAVTransportURI in whose way no other thread gets leaves a listed   *)
(* URL that can be played, or none, as it succeeds or fails.               *)
THEOREM OutcomeOfURI == Spec => URIOutcome
<1>1. IInv /\ [Next]_vars =>
        [\A t \in Threads :
            (/\ call[t].op = "SetAVTransportURI"
             /\ call[t].pc # "idle" /\ call'[t].pc = "idle"
             /\ ~call[t].touched) =>
               IF call[t].pc = "image"
               THEN /\ mVideoURL' \in Supported
                    /\ mVideoURL' \in DOMAIN mVideoItemList \/ call[t].cleared
               ELSE mVideoURL' = NoUrl]_vars
    BY OutcomeStep DEF IInv
<1> QED BY <1>1, Invariance, PTL DEF Spec, URIOutcome

---------------------------------------------------------------------------
(* What is listed                                                          *)

LEMMA ListingStep ==
    ASSUME TypeOK, Shaped, OnTrack, Next, NEW key \in DOMAIN mVideoItemList'
    PROVE  \/ key \in Supported /\ mVideoItemList'[key] = key
           \/ key \in DOMAIN mVideoItemList /\ mVideoItemList'[key] = mVideoItemList[key]
           \/ \E t \in Threads : call[t].pc = "put" /\ call[t].touched
<1>1. ASSUME NEW t \in Threads, PutItem(t), ~call[t].touched, key = mVideoURL
      PROVE  key \in Supported /\ mVideoItemList'[key] = key
    <2>1. call[t].pc = "put" /\ mVideoItemList'[key] = call[t].url
        BY <1>1 DEF PutItem
    <2>2. ThreadShape(call[t]) /\ Track(call[t], mVideoURL, DOMAIN mVideoItemList)
        BY DEF Shaped, OnTrack
    <2>3. call[t].op = "SetAVTransportURI"
        BY <2>1, <2>2 DEF ThreadShape, Sets, Examines
    <2> QED BY <1>1, <2>1, <2>2, <2>3 DEF Track
<1>2. ASSUME NEW t \in Threads, PutItem(t), key # mVideoURL
      PROVE  key \in DOMAIN mVideoItemList /\ mVideoItemList'[key] = mVideoItemList[key]
    BY <1>2 DEF PutItem
<1>3. CASE mVideoItemList' = mVideoItemList
    BY <1>3
<1>4. CASE mVideoItemList' = <<>>
    <2>1. DOMAIN <<>> = {}
        OBVIOUS
    <2> QED BY <1>4, <2>1
<1>5. \/ \E t \in Threads : PutItem(t)
      \/ mVideoItemList' = mVideoItemList
      \/ mVideoItemList' = <<>>
    BY DEF Next, Control, UserInterface, SetAVTransportURI, Fault, RefuseAddress,
       LeaveLoop, StoreImageUrl, TakeResource, CheckFormat, DiscardResource, LookUpItem,
       GetItem, SetItemUrl, AnnounceItem, UpdateDuration, Verify, Reject, FetchImage,
       Play, SendPlay, Stop, SendCommand, GetPositionInfo, SetState, SetEvent,
       HandlePlay, HandleStop, HandleRefresh, onPrepared, onCompletion, onError,
       PlaybackEnds, ShowList, onItemClick, onClick, media
<1>6. ASSUME NEW t \in Threads, PutItem(t), call[t].touched
      PROVE  call[t].pc = "put" /\ call[t].touched
    BY <1>6 DEF PutItem
<1> QED BY <1>1, <1>2, <1>3, <1>4, <1>5, <1>6

(* Nothing is listed untested, or under another URL than its own, by any   *)
(* number of requests at a time, unless another thread wrote mVideoURL     *)
(* between the test and the listing.                                       *)
THEOREM OnlyTestedAreListed == Spec => ListedWereTested
<1>1. IInv /\ [Next]_vars =>
        [\A key \in DOMAIN mVideoItemList' :
           \/ key \in Supported /\ mVideoItemList'[key] = key
           \/ key \in DOMAIN mVideoItemList /\ mVideoItemList'[key] = mVideoItemList[key]
           \/ \E t \in Threads : call[t].pc = "put" /\ call[t].touched]_vars
    BY ListingStep DEF IInv
<1> QED BY <1>1, Invariance, PTL DEF Spec, ListedWereTested
=============================================================================
