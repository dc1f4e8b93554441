# Verification of Stream2Android

Stream2Android turns an Android device into a UPnP media renderer: a control
point on the network sends it the URL of a video (`SetAVTransportURI`), starts
and stops the playback, and subscribes to its state variables. This directory
holds TLA+ models of the parts in which several threads, several machines or
several steps of one operation have to agree, TLC configurations that check
them on small instances, and machine-checked proofs about the core.

Paths below are relative to the repository: `org/cybergarage/...` and
`org/hansdeveloper/...` stand in its directory `src/`, the C code in `jni/`.

## 1. The system and its components

| Component | State | Operations | Here |
|---|---|---|---|
| **Eventing** (`upnp/Service.java`, `StateVariable.java`, `event/*`, the subscription handlers of `Device.java`) | value of each state variable; `SubscriberList` (a `Vector`); of each `Subscriber` its timeout, time and `notifyCount` | `setValue`, `notify`, `notifyAllStateVariables`, SUBSCRIBE, renewal, UNSUBSCRIBE, `isExpired` | `Eventing`, `EventChannel` |
| **Media renderer** (`Stream2Android/main.java`, `MainListAdapter.java`) | `mVideoURL`, `mVideoItemList`, rows shown, the list's visibility, `TransportState`, `LastChange`, the handler's queue, the player | SetAVTransportURI, Play, Stop, GetPositionInfo; handled messages; player callbacks; clicks | `Renderer` |
| **Device life cycle** (`upnp/Device.java`, `http/HTTPServer*.java`, `upnp/ssdp/SSDPSearchSocket*.java`, `HTTPMUSocket.java`, `upnp/device/Advertiser.java`, `util/ThreadCore.java`) | HTTP port, server list, search socket list, advertiser, the threads of each, what the network has been told | `start`, `stop`, `setLeaseTime`; the loops of the three kinds of thread | `DeviceLifecycle` |
| **HTTP layer** (`http/HTTPPacket.java`, `HTTPRequest.java`, `HTTPServerThread.java`) | a connection, its keep-alive flag, the message read so far | read request, answer, post and wait | planned |
| **SOAP control** (`upnp/Action.java`, `Argument.java`, `ArgumentList.java`, `upnp/control/*`, the dispatch in `Device.java`) | argument nodes of each action and the description's tree, shared by all requests | set input arguments, clear outputs, call listener, answer; render the description; queries | `Control` (without queries) |
| **Control point** (`upnp/ControlPoint.java`, `device/Disposer.java`, `control/RenewSubscriber.java`) | device nodes, subscriptions | add, remove, expire devices; subscribe, renew | planned; the application does not use it |
| **FFmpeg JNI glue** (`jni/ffmpegjni.c`, `ffmpegjni.java`) | global format and codec contexts | open, examine streams, capture a frame, close | `Decoder` |
| **Reading a container** (`jni/libavformat/utils.c`) | the packet queues, probed streams, parsers, the current packet, the position in the file | open, look ahead (`av_find_stream_info`), `av_read_frame`, close | `Demux`, `PacketSource` |
| **libavcodec's worker threads** (`jni/libavcodec/pthread.c`) | the job counter, the batch, the flag `done`, the threads | `avcodec_thread_init`, `execute`, `execute2`, `avcodec_thread_free` | `ThreadPool`, `Executor` |
| SSDP messages, descriptions and XML, host interfaces, utilities | none that a protocol depends on | parse, format, build trees | not modelled |
| the rest of FFmpeg (`jni/libav*`, `jni/libswscale`), views, layouts, assets | - | - | not modelled (third party, or layout) |

How they interact: `main.java` creates the device, whose constructor calls
`start()`. That opens one HTTP server and one search socket per address of the
host and starts a thread for each, announces the device and starts the
advertiser. Every connection the server accepts gets a thread of its own
(`HTTPServerThread`), which dispatches to the description, to SOAP control or
to the subscription handlers. A control request calls
`actionControlReceived` of `main.java`, which sends messages to the UI
thread's `Handler` and sets state variables; setting an evented variable
notifies every subscriber, on the same thread. The UI thread moves the player
and sets state variables as well when the player calls back.

Beside that stands the native library. `ffmpegjni.java` opens a file, asks what
streams it has and has a picture saved from one of them. `ffmpegjni.c` keeps one
format context for that, reads it with libavformat and decodes with libavcodec.
The glue asks libavcodec for one thread; a codec context with more of them has
the pool of `pthread.c`.

What is hard about it:

* **No locks.** `SubscriberList` is a `Vector`, so `size()`, `get`, `add` and
  `remove` are atomic one by one; loops over it are not. `mVideoURL` is a
  public field that every request thread and the UI thread write.
  `Mutex` exists and nobody uses it.
* **Time of check, time of use.** A lookup, an expiry test, a field tested for
  null: each is followed by a use that another thread may have made stale.
* **Failure half way.** Addresses that cannot be bound, subscribers that cannot
  be reached, resource lists in which some entry is refused.
* **Stopping by reference.** A thread ends when it sees that its owner no
  longer refers to it; nobody joins it, and it may be in the middle of a sleep.
* **Packets wait in several places.** Between the file and the reader lie the
  packets held back while a codec is guessed, those read ahead, the current one and
  what a parser has collected. Errors, ends and seeks have to deal with each.
* **One number for several things.** `current_job` of `pthread.c` hands out jobs
  and counts those done; `codecid` of `GetFramePictureAt` is a codec, an error or
  a count.
* **Commands and their effect are on different threads.** `TransportState` is
  set by the HTTP thread, the player starts later on the UI thread.

`PROJECT.json` lists these hazards line by line, each with the properties that
would catch it, or the reason why none does yet.

## 2. Modules

| Module | What it is |
|---|---|
| `EventChannel` | abstract: what eventing promises a subscriber, without threads, lists or network |
| `Eventing` | the service's side of event notification, one action per access to shared state |
| `Eventing_proofs` | the inductive invariant of `Eventing`, the theorems that follow, and that it implements the safety half of `EventChannel` |
| `EventingDelivery_proofs` | to whom events go and with which SEQ |
| `MCEventing` | TLC instances: `_conc`, `_seq`, `_live` |
| `Renderer`, `MCRenderer` | the application; instances `_one`, `_two` |
| `Renderer_proofs` | the inductive invariant of `Renderer` and the theorems that follow |
| `DeviceLifecycle`, `MCDeviceLifecycle` | the device's threads and sockets; instances `_bind`, `_restart`, `_live` |
| `DeviceLifecycle_proofs` | the inductive invariant of `DeviceLifecycle` and the theorems that follow |
| `Control`, `MCControl` | control requests that execute at the same time, on shared argument nodes |
| `Control_proofs` | the inductive invariant of `Control` and the theorems that follow |
| `Executor` | abstract: what `AVCodecContext.execute` promises a codec |
| `ThreadPool`, `MCThreadPool` | the worker threads that implement it; instance `_pool` |
| `ThreadPool_proofs` | the inductive invariant of the pool, and that it is an `Executor` |
| `PacketSource` | abstract: what `av_read_frame` promises the reader of a file |
| `Demux` | how libavformat reads a container |
| `Demux_proofs` | what each operation of `Demux` keeps true; lemmas about concatenations |
| `Decoder`, `MCDecoder` | the native calls of the application, over `Demux`; instances `_media`, `_scan` |
| `Decoder_proofs` | the native calls of any client, on any files, and the container below them |

`PROJECT.json`, "map", names the source lines of each definition.

### 2.1 Eventing

A thread is an HTTP connection thread or the UI thread. `call[t]` is the call
it executes: a program counter and the local variables of the Java methods.
One action is one access to what threads share:

| Code | Actions |
|---|---|
| `StateVariable.setValue` | `SetValue` (reads and compares the old value), `Store` |
| `Service.notifyAllStateVariables` | `SkipVariable`, and the list `todo` of variables still to come |
| `Service.notify(StateVariable)`, first loop | `BeginRound` (reads the size), `ExpireCopy` (one `get`), `ExpireTest`, `ExpireTime` and `ExpireSum` (`isExpired` reads `timeOut`, the subscription's time and `timeOut` again), `ExpireDrop` |
| second loop | `NotifyStart`, `NotifyCopy`, `EndRound` |
| `Service.notify(Subscriber, StateVariable)` | `ReadValue`, `ReadSeq`, `Post` or `PostThrows`, and `TestCount`, `ReadCount`, `incrementNotifyCount` (the test, the read and the write of `notifyCount`) |
| `deviceEventNewSubscriptionRecieved` | `Subscribe` |
| `getSubscriber`, renewal, UNSUBSCRIBE | `Lookup`, `Find`, `NotFound`, `RenewTimeOut`, `RenewTime`, `RenewCount`, `Unsubscribe` |

`Post` has three outcomes: the event arrives and is answered with success, it
arrives and no success comes back, or it does not arrive. If the callback URL
names no port (`Portless`), `InetSocketAddress` throws what `post` does not catch,
and the whole call ends in the middle of its round (`PostThrows`); on Android
the process ends with it, which is the behaviour of the model that stops there. The value of a
`Subscriber` object stays readable after the list dropped it, as in Java,
where a round that copied the reference still holds the object. `received`,
`owed`, `began` and `disturbed` are histories: they record, and no guard reads
them.

The SID is a UUID in the code; `createSID` therefore hands out a SID that was
never issued (its uniqueness is an assumption about the random number, see
section 6). Time is a clock that ticks whenever it likes up to `MaxClock`.

Not in the model: which URL an event is sent to, and the message's text.

`EventChannel` says what this is for. Each subscription is active from
SUBSCRIBE until it is dropped, once and for ever. It is owed each change of an
evented variable. A debt ends when the current value is told, when the
subscription is dropped, or - and this weakness is the code's - when a removal
shifted the list under a round that was copying it. `ImplementsChannel` maps
`active` to the list, `gone` to issued SIDs not in it, and `owed` to the
history of that name.

### 2.2 Renderer

`Renderer` has HTTP threads, each executing one AVTransport action at a time,
and the UI thread. `SetAVTransportURI` goes through the resources of the item
(`StoreImageUrl`, `TakeResource`, `CheckFormat`, ...) and reads and writes the
shared `mVideoURL` exactly where the code does: the name is compared with one
format after another, and each comparison reads the field again (`Compare`, for
`CheckFormat` and, in another order, for `Verify`). `Play` and `Stop` send a
message (`SendCommand`) and then set `TransportState` and `LastChange`
(`SetState`, `SetEvent`, shared with the callbacks). The UI thread handles a
message or a callback at a time; the player is external code, modelled from
its use: `setVideoPath` forgets the old playback, a preparing player becomes
ready or fails, a playing one completes or fails.

A URL is a model value, in the set of one of the four supported formats, of unsupported
formats or of images. DIDL parsing, titles and the download of thumbnails are
abstracted to their outcomes. An exception that nobody catches ends the whole
process on Android: `crashed` records which, and nothing happens after it.

### 2.3 DeviceLifecycle

The controller is the one application thread that calls `start`, `stop` and
`setLeaseTime`; each call is a sequence of actions, in the code's order, that
interleave with the threads left running. A server, a search socket and its
thread are identified by the run that created them and the address. `late`
is a history: the rounds of work that a thread began after it was told to stop.
`OpenServers` keeps what `HTTPServerList.open` really does when an address
cannot be bound: the servers opened so far are closed and cleared, those of
later addresses are added nevertheless, and the call still counts as a success
if any address could be bound.

`HTTPMUSocket.receive` reads its field twice (`CheckSocket`, `UseSocket`), and
`SSDPSearchSocket.stop` closes the socket, then nulls the field, then clears
the thread reference (`ShutSocket`, `ClearSocket`, `DetachSocket`).
`HTTPMUSocket.close` leaves the group first; when that throws (`LeaveFails`, or the
socket never joined) the socket stays open. `SSDPSearchSocketList.close` closes each
socket once more (`CloseAgain`) before the list is cleared. `OpenSearch` lets every
socket join, be bound only, or not be made at all (`Outcomes`).

What the network was told is in two variables. `known` says who last told it, at
each address, of the root device, its type and its services: the controller
(`announce`) or a thread that it has started, which is an advertiser
(`AnnounceAgain`) or a search thread (`PostResponse`: it answers after a wait of up to
MX, and does not look whether the device still runs). `byebye` takes that back.
`udnKnown` is the UDN by itself, which `announce` posts too (`Device.java:1319-1322`)
and which `byebye` never takes back.

### 2.4 Control

`Control` begins where `HTTPServerThread` has read a request and ends where the
answer is built; what the listener then does with the renderer's state is
`Renderer`. An `Action` object is made anew for each request, the XML nodes of
its arguments are not: the value of an argument is in an `ArgumentData` that
hangs on its node. The loops of the code are the phases of a call:

| Code | Phase | Actions of the loop |
|---|---|---|
| `ArgumentList.setReqArgs` | `in` | `missingArgument`, or `getArgumentData`, `setUserData`, `setValue` |
| `Action.clearOutputAgumentValues` | `clear` | `getArgumentData`, `setUserData`, `setValue` |
| the listener reads its arguments | `listen` | `getArgumentData`, `getValue` |
| the listener sets results, or does not | `result` | `LeaveOutput`, or `getArgumentData`, `setValue` |
| `ActionResponse.createResponseNode` | `reply` | `getArgumentData`, `getValue` |

`getArgumentData` and `setUserData` are two steps, as the test for null and the
assignment are: two requests may both create the data of one node.

A request is a number, and that number also stands for every value it brings, for
every result computed for it, and for the `ArgumentData` it creates. So a value
tells where it comes from. `during` is a history: who was executing the
same action at some time during this request. It makes the properties precise:
requests of one action that overlap do mix their inputs and their results (nothing
in the repository says they may not; `Action.lock` and `Mutex` are called by nobody),
but a request takes nothing from one that was over before it began, although the nodes
keep the old values; and one that met no other is served exactly. That no two requests
have a value in common loses nothing: equal values would only hide a mix-up, and no
guard of the code compares them.

A GET of the description sets the node `URLBase` and renders the tree, both
under the device's monitor (`updateURLBase`, `renderDescription`).

Not in the model: an action with no listener, or one the service does not have,
is refused without touching a node; queries (`performQueryListener`), for which
the application always answers false; NMPR mode, which is off and would not set
`URLBase`; embedded devices, of which the renderer has none.

### 2.5 ThreadPool

The caller is the thread that owns the codec context; `caller` says where it
is. A worker's `pc` and locals are those of `worker()`:

| Code | Actions |
|---|---|
| `avcodec_thread_init` | `ThreadInit`, `CreateWorker`, `CreateFails`, `ParkAfterCreate` |
| `avcodec_thread_park_workers` | the states `parked` and `woken`, `ReturnFromPark` |
| `avcodec_thread_execute`, `execute2` | `Execute` |
| `avcodec_thread_free` | `Free`, `Joined` |
| `worker` | `Start` (reads `job_count` before it takes the mutex), `Register`, `WakeUp`, `Exit`, `RunJob`, `Claim`; `Continue` is its inner loop |

A section under the mutex is one step. A broadcast makes sleepers `woken`: they
still have to take the mutex, and other workers may run and claim jobs in
between. A signal that nobody sleeps for is lost. What a job computes, and `rets`, is
left out; a batch is its number of jobs.

`Executor` is the specification: a batch is a set of tasks, each is run once, in any
order, and then the call returns. `ImplementsExecutor` maps a batch to the time between
`Execute` and the return of the caller, `EveryBatchEnds` included.

### 2.6 Demux

A file is its packets (stream and size), the streams whose codec the demuxer
does not name (`probed`), those whose data have to be parsed (`parsed`) and
whether it is an MPEG file. A packet's data are as many units as its size, and
each unit is different from all others, so a unit lost, repeated or out of order
shows. One iteration of a loop of the code is one action; `op` and `at` say which
call is in progress and which function it has reached:

| Code | Actions |
|---|---|
| `av_open_input_file`, `av_close_input_file` | `OpenFile`, `CloseFile` |
| `av_find_stream_info` | `InfoReads`, `InfoEnds`, `InfoFails` |
| `av_estimate_timings_from_pts` | `ScanFlush`, `ScanReads`, `ScanHasReadEnough`, `EndPass` |
| `av_read_packet` | `TakeBuffered`, `PassOn`, `HoldBack`, `GiveUpProbing`, `NotReady` |
| `av_read_frame_internal` | `WantsPacket`, `AsItIs`, `Parse`, `Parsed`, `FlushParser`, `ReturnsError` |
| `av_read_frame` | `ReadFrame` |

Left open, as they depend on the data: when a probe recognises a codec, how much a
parser takes and when it has a frame, when `av_find_stream_info` knows
enough, whether the scan of an MPEG file meets a timestamp, whether the file
has data ready (`NotReady`), and whether a packet can be read (`PacketFails`). An error
before the end of the file has the same effects as the end: it ends the probing, lets
what is held back go, empties the parsers, and is reported then. The next call
reads the packet again: that an error leaves the reader where it was is an assumption
about the protocol and the demuxer.

`PacketSource` is what the reader sees: of each stream something is left, a frame
is the next piece of one stream, "end of file" comes when nothing is left, and an
error leaves everything as it is.
`ImplementsSource` maps what is left to the file without what was returned; so a frame
that comes out of turn, twice, or never is a step that `PacketSource` does not allow.

### 2.7 Decoder

`Decoder` adds the functions of `ffmpegjni.c`. The client makes one call at a
time, any call at any time. `fmtCtx` is the pointer `fmt_ctx`: `Close` frees
what it points to and leaves the pointer (`freed`), so later calls that check it
for null use it nevertheless, and two calls use it before they check
(`ChecksTooLate`). `fault` records that and is the end of the process. `opened`
keeps the codecs `GetFramePictureAt` has opened: nothing closes them, so a
second call for the same stream fails (`OpenCodec`). `job` is the loop of
`GetFramePictureAt` with its counter, `codecid`, and `capturenow`. `told`, `saved`
and `returned` are histories: what the client can know.

## 3. Runs

| Run | Instance | Shows |
|---|---|---|
| `eventing_conc` | 2 threads, 2 SIDs, 1 evented variable, leases of 0 and infinite, clock to 1, no writes | `ListWellFormed`, `ExactCopy`, `DroppedOnlyIfLapsed`, `RefusedOnlyIfGone` under every interleaving |
| `eventing_seq` | 1 thread, 3 SIDs of which 1 has no port, 2 variables of which 1 is evented, leases of 0 and infinite, clock to 1, 2 writes | `SeqInOrder`, `LapsedIsNotNotified`: what holds when calls do not overlap |
| `eventing_live` | 2 fair threads, 2 SIDs, infinite leases, 1 write | `SeqNeverOvertakes`, and `ImplementsChannel`: safety and liveness of the abstract channel |
| `renderer_one` | 1 HTTP thread, 5 kinds of offers | `URIOutcome`, `NoBlankScreen` |
| `renderer_two` | 2 HTTP threads, 2 kinds of offers | `StateFollowsPlayer`, `RowsCatchUp`, `NullNeedsInterference`, `ListedWereTested` |
| `device_bind` | 2 addresses, 1 start, 1 retry; at the second address a search socket may not be made, or not leave its group | `RunningServes`, `NothingLeftOpen`, `GoodbyeIsSaid` with every combination of addresses that fail to bind |
| `device_restart` | 1 address, 2 calls that start threads, no retry, sockets that leave their group | `OneLateRound`, `NothingLeftOpen` with threads of an earlier run still going |
| `device_live` | 1 address, 1 start, fair threads; the search socket may not be made, or not leave its group | `ThreadsEnd` |
| `control` | 2 connections, 3 requests, an action with 2 inputs and 1 output, one with 1 input, 2 addresses | `InputsAreCurrent`, `RepliesAreCurrent`, `AloneIsExact`, `LostAtFirstUseOnly`, `DescriptionNamesItsAddress` |
| `pool` | 3 workers, batches of 1 to 5 jobs, `pthread_create` may fail | `EachJobOnce`, `ThreadNumbersDiffer`, `ImplementsExecutor`, `FreeReturns` |
| `media` | 2 streams, files of 4 or 5 packets, every set of probed streams, 1 or both parsed; MPEG files; 1 failed read | `RawBufferBounded`, `FaultsAreMisuse`, `AcceptedMeansSaved`, `ImplementsSource`, `CallsReturn` |
| `scan` | an MPEG file of 2 packets with a probed stream | violation of `PositionKept` (section 5) |

The type invariant of each module is part of one run. For every property of a
passing run `PROJECT.json` names a mutant: an operator standing next to the
definition it replaces, with a plausible mistake in it ("A mistake: ..." in the
modules), under which the run must fail.

### Bounds, and why they are enough

* Two threads and two subscriptions: every race here is between one loop and
  one other access; a removal needs an element before and one after it. The
  theorems of section 4 remove this bound for the safety properties.
* `MaxCount` stands for `Long.MAX_VALUE`. It is 2 in `eventing_seq`, so that the SEQ
  wraps within the run, to 1 and not to 0; 1 with two threads, where a count that
  becomes the maximum between another's test and its `++` overflows to the least
  long (`PlusOne`).
* `MaxWrites`, `MaxInputs`, `MaxStarts` bound how often the outside world
  acts, and are in the guards of its actions only; each run exceeds what its
  hazard needs (a write during a round, a request during a request and a click,
  a start over a running device).
* `MaxClock` = 1: with leases of 0 ticks one tick lets a subscription lapse, before or
  in the middle of a round.
* `Fickle` are the addresses whose search sockets may fail to be made or to leave the
  group: one of two in `device_bind`, the only one in `device_live`, none in
  `device_restart`, which two starts bring to the edge of what TLC can do.
* Three requests: one that is over when two others overlap, which is what it takes to
  tell an old value from a concurrent one.
* Two addresses: the quirk of `HTTPServerList.open` needs one that fails after
  one that was opened, and the other way round. Two addresses together with two
  starts are beyond TLC's reach, hence two runs.
* Three workers and five jobs: batches smaller than, equal to and larger than
  the pool, and jobs handed out while another worker is still waking up. The theorems
  remove this bound.
* `RawBufferSize` = 4 is exceeded by one of the files while its first packet is held back,
  and `MaxProbePackets` = 2 runs out; `ScanSize` = 2 with two retries makes the
  scan of an MPEG file take several passes. `MaxAgain` = 1: one
  error or one EAGAIN before the end, at any packet and in any call; a file that is
  never ready is a call that never returns. `GiveUp` = 12 leaves the
  counter of pictures two steps (-10 to -12).
* The files of `media` are such that no packets are held back when the scan
  for the last timestamp ends: the MPEG files have known codecs, or are read in one
  pass. `scan` is the other case.
* Symmetry is used over threads and subscriptions in safety runs only.

Deadlock is not checked for `Eventing`, `Renderer` and `Control`, which come to rest when
their bounds are used up, for `ThreadPool`, where a failed creation may leave a
join that never returns (section 5), nor for `Decoder`, which ends with a fault; it is
checked for `DeviceLifecycle`, where `stop` is
always possible when the controller is idle.

### Fairness

`Eventing!FairSpec`: weak fairness of each thread's `Continue`, that is, a call
once begun goes on. That is the Java scheduler running a runnable thread; none
of the steps waits for a lock. `Post` ends because the connection has a
timeout and the peer answers or closes; peers in `Silent`, which accept and
never answer, would block the thread for ever since `HTTPRequest.post` sets no
read timeout. `_live` has none of these, and that is an assumption about the
network which the code does not enforce. No fairness for `Enter`: nobody has to
send a request.

`DeviceLifecycle!FairSpec`: weak fairness of the controller's current call and
of each thread's own steps, but not of `Accept`, `Receive` and `PostResponse`: no client
has to come. `ThreadsEnd` does not need one.

`ThreadPool!FairSpec`: weak fairness of each worker and of the caller inside a
call. The scheduler runs both, jobs end, and a mutex that is released again and again
is got some day; nobody has to submit a batch or to free the pool. The caller's
sleep ends only by the signal: a spurious wake-up is not in the model (section 5).

`Decoder!Spec`: weak fairness of `Work`, the calls in progress: one thread that
runs code without locks. No call has to be made. `CallsReturn` holds for files that
are not ready at most `MaxAgain` times; a source that never is blocks the caller for
ever, as the loop around EAGAIN in the scan says it should.

## 4. Proofs

Two modules prove about eventing, for every finite number of threads and every number of
subscriptions, every state table and every value of the bounds (from the named
assumptions of `Eventing`; that the threads are finitely many, `ThreadsAssumption`,
is used by `SeqIsCovered` alone, which counts them). Two theorems are about one thread:

| Theorem | States |
|---|---|
| `InductiveInvariant` | `Spec => []IInv` |
| `TypeCorrect` | `Spec => []TypeOK` |
| `ListAlwaysWellFormed` | `Spec => []ListWellFormed` |
| `CopyIsExact` | `Spec => []ExactCopy` |
| `RefusalIsJustified` | `Spec => RefusedOnlyIfGone` |
| `OnlyLapsedAreDropped` | `Spec => []DroppedOnlyIfLapsed` |
| `SeqIsCovered` | `Spec => []SeqNeverOvertakes` |
| `SeqsAreConsecutive` | `Spec => SeqInOrder` if there is one thread |
| `NobodyLapsedIsTold` | `Spec => []LapsedIsNotNotified` if there is one thread |
| `ServiceIsChannel` | `Spec => Channel!SafeSpec`, the refinement without its liveness |

None of the safety properties is inductive. Adding a SID keeps the list free
of repetitions only because every listed SID has been issued (`SharedOK`).
A refusal is justified only if, all through the lookup, the SID it is
after lies ahead of the index or nowhere; and that, like the exact copy, is kept by a step
of another thread only because the list can but grow at its end as long as no
removal sets `disturbed` (`ExactScan`). Type correctness needs to know that
`Head(todo)` and `Head(snap)` are there when they are used (`WellShaped`).
`IInv` is the conjunction of these, thread by thread.

The proof has one lemma per group of actions. `LocalStep` covers the actions
that change nothing but their own thread's call, which are most of them:
they need only show that the new call is well shaped and its scan exact.
`RemoveStep` and `SubscribeStep` cover the two ways in which one thread
disturbs what another relies on. `WithoutUnique` and `AppendUnique` say what
`Vector.remove` and `Vector.add` do to a list without repetitions.

`SeqIsCovered` needs one more invariant. `incrementNotifyCount` tests, reads and
writes, so at any moment a subscriber's count may lag behind the events it
received: some threads have posted an event and not counted it, some have read a
count that others have since raised. The invariant is a matter of credits. For
each subscription, the count stored, and every count that a thread has read and
is about to write back increased, plus the number of threads whose event was
answered but which have not yet counted it, is at most the number of events
received. A post pays in one event and takes one credit; a write spends it; a
lost update only lowers the left side. The theorem holds until `received` is
saturated at its bound.

`OnlyLapsedAreDropped` follows a thread through `isExpired` (`LeaseGood`). It reads a
timeout that is not infinite, then the time of the subscription, then a timeout again.
As long as no renewal writes either of them, what it adds up is the lease. A renewal writes
the timeout first and the time last; from the one to the other it is at `retime`, and
afterwards the time is no earlier than the round's beginning (`Renewed`). In both
cases the removal is not held to anything, and the code does lose such renewals.

With several threads SEQs do repeat, and a round may tell a subscription that lapsed before
it: another thread may add or remove elements while the expiry loop runs. So the other two
theorems assume `Threads = {thread}`, which the instance of `eventing_seq` meets and
calls that do not overlap amount to. `SeqsAreConsecutive` follows from `CountInv`:
between calls the count is the SEQ received last or the one after it (`Settled`); the thread
that posts carries the count itself, and the one that counts is the only one behind.
`NobodyLapsedIsTold` follows from `RoundInv`. What the expiry loop has copied and what
is still ahead of its index are together the list; then, while it looks at the copies
from the first to the last, each listed subscription is still to be looked
at or within its lease (`InTime`); so afterwards all are. It matters that
the loop removes by object and not by index, and that the clock never goes back.

`ServiceIsChannel` adds to `IInv` that only listed subscriptions are owed
anything, and only evented variables, and that a call is marked disturbed only
after some subscription has gone. Then SUBSCRIBE maps to `Subscribe`, both kinds
of removal to `Drop`, `Store` to `Publish`, `Post` to `Tell` or a stutter, the
copy of an element that a removal has disturbed to `Skip`, and every other action
leaves the mapped variables as they are.

`Control_proofs` does the same for `Control`, for any set of threads, actions,
arguments and addresses and any number of requests, from `ArgsAssumption` (an argument
is the node of one action, and has one direction), `BoundAssumption` and
`NamesAssumption` (the sentinels are no members):

| Theorem | States |
|---|---|
| `Invariance` | `Spec => []IInv` |
| `TypeCorrect` | `Spec => []TypeOK` |
| `InputsOfItsTime` | `Spec => []InputsAreCurrent` |
| `RepliesOfItsTime` | `Spec => []RepliesAreCurrent` |
| `ExactWhenAlone` | `Spec => []AloneIsExact` |
| `LossIsMutual` | `Spec => []LostAtFirstUseOnly` |
| `RightAddress` | `Spec => []DescriptionNamesItsAddress` |

What a request has read says nothing about what it will read next, so the
properties are not inductive. `IInv` adds where the values come from. A request
that executes has written certain nodes (`Written`, a function of its phase and
of the arguments still to visit). Each of these holds data, and its value comes from
a request it knows, from itself if it is alone (`Fresh`). Whoever writes to
the node later executes the same action at the same time, and then the two know
each other (`Acquainted`): the later of the two put itself into the other's
`during` and the other into its own. The delicate step is `setValue` into data
that another request has meanwhile replaced: the write is lost, and what the node
refers to instead was created, and blanked, by that other request (`Replaced`).
`TouchStep` says what a step that touches a node does to all other requests, and
`LocalStep` and `MoveStep` cover the steps that touch none. For
`RightAddress`, whoever renders is inside the monitor, and `urlBase` is what it set.

`ThreadPool_proofs`, for any number of threads and jobs (`CountAssumption`,
`FaultAssumption`):

| Theorem | States |
|---|---|
| `Invariance` | `Spec => []IInv` |
| `TypeCorrect` | `Spec => []TypeOK` |
| `BatchesEnd` | `Spec => []EachJobOnce` |
| `NumbersDiffer` | `Spec => []ThreadNumbersDiffer` |
| `PoolIsExecutor` | `Spec => E!SafeSpec`, the refinement without its liveness |

The caller is woken when `current_job` is `thread_count + job_count`. That this is
the end of the batch is a counting argument (`Count`): `current_job` is the number of
workers that have registered plus the number of jobs that were run and claimed for. Each
addend has a maximum, so the sum can be that only if all workers are there
and all jobs are done (`Full`, `NobodyActive`). That no job is taken twice needs to know which
jobs are still free: those from `current_job` on, and the first job of each worker that has
not woken up yet (`NotTaken`), which is its own because their numbers differ (`Numbers`).

`Decoder_proofs`, for any files, streams and limits (the assumptions of `Demux` and `Decoder`):

| Theorem | States |
|---|---|
| `Invariance` | `Spec => []IInv` |
| `OnlyMisuseFaults` | `Spec => []FaultsAreMisuse` |
| `TestTellsPicture` | `Spec => []AcceptedMeansSaved` |
| `ContainerInvariance` | `Spec => []DemuxInv` |
| `BufferIsBounded` | `Spec => []RawBufferBounded` |
| `TypeCorrect` | `Spec => []TypeOK` |
| `PositionIsKept` | `Spec /\ [][CleanRewind]_vars => []PositionKept` |
| `SourceIsImplemented` | `Spec /\ [][CleanRewind]_vars => ImplementsSource` |
| `KnownStreamsRewindCleanly` | `Spec => [][CleanRewind]_vars` if `NoneProbedInMPEG` |

What the client was told determines the state of the context (`ToldOfContext`): a
pointer that is null never comes with "succeeded", a freed one only with "closed".
A container is open if and only if the pointer is good, which needs that no step of
libavformat closes it (`StepIsQuiet`). For the returned number, the counter stays in
the range that `Accepted` takes for a picture until the search gives up (`JobOK`).

The rest is about the container, and its lemmas are in `Demux_proofs`, one for each
operation. `DemuxInv` adds to the types where data can wait: which function
each call can have reached (`Places`); that a parser that holds data is asked for it,
that no frame read ahead is empty, and that nothing but `raw_packet_buffer` holds anything
during a scan (`Waiting`). `RawBufferBounded` is kept because another packet is held back
only while the buffer is empty or its head is not ready, which means that there is room left.

`PositionKept` is an equation between concatenations: frames returned, frames read
ahead, what the parser has, the current packet, what is held back and what is unread
are, of each stream, the file. Every operation moves a piece from one of these to
another, and `Regroup` says which ways of putting them together are the same. For the
refinement, what `PacketSource` has left of a stream is then what all of them but the
first hold (`LeftIsAhead`), so a frame returned is its beginning (`Returned`), and
the end is reported when they are empty (`NothingLeft`).

`CleanRewind` is a condition on a behaviour: when the scan of an MPEG file ends and the
reader goes back to the beginning, nothing is held back. The code does not see to it.
Without it both statements are false, as the run `scan` shows (section 5); with it they hold,
so that place is the only one where libavformat loses the position. Files of which
all MPEG streams are known when they are opened meet it (`KnownStreamsRewindCleanly`),
as do those of the run `media`.

Concatenations and sums are folds over a sequence, and what they yield takes an induction over
its length. The library's induction theorems take an operator as a parameter, so
`Demux_proofs` has its own: a set of natural numbers has a least member because
`<` is well-founded (`LeastNatural`), hence a set that contains 0 and each successor
contains all (`Induction`). From it follow that the fold behind `FlattenSeq`
exists and is unique, and what `FlattenSeq` does to a sequence that grows or shrinks at
either end.

`DeviceLifecycle_proofs`, for any list of addresses, any number of port retries and any
number of calls (`AddressesAssumption`, `NumbersAssumption`):

| Theorem | States |
|---|---|
| `Invariance` | `Spec => []IInv` |
| `TypeCorrect` | `Spec => []TypeOK` |
| `LateRoundOnly` | `Spec => []OneLateRound` |
| `ClosedWhenStopped` | `Spec => []NothingLeftOpen` |
| `ServesWhenRunning` | `Spec => []RunningServes` |
| `GoodbyeStands` | `Spec => []GoodbyeIsSaid` |

The last three speak of moments at which no call is in progress, so `IInv` says
how far each call has come: what is closed, and what is still on the list of sockets to
shut in the first pass and in the second (`Closing`, with `FirstPass` and `SecondPass`, which
say how often a socket that is still in its group has failed to leave it by then); at which
addresses the controller's own word still stands (`Silent`); from which place on the
new servers listen, and live (`Serving`). A thread's late round is its
only one because it then stands where it must look at the reference that was
cleared (`LateOnce`), and no stopped thread is ever its owner's again: the threads of
a run that is being started are not running yet (`FreshRun`).
`ServerKeeps` and `SearchKeeps` say that a thread never changes the socket it listens on.

`Renderer_proofs`, for any number of HTTP threads, any resources on offer and any number
of inputs (`UIAssumption`, `NoUrlAssumption`, `OffersAssumption`):

| Theorem | States |
|---|---|
| `Invariance` | `Spec => []IInv` |
| `TypeCorrect` | `Spec => []TypeOK` |
| `NeverBlank` | `Spec => []NoBlankScreen` |
| `RowsFollow` | `Spec => []RowsCatchUp` |
| `StateIsThePlayers` | `Spec => []StateFollowsPlayer` |
| `NullIsInterference` | `Spec => []NullNeedsInterference` |
| `OutcomeOfURI` | `Spec => URIOutcome` |
| `OnlyTestedAreListed` | `Spec => ListedWereTested` |

`IInv` adds three things to the properties. `Shaped`: where each thread can be, and what
it carries there. `OnTrack`: what a `SetAVTransportURI` knows of the shared `mVideoURL` at each
place, as long as no other thread wrote it; this is what its outcome follows from, and why a
missing item needs interference. `Settled`: unless requests overlapped, at
most one command is in flight, and `TransportState` and the player each follow it as soon as
it has got to them, in either order; at rest both have.
Each step moves one thread, and the others can only notice that `mVideoURL` was
written or the list cleared (`Mover`, `Bystander`): the step lemmas (`URISteps`,
`OtherSteps`, `UISteps`) speak of the moving thread alone. `Appended` and `Taken` say what is
in the handler's queue after a message is sent and after one is taken.

`OnlyTestedAreListed` rests on `OnTrack` as well: from the comparison that found a
format on, `mVideoURL` is a supported URL until somebody else writes it, and the
item made with it bears that URL.

Only model-checked is liveness: `CallsReturn`, `FreeReturns`, `ThreadsEnd`, and the fairness
half of `ImplementsChannel` and of `ImplementsExecutor`. Fairness and ENABLED are beyond
the proof system. Every safety property of a passing run is the conclusion of a theorem;
`SeqInOrder`, `LapsedIsNotNotified` and `ImplementsSource` under the
hypothesis named above.

## 5. Where the code and its comments disagree

* `libavformat/avformat.h:933`, "The logical file position is not changed by
  this function; examined packets may be buffered for later processing.":
  for an MPEG file `av_find_stream_info` reads the end of the file, and seeks back
  without emptying `raw_packet_buffer` (`utils.c:1905`). If a stream's codec is
  still unknown by then and the scan takes a second pass, `av_read_frame` returns
  packets of the end first, and again when it gets there. Run `scan`.

Also in the models, though no run is about them:

* `Service.java:744`, "Remove expired subscribers.": the subscriber removed may
  have been renewed (and its control point told so) between the test and the
  removal.
* `main.java:496`, "format is supported": what is listed afterwards is read
  again, three times, from a field that an overlapping request or a click may have changed
  (`ListedWereTested` excludes just that).
* `HTTPMUSocket.java:22`, "Changed receive() to throw IOException.": a socket
  nulled between its two reads makes it throw a NullPointerException, which the
  search thread does not catch and ends by.
* `avformat.h:510`, "Number of packets to buffer for codec probing": while packets of
  another stream wait, `--st->probe_packets` (`utils.c:670`) passes 0, and a negative
  count ends no probing; then only the size of the buffer or the end of the file does.
* `avcodec.h:2580`, "It will return only after finishing all tasks": the caller waits
  once and tests nothing (`pthread.c:83`). POSIX allows a wait to end without a
  signal, and then it does return too early. The model excludes that.
* `pthread.c:173-177`: when a thread cannot be created, a worker that has not
  gone to sleep before the broadcast sleeps afterwards, without a look at `done`, and
  `pthread_join` never returns. `FreeReturns` excludes this case.
* `ffmpegjni.c:404`: nothing calls `avcodec_close`, so `GetFramePictureAt` works once
  per stream and `Open`, and then answers -4.

And, without a line of the repository that promises otherwise: a
round may skip a live subscriber after a removal (`EventChannel!Skip`);
concurrent rounds may repeat a SEQ (`SeqInOrder` holds of one thread only); an
address that cannot be bound silently takes other addresses out of service
(`bindFailed` in `RunningServes`); an advertiser may announce once more, and a search
thread answer, after the device said goodbye (`OneLateRound`, `GoodbyeIsSaid`); the
UDN that was announced by itself is not taken back at all (`udnKnown`); a search socket
that cannot leave its group stays open with its thread (`NothingLeftOpen`,
`ThreadsEnd`); a round that races with a renewal undoes the reset of the SEQ;
durations without a fraction and URLs without a port end the process (`crashed`,
`PostThrows`).

## 6. Assumptions and what is left out

* A SID is unique (`createSID`); in the code that has high probability only.
* Java's memory model: accesses to fields are taken as atomic and in program
  order. Reads of stale values by a CPU are not modelled; a `long` is not torn.
* One thread controls the device's life cycle. The application itself calls only
  `start`, in the device's constructor, and ends with its process; `stop` and
  `setLeaseTime` are the library's interface to any application.
* Responses are not messages of the models: they change no state of the device.
* A thread that sleeps on a condition variable wakes up only when it is signalled.
* Demuxers go on with the first whole packet after a seek; what they may have
  collected before it (the PES packets of `mpegts.c`) is not modelled.
* Parsing and formatting (HTTP, SSDP, XML, DIDL), and layout.

### Not modelled

* *HTTP message layer, SSDP messages, descriptions and XML, host interfaces*: they
  transform text, or enumerate what the host has; what a protocol depends on is in the
  modules that use them. `HTTPRequest.post` is there by its outcomes.
* *Control point*: the application does not use it. A model would have to
  invent how it is driven.
* *FFmpeg beyond `Demux` and `ThreadPool`*: nearly all of the C code of the
  repository are codecs, demuxers, protocols, tables and assembly taken over from the
  FFmpeg project. They are computations on numbers, without processes
  or protocols, and their correctness is a matter of formats that are not in
  the repository. Seeking, muxing and the options GENPTS and `discard` of
  `libavformat/utils.c` are used by nobody here.
* In `ffmpegjni.c`: `GetNextPicture` and `GetFirstPicture`, which `ffmpegjni.java` does not
  declare; the text of answers; the picture file; the memory not freed (the
  packets of the video stream that are passed over before the picture's, line 542; a
  context that a second `Open` forgets); a stream number that is negative; the
  package name in the symbols (`stream2android` in C, `Stream2Android` in Java), because of which the calls are not found at
  this commit; failing allocations.

## 7. Where it stands, and what could follow

1. *Eventing*, the core: checked and proved, the refinement of `EventChannel` included.
2. *SOAP control*: checked and proved. Could follow: the query handler.
3. *Worker threads*: checked and proved, the refinement of `Executor` included.
4. *Native calls and containers*: checked and proved, the refinement of `PacketSource`
   included. Could follow: seeking (`av_seek_frame`) in `Demux`.
5. *Device life cycle* and *Renderer*: checked and proved.
6. *Control point*: device registry, `Disposer`, subscriptions and
   `RenewSubscriber`, and its composition with the service: renewal against expiry
   over a network that loses and delays.
7. *HTTP connections*: the keep-alive loop of `HTTPServerThread`.
