--------------------------- MODULE DeviceLifecycle ---------------------------
(***************************************************************************)
(* The life of a UPnP root device: Device.start(), stop() and              *)
(* setLeaseTime(), called by one thread of the application (the            *)
(* controller), and the threads these start and stop: an HTTPServer and an *)
(* SSDPSearchSocket per bind address, and the Advertiser.                  *)
(*                                                                         *)
(* Each of these threads runs the same kind of loop: while it is still the *)
(* one its owner refers to, it blocks (in accept, in receive, in a sleep)  *)
(* and then does a round of work.  Stopping it clears the reference and    *)
(* closes what it is blocked on; nobody waits for it to end.               *)
(***************************************************************************)
EXTENDS Integers, SequencesExt

CONSTANTS
    Addresses,   \* the addresses of HostInterface.getHostAddress, in order
    FirstPort,   \* HTTP_DEFAULT_PORT
    RetryCount,  \* UPnP.SERVER_RETRY_COUNT
    Fickle,      \* bound: the addresses at which making a search socket, or
                 \* leaving the group it joined, may fail
    MaxStarts    \* bound: calls of start() and setLeaseTime() together

Addrs == ToSet(Addresses)
Runs == 1..MaxStarts            \* what one such call creates
Ids == Runs \X Addrs            \* servers, sockets and their threads

ASSUME AddressesAssumption ==
    /\ Addresses \in Seq(Addrs)
    /\ IsInjective(Addresses)
ASSUME NumbersAssumption ==
    /\ FirstPort \in Nat
    /\ RetryCount \in Nat
    /\ MaxStarts \in Nat \ {0}
ASSUME FickleAssumption == Fickle \subseteq Addrs

VARIABLES
    control,     \* the controller: its operation and where it is
    starts,      \* counts start() and setLeaseTime() calls: the current run
    httpPort,    \* DeviceData.httpPort, which the LOCATION of the device names
    httpList,    \* HTTPServerList: the servers in it
    server,      \* HTTPServer: port, ServerSocket, "is mine", its thread
    searchList,  \* SSDPSearchSocketList
    search,      \* SSDPSearchSocket: MulticastSocket, "is mine", its thread
    running,     \* the device has an Advertiser
    advThread,   \* mThreadObject of the Advertiser: the run that created it
    advertiser,  \* the advertisers' threads
    known,       \* who last told the network that the device (of its UDN, type
                 \* and services) is at an address: "device", the controller,
                 \* or "thread", a thread that it has started
    udnKnown,    \* the addresses at which the network knows the UDN by itself
    bindFailed   \* history: some server of the last open() could not bind

servers == <<httpPort, httpList, server>>
searches == <<searchList, search>>
adverts == <<running, advThread, advertiser>>
told == <<known, udnKnown>>
vars == <<control, starts, servers, searches, adverts, told, bindFailed>>

(* "late" is a history: rounds of work that a thread began after it was    *)
(* told to stop (of no more interest once the thread has ended); "failed"  *)
(* counts how often the socket could not leave the group it had joined.    *)
NoServer == [port |-> 0, sock |-> FALSE, mine |-> FALSE, pc |-> "none", late |-> 0]
NoSearch == [sock |-> "null", mine |-> FALSE, pc |-> "none", late |-> 0, failed |-> 0]
NoAdvertiser == [todo |-> <<>>, pc |-> "none", late |-> 0]

Idle == [op |-> "none", pc |-> "idle", todo |-> <<>>, retry |-> 0]

Init ==
    /\ control = Idle
    /\ starts = 0
    /\ httpPort = FirstPort
    /\ httpList = {}
    /\ server = [i \in Ids |-> NoServer]
    /\ searchList = {}
    /\ search = [i \in Ids |-> NoSearch]
    /\ running = FALSE
    /\ advThread = 0
    /\ advertiser = [r \in Runs |-> NoAdvertiser]
    /\ known = [a \in Addrs |-> "nobody"]
    /\ udnKnown = {}
    /\ bindFailed = FALSE

At(pc) == control.pc = pc
Goto(pc) == control' = [control EXCEPT !.pc = pc]
Loop(pc, todo) == control' = [control EXCEPT !.pc = pc, !.todo = todo]

(* Device.announce(bindAddr) *)
Tell(a, who) ==
    /\ known' = [known EXCEPT ![a] = who]
    /\ udnKnown' = udnKnown \cup {a}

-----------------------------------------------------------------------------
(* stop(doByeBye), with which start() begins *)

(* A mistake: the goodbye is said at the first address only. *)
FirstAddress == SubSeq(Addresses, 1, 1)

GoodbyeTo == Addresses

Begin(op, pc, todo) ==
    /\ At("idle")
    /\ control' = [Idle EXCEPT !.op = op, !.pc = pc, !.todo = todo]

start ==
    /\ Begin("start", "byebye", GoodbyeTo)
    /\ starts < MaxStarts
    /\ starts' = starts + 1
    /\ UNCHANGED <<servers, searches, adverts, told, bindFailed>>

stop ==
    /\ Begin("stop", "byebye", GoodbyeTo)
    /\ UNCHANGED <<starts, servers, searches, adverts, told, bindFailed>>

(* The UDN by itself, which announce() posts, byebye() never takes back. *)
Byebye ==
    /\ At("byebye")
    /\ IF control.todo # <<>>
       THEN /\ known' = [known EXCEPT ![Head(control.todo)] = "nobody"]
            /\ Loop("byebye", Tail(control.todo))
       ELSE /\ Goto("stopServers")
            /\ UNCHANGED known
    /\ UNCHANGED <<starts, servers, searches, adverts, udnKnown, bindFailed>>

StopServers ==
    /\ At("stopServers")
    /\ server' = [i \in Ids |-> IF i \in httpList
                                THEN [server[i] EXCEPT !.mine = FALSE]
                                ELSE server[i]]
    /\ Goto("closeServers")
    /\ UNCHANGED <<starts, httpPort, httpList, searches, adverts, told, bindFailed>>

(* Mistakes: the socket stays open, and its thread blocked; the port is    *)
(* set to "none".                                                          *)
Forgotten(s) == [s EXCEPT !.port = 0]
Unported(s) == [s EXCEPT !.port = -1, !.sock = FALSE]

Closed(s) == [s EXCEPT !.port = 0, !.sock = FALSE]

CloseServers ==
    /\ At("closeServers")
    /\ server' = [i \in Ids |-> IF i \in httpList THEN Closed(server[i])
                                ELSE server[i]]
    /\ httpList' = {}
    /\ Loop("shut", SetToSeq(searchList))
    /\ UNCHANGED <<starts, httpPort, searches, adverts, told, bindFailed>>

(* SSDPSearchSocket.stop: leaveGroup, close, null, then forget the thread. *)
(* A socket that never joined the group cannot leave it, and stays open;   *)
(* so does one whose leaveGroup fails.  SSDPSearchSocketList.close closes  *)
(* once more.                                                              *)
Socket == Head(control.todo)

ShutSocket ==
    /\ control.pc \in {"shut", "shutAgain"}
    /\ control.todo # <<>>
    /\ search' = [search EXCEPT ![Socket].sock = IF @ = "joined" THEN "shut" ELSE @]
    /\ Goto(IF At("shut") THEN "clear" ELSE "clearAgain")
    /\ UNCHANGED <<starts, servers, searchList, adverts, told, bindFailed>>

LeaveFails ==
    /\ control.pc \in {"shut", "shutAgain"}
    /\ control.todo # <<>>
    /\ search[Socket].sock = "joined" /\ Socket[2] \in Fickle
    /\ search' = [search EXCEPT ![Socket].failed = @ + 1]
    /\ Goto(IF At("shut") THEN "clear" ELSE "clearAgain")
    /\ UNCHANGED <<starts, servers, searchList, adverts, told, bindFailed>>

ClearSocket ==
    /\ control.pc \in {"clear", "clearAgain"}
    /\ search' = [search EXCEPT ![Socket].sock = IF @ = "shut" THEN "null" ELSE @]
    /\ IF At("clear") THEN Goto("detach") ELSE Loop("shutAgain", Tail(control.todo))
    /\ UNCHANGED <<starts, servers, searchList, adverts, told, bindFailed>>

DetachSocket ==
    /\ At("detach")
    /\ search' = [search EXCEPT ![Socket].mine = FALSE]
    /\ Loop("shut", Tail(control.todo))
    /\ UNCHANGED <<starts, servers, searchList, adverts, told, bindFailed>>

(* A mistake: what is not closed by now stays open. *)
NoneRemain == <<>>

Remaining == SetToSeq(searchList)

CloseAgain ==
    /\ At("shut")
    /\ control.todo = <<>>
    /\ Loop("shutAgain", Remaining)
    /\ UNCHANGED <<starts, servers, searches, adverts, told, bindFailed>>

(* The list is cleared; then the advertiser is stopped, if there is one. *)
StopAdvertiser ==
    /\ At("shutAgain")
    /\ control.todo = <<>>
    /\ searchList' = {}
    /\ running' = FALSE
    /\ advThread' = 0
    /\ control' = IF control.op = "start" THEN [control EXCEPT !.pc = "open"]
                  ELSE Idle
    /\ UNCHANGED <<starts, servers, search, advertiser, told, bindFailed>>

-----------------------------------------------------------------------------
(* start(), continued *)

(* HTTPServerList.open: an address that cannot be bound closes and clears  *)
(* the servers opened so far; those of later addresses are added still,    *)
(* and the list counts as open if any address could be bound.              *)
Listed(bound) ==
    {Addresses[n] : n \in {n \in 1..Len(Addresses) :
        \A m \in n..Len(Addresses) : Addresses[m] \in bound}}

(* A mistake: the list is cleared, the sockets stay open. *)
AllBound(bound) == bound

StayOpen(bound) == Listed(bound)

(* A mistake: the port is not the one that was tried last. *)
OpenedAtFirstPort(bound, a) ==
    IF a \in StayOpen(bound) THEN [NoServer EXCEPT !.port = FirstPort, !.sock = TRUE]
    ELSE NoServer

OpenedServer(bound, a) ==
    IF a \in StayOpen(bound) THEN [NoServer EXCEPT !.port = httpPort, !.sock = TRUE]
    ELSE NoServer

OpenServers(bound) ==
    /\ At("open")
    /\ bound # {}
    /\ httpList' = {starts} \X Listed(bound)
    /\ server' = [i \in Ids |-> IF i[1] = starts THEN OpenedServer(bound, i[2])
                                ELSE server[i]]
    /\ bindFailed' = (bound # Addrs)
    /\ Goto("startServers")
    /\ UNCHANGED <<starts, httpPort, searches, adverts, told>>

(* None could be bound: the next port, or failure. *)
RetryOpen ==
    /\ At("open")
    /\ IF control.retry < RetryCount
       THEN /\ control' = [control EXCEPT !.retry = @ + 1]
            /\ httpPort' = httpPort + 1
       ELSE /\ control' = Idle
            /\ UNCHANGED httpPort
    /\ UNCHANGED <<starts, httpList, server, searches, adverts, told, bindFailed>>

StartServers ==
    /\ At("startServers")
    /\ server' = [i \in Ids |-> IF i \in httpList
                                THEN [server[i] EXCEPT !.mine = TRUE, !.pc = "run"]
                                ELSE server[i]]
    /\ Goto("openSearch")
    /\ UNCHANGED <<starts, httpPort, httpList, searches, adverts, told, bindFailed>>

(* Making the socket or joining the group may fail, which nobody looks at. *)
Outcomes == {outcome \in [Addrs -> {"joined", "bound", "null"}] :
                \A a \in Addrs : outcome[a] = "null" => a \in Fickle}

OpenSearch(outcome) ==
    /\ At("openSearch")
    /\ searchList' = {starts} \X Addrs
    /\ search' = [i \in Ids |->
                    IF i[1] # starts THEN search[i]
                    ELSE [NoSearch EXCEPT !.sock = outcome[i[2]]]]
    /\ Goto("startSearch")
    /\ UNCHANGED <<starts, servers, adverts, told, bindFailed>>

StartSearch ==
    /\ At("startSearch")
    /\ search' = [i \in Ids |-> IF i \in searchList
                                THEN [search[i] EXCEPT !.mine = TRUE, !.pc = "loop"]
                                ELSE search[i]]
    /\ Loop("announce", Addresses)
    /\ UNCHANGED <<starts, servers, searchList, adverts, told, bindFailed>>

announce ==
    /\ At("announce")
    /\ IF control.todo # <<>>
       THEN /\ Tell(Head(control.todo), "device")
            /\ Loop("announce", Tail(control.todo))
       ELSE /\ Goto("advertise")
            /\ UNCHANGED told
    /\ UNCHANGED <<starts, servers, searches, adverts, bindFailed>>

(* setAdvertiser and its start(), or restart(), which forgets the thread   *)
(* that ran so far.                                                        *)
StartAdvertiser ==
    /\ At("advertise")
    /\ running' = TRUE
    /\ advThread' = starts
    /\ advertiser' = [advertiser EXCEPT ![starts].pc = "loop"]
    /\ control' = Idle
    /\ UNCHANGED <<starts, servers, searches, told, bindFailed>>

setLeaseTime ==
    /\ running
    /\ Begin("setLeaseTime", "announce", Addresses)
    /\ starts < MaxStarts
    /\ starts' = starts + 1
    /\ UNCHANGED <<servers, searches, adverts, told, bindFailed>>

-----------------------------------------------------------------------------
(* HTTPServer.run *)

History(pc, late) == IF pc = "end" THEN 0 ELSE late

Serve(i, pc, late) ==
    /\ server' = [server EXCEPT ![i].pc = pc, ![i].late = History(pc, @ + late)]
    /\ UNCHANGED <<control, starts, httpPort, httpList, searches, adverts, told,
                   bindFailed>>

RunServer(i) ==
    /\ server[i].pc = "run"
    /\ Serve(i, IF server[i].sock THEN "loop" ELSE "end", 0)

TestServer(i) ==
    /\ server[i].pc = "loop"
    /\ Serve(i, IF server[i].mine THEN "accept" ELSE "end", 0)

(* accept() gives a connection, or null if there is no socket any more: a  *)
(* HTTPServerThread is started for either.                                 *)
Late(mine) == IF mine THEN 0 ELSE 1

Accept(i) ==
    /\ server[i].pc = "accept"
    /\ server[i].sock
    /\ Serve(i, "loop", Late(server[i].mine))

AcceptNull(i) ==
    /\ server[i].pc = "accept"
    /\ ~server[i].sock
    /\ Serve(i, "loop", Late(server[i].mine))

(* SSDPSearchSocket.run *)

Listen(i, pc, late) ==
    /\ search' = [search EXCEPT ![i].pc = pc, ![i].late = History(pc, @ + late)]
    /\ UNCHANGED <<control, starts, servers, searchList, adverts, told, bindFailed>>

TestSearch(i) ==
    /\ search[i].pc = "loop"
    /\ Listen(i, IF search[i].mine THEN "check" ELSE "end", 0)

(* receive() reads the field ssdpMultiSock twice: for the test, which ends *)
(* the thread by an IOException, and for the call.                         *)
CheckSocket(i) ==
    /\ search[i].pc = "check"
    /\ Listen(i, IF search[i].sock = "null" THEN "end" ELSE "use", 0)

UseSocket(i) ==
    /\ search[i].pc = "use"
    /\ Listen(i, CASE search[i].sock = "null" -> "dead"
                   [] search[i].sock = "shut" -> "end"
                   [] OTHER -> "receive", 0)

Receive(i) ==
    /\ search[i].pc = "receive"
    /\ search[i].sock \in {"joined", "bound"}
    /\ \E next \in {"answer", "loop"} : Listen(i, next, Late(search[i].mine))

ReceiveFails(i) ==
    /\ search[i].pc = "receive"
    /\ search[i].sock \in {"shut", "null"}
    /\ Listen(i, "end", 0)

(* deviceSearchResponse: as many answers as the search asks for, each of   *)
(* them posted after a wait, whether or not the device still runs.  None   *)
(* of them has the UDN by itself as its USN.                               *)
PostResponse(i) ==
    /\ search[i].pc = "answer"
    /\ known' = [known EXCEPT ![i[2]] = "thread"]
    /\ UNCHANGED <<control, starts, servers, searches, adverts, udnKnown, bindFailed>>

Answered(i) ==
    /\ search[i].pc = "answer"
    /\ Listen(i, "loop", 0)

(* Advertiser.run *)

Advertise(r, a) ==
    /\ advertiser' = [advertiser EXCEPT ![r] = a]
    /\ UNCHANGED <<control, starts, servers, searches, running, advThread, bindFailed>>

(* A mistake: an advertiser that is not the current one goes on. *)
AlwaysRunnable(r) == TRUE

isRunnable(r) == advThread = r

TestAdvertiser(r) ==
    /\ advertiser[r].pc = "loop"
    /\ Advertise(r, IF isRunnable(r) THEN [advertiser[r] EXCEPT !.pc = "sleep"]
                    ELSE [NoAdvertiser EXCEPT !.pc = "end"])
    /\ UNCHANGED told

(* The sleep ends by itself or is interrupted: either way, announce(). *)
WakeUp(r) ==
    /\ advertiser[r].pc = "sleep"
    /\ Advertise(r, [todo |-> Addresses, pc |-> "announce",
                     late |-> advertiser[r].late + Late(advThread = r)])
    /\ UNCHANGED told

AnnounceAgain(r) ==
    /\ advertiser[r].pc = "announce"
    /\ IF advertiser[r].todo # <<>>
       THEN /\ Tell(Head(advertiser[r].todo), "thread")
            /\ Advertise(r, [advertiser[r] EXCEPT !.todo = Tail(@)])
       ELSE /\ Advertise(r, [advertiser[r] EXCEPT !.pc = "loop"])
            /\ UNCHANGED told

-----------------------------------------------------------------------------
Control ==
    \/ Byebye \/ StopServers \/ CloseServers
    \/ ShutSocket \/ LeaveFails \/ ClearSocket \/ DetachSocket \/ CloseAgain
    \/ StopAdvertiser
    \/ \E bound \in SUBSET Addrs : OpenServers(bound)
    \/ RetryOpen \/ StartServers
    \/ \E outcome \in Outcomes : OpenSearch(outcome)
    \/ StartSearch \/ announce \/ StartAdvertiser

Server(i) == RunServer(i) \/ TestServer(i) \/ AcceptNull(i)
Search(i) ==
    \/ TestSearch(i) \/ CheckSocket(i) \/ UseSocket(i) \/ ReceiveFails(i)
    \/ Answered(i)
Adv(r) == TestAdvertiser(r) \/ WakeUp(r) \/ AnnounceAgain(r)

Next ==
    \/ start \/ stop \/ setLeaseTime
    \/ Control
    \/ \E i \in Ids : Server(i) \/ Accept(i) \/ Search(i) \/ Receive(i)
                    \/ PostResponse(i)
    \/ \E r \in Runs : Adv(r)

Spec == Init /\ [][Next]_vars

(* Threads run; whether a client connects or searches, and how many        *)
(* answers it asks for, is up to the client.                               *)
FairSpec ==
    /\ Spec
    /\ WF_vars(Control)
    /\ \A i \in Ids : WF_vars(Server(i)) /\ WF_vars(Search(i))
    /\ \A r \in Runs : WF_vars(Adv(r))

-----------------------------------------------------------------------------
(* Properties *)

(* Every variable holds a value of its type. *)
TypeOK ==
    /\ control \in [op: {"none", "start", "stop", "setLeaseTime"},
                    pc: {"idle", "byebye", "stopServers", "closeServers", "shut",
                         "clear", "detach", "shutAgain", "clearAgain", "open",
                         "startServers", "openSearch", "startSearch", "announce",
                         "advertise"},
                    todo: Seq(Addrs) \cup Seq(Ids), retry: Nat]
    /\ starts \in 0..MaxStarts
    /\ httpPort \in Nat
    /\ httpList \subseteq Ids
    /\ server \in [Ids -> [port: Nat, sock: BOOLEAN, mine: BOOLEAN,
                           pc: {"none", "run", "loop", "accept", "end"}, late: Nat]]
    /\ searchList \subseteq Ids
    /\ search \in [Ids -> [sock: {"null", "joined", "bound", "shut"}, mine: BOOLEAN,
                           pc: {"none", "loop", "check", "use", "receive", "answer",
                                "end", "dead"}, late: Nat, failed: Nat]]
    /\ running \in BOOLEAN
    /\ advThread \in 0..MaxStarts
    /\ advertiser \in [Runs -> [todo: Seq(Addrs),
                                pc: {"none", "loop", "sleep", "announce", "end"},
                                late: Nat]]
    /\ known \in [Addrs -> {"nobody", "device", "thread"}]
    /\ udnKnown \subseteq Addrs
    /\ bindFailed \in BOOLEAN

isRunning == running

(* A device that says it runs serves: on every address, unless one could   *)
(* not be bound when it was opened, with live threads, and on the port     *)
(* that its LOCATION names, however many ports were tried.                 *)
RunningServes ==
    (At("idle") /\ isRunning) =>
        /\ bindFailed \/ {i[2] : i \in httpList} = Addrs
        /\ \A i \in httpList : /\ server[i].sock /\ server[i].mine
                               /\ server[i].pc \in {"run", "loop", "accept"}
                               /\ server[i].port = httpPort

(* No server socket is open that stop() would not close, and a device that *)
(* does not run (never started, stopped, or failed to start) has none, nor *)
(* a search socket in a group, unless the socket failed to leave the group *)
(* both times that it was closed.                                          *)
NothingLeftOpen ==
    /\ \A i \in Ids : server[i].sock => i \in httpList
    /\ (At("idle") /\ ~isRunning) =>
          /\ httpList = {} /\ searchList = {}
          /\ \A i \in Ids : search[i].sock = "joined" => search[i].failed >= 2

(* A thread that was told to stop begins at most one more round of work:   *)
(* one accept() that returns, one packet, one announcement.                *)
OneLateRound ==
    /\ \A i \in Ids : server[i].late <= 1 /\ search[i].late <= 1
    /\ \A r \in Runs : advertiser[r].late <= 1

(* After stop(), or a start() that failed, what the goodbye takes back is  *)
(* believed again only because an advertiser, or a search thread, said so  *)
(* after the goodbye, in a round that stop() does not wait for.  (The UDN  *)
(* by itself is never taken back.)                                         *)
GoodbyeIsSaid ==
    (At("idle") /\ ~isRunning) => \A a \in Addrs : known[a] # "device"

(* Every thread ends that was told to stop, except on a search socket that *)
(* could not leave the group, or never joined it: that one stays open, and *)
(* its thread waits for a packet to come.                                  *)
ThreadsEnd ==
    /\ \A i \in Ids :
          /\ (server[i].pc # "none" /\ ~server[i].mine) ~> (server[i].pc = "end")
          /\ (/\ search[i].pc # "none" /\ ~search[i].mine
              /\ search[i].sock \in {"shut", "null"})
                ~> (search[i].pc \in {"end", "dead"})
    /\ \A r \in Runs :
          (advertiser[r].pc # "none" /\ advThread # r) ~> (advertiser[r].pc = "end")
=============================================================================
