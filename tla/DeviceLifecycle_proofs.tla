------------------------ MODULE DeviceLifecycle_proofs ------------------------
(***************************************************************************)
(* What start(), stop() and setLeaseTime() keep true of a device, for any  *)
(* addresses, any number of port retries and any number of calls.          *)
(*                                                                         *)
(* The properties speak of moments at which no call is in progress; the    *)
(* invariant says how far a call has come: what is closed, forgotten, or   *)
(* made anew, at each place of the controller.                             *)
(***************************************************************************)
EXTENDS DeviceLifecycle, FiniteSetTheorems, SequenceTheorems, TLAPS

(* What the controller still has to go through. *)
TodoOK ==
    /\ control.pc \in {"byebye", "announce"} => control.todo \in Seq(Addrs)
    /\ control.pc \in {"shut", "clear", "detach", "shutAgain", "clearAgain"} =>
          control.todo \in Seq(Ids)
    /\ control.pc \in {"clear", "detach", "clearAgain"} => control.todo # <<>>

(* The current run has no advertiser yet while its start() or              *)
(* setLeaseTime() is in progress, and no later run has one.                *)
FreshRun ==
    /\ \A r \in Runs : r > starts => advertiser[r].pc = "none"
    /\ advThread <= starts
    /\ (control.op \in {"start", "setLeaseTime"} /\ ~At("idle")) =>
          starts \in Runs /\ advThread < starts /\ advertiser[starts].pc = "none"
    /\ control.pc \in {"open", "startServers", "openSearch", "startSearch"} =>
          control.op = "start"
    /\ control.pc \in {"announce", "advertise"} =>
          control.op \in {"start", "setLeaseTime"}

(* A thread with a late round has it behind it, and will see that it was   *)
(* stopped; nobody becomes the owner of an old thread again.               *)
LateOnce ==
    /\ \A i \in Ids :
            \/ server[i].late = 0
            \/ /\ server[i].late = 1
               /\ server[i].pc = "loop" /\ ~server[i].mine
    /\ \A i \in Ids :
            \/ search[i].late = 0
            \/ /\ search[i].late = 1
               /\ search[i].pc \in {"answer", "loop"} /\ ~search[i].mine
    /\ \A r \in Runs :
            \/ advertiser[r].late = 0
            \/ /\ advertiser[r].late = 1
               /\ advertiser[r].pc \in {"announce", "loop"} /\ advThread # r
    /\ At("startServers") => \A i \in httpList : server[i].pc = "none"
    /\ At("startSearch") => \A i \in searchList : search[i].pc = "none"

(* Where the controller is once the servers are closed. *)
ShutPcs == {"shut", "clear", "detach", "shutAgain", "clearAgain", "open"}

(* Search socket s is not in its group, or failed to leave it n times. *)
Tried(s, n) == s.sock = "joined" => s.failed >= n

(* What is open is in a list, and what stop() has passed is closed; a      *)
(* search socket it passes twice.                                          *)
FirstPass ==
    /\ control.pc \in {"shut", "clear", "detach"} =>
          \A i \in Ids : \/ \E n \in 1..Len(control.todo) : control.todo[n] = i
                         \/ Tried(search[i], 1)
    /\ control.pc \in {"clear", "detach"} => Tried(search[Head(control.todo)], 1)

SecondPass ==
    /\ control.pc \in {"shutAgain", "clearAgain"} =>
          \A i \in Ids :
              \/ /\ \E n \in 1..Len(control.todo) : control.todo[n] = i
                 /\ Tried(search[i], 1)
              \/ Tried(search[i], 2)
    /\ control.pc = "clearAgain" => Tried(search[Head(control.todo)], 2)

Closing ==
    /\ \A i \in Ids : server[i].sock => i \in httpList
    /\ \A i \in Ids : i \in searchList \/ Tried(search[i], 2)
    /\ control.pc \in ShutPcs => httpList = {}
    /\ control.pc \in {"open", "startServers", "openSearch"} => searchList = {}
    /\ FirstPass /\ SecondPass
    /\ (At("idle") /\ ~running) => httpList = {} /\ searchList = {}

(* The servers of a device that is being opened, or runs; one that could   *)
(* not be opened does not run.                                             *)
Opened ==
    /\ bindFailed \/ {i[2] : i \in httpList} = Addrs
    /\ \A i \in httpList : server[i].sock /\ server[i].port = httpPort

Serving ==
    /\ At("open") => ~running
    /\ control.pc \in {"startServers", "openSearch", "startSearch", "announce", "advertise"}
       \/ (At("idle") /\ running) => Opened
    /\ control.pc \in {"openSearch", "startSearch", "announce", "advertise"}
       \/ (At("idle") /\ running) =>
          \A i \in httpList :
              server[i].mine /\ server[i].pc \in {"run", "loop", "accept"}

(* Between a goodbye and the next announcement only threads speak. *)
Silent ==
    /\ At("byebye") =>
          \A a \in Addrs : known[a] = "device" =>
              \E n \in 1..Len(control.todo) : control.todo[n] = a
    /\ control.pc \in {"stopServers", "closeServers", "shut", "clear", "detach",
                       "shutAgain", "clearAgain", "open", "startServers", "openSearch",
                       "startSearch"}
       \/ (At("idle") /\ ~running) => \A a \in Addrs : known[a] # "device"

IInv == TypeOK /\ TodoOK /\ FreshRun /\ LateOnce /\ Closing /\ Serving /\ Silent
---------------------------------------------------------------------------
(* Lists                                                                   *)

LEMMA TailKeeps ==
    ASSUME NEW S, NEW s \in Seq(S), s # <<>>
    PROVE  /\ Head(s) \in S
           /\ Tail(s) \in Seq(S)
           /\ \A x \in S : (\E n \in 1..Len(s) : s[n] = x) =>
                 x = Head(s) \/ \E n \in 1..Len(Tail(s)) : Tail(s)[n] = x
<1>1. ASSUME NEW n \in 1..Len(s), n # 1
      PROVE  n - 1 \in 1..Len(Tail(s)) /\ Tail(s)[n - 1] = s[n]
    <2>1. Len(s) \in Nat
        BY LenProperties
    <2>2. n - 1 \in 1..Len(s) - 1 /\ (n - 1) + 1 = n
        BY <1>1, <2>1
    <2> QED BY <2>2, HeadTailProperties
<1>2. Head(s) = s[1]
    OBVIOUS
<1> QED BY <1>1, <1>2

LEMMA AllAddresses ==
    /\ Addresses \in Seq(Addrs)
    /\ IsFiniteSet(Addrs)
    /\ \A a \in Addrs : \E n \in 1..Len(Addresses) : Addresses[n] = a
<1>1. Addresses \in Seq(Addrs)
    BY AddressesAssumption
<1>2. \A a \in Addrs : \E n \in 1..Len(Addresses) : Addresses[n] = a
    BY <1>1 DEF Addrs, ToSet
<1>3. IsFiniteSet(1..Len(Addresses))
    BY <1>1, FS_Interval
<1>4. Addresses \in Surjection(1..Len(Addresses), Addrs)
    BY <1>1, <1>2 DEF Surjection
<1> QED BY <1>1, <1>2, <1>3, <1>4, FS_Surjection

(* CloseServers goes through all sockets in the list. *)
LEMMA AllListed ==
    ASSUME NEW S \in SUBSET Ids
    PROVE  /\ SetToSeq(S) \in Seq(Ids)
           /\ \A i \in S : \E n \in 1..Len(SetToSeq(S)) : SetToSeq(S)[n] = i
<1>1. IsFiniteSet(S)
    <2>1. IsFiniteSet(Runs)
        BY NumbersAssumption, FS_Interval DEF Runs
    <2>2. IsFiniteSet(Ids)
        BY <2>1, AllAddresses, FS_Product DEF Ids
    <2> QED BY <2>2, FS_Subset
<1>2. Cardinality(S) \in Nat /\ ExistsBijection(1..Cardinality(S), S)
    BY <1>1, FS_CardinalityType
<1>3. SetToSeq(S) \in [1..Cardinality(S) -> S] /\ IsInjective(SetToSeq(S))
    <2>1. \E f \in [1..Cardinality(S) -> S] : IsInjective(f)
        BY <1>2 DEF ExistsBijection, Bijection, Injection
    <2> QED BY <2>1 DEF SetToSeq
<1>4. SetToSeq(S) \in Surjection(1..Cardinality(S), S)
    <2>1. /\ IsFiniteSet(1..Cardinality(S))
          /\ Cardinality(1..Cardinality(S)) = Cardinality(S)
        BY <1>2, FS_Interval
    <2>2. SetToSeq(S) \in Injection(1..Cardinality(S), S)
        BY <1>3 DEF Injection
    <2> QED BY <2>1, <2>2, <1>1, FS_Injection
<1>5. SetToSeq(S) \in Seq(Ids) /\ Len(SetToSeq(S)) = Cardinality(S)
    BY <1>2, <1>3
<1> QED BY <1>4, <1>5 DEF Surjection

---------------------------------------------------------------------------
(* Types                                                                   *)

ControlType ==
    [op: {"none", "start", "stop", "setLeaseTime"},
     pc: {"idle", "byebye", "stopServers", "closeServers", "shut",
          "clear", "detach", "shutAgain", "clearAgain", "open", "startServers",
          "openSearch", "startSearch", "announce", "advertise"},
     todo: Seq(Addrs) \cup Seq(Ids), retry: Nat]

ServerType ==
    [port: Nat, sock: BOOLEAN, mine: BOOLEAN,
     pc: {"none", "run", "loop", "accept", "end"}, late: Nat]

SearchType ==
    [sock: {"null", "joined", "bound", "shut"}, mine: BOOLEAN,
     pc: {"none", "loop", "check", "use", "receive", "answer", "end", "dead"}, late: Nat,
     failed: Nat]

AdvertiserType ==
    [todo: Seq(Addrs), pc: {"none", "loop", "sleep", "announce", "end"}, late: Nat]

LEMMA TypeParts ==
    TypeOK <=>
        /\ control \in ControlType
        /\ starts \in 0..MaxStarts /\ httpPort \in Nat
        /\ httpList \subseteq Ids /\ server \in [Ids -> ServerType]
        /\ searchList \subseteq Ids /\ search \in [Ids -> SearchType]
        /\ running \in BOOLEAN /\ advThread \in 0..MaxStarts
        /\ advertiser \in [Runs -> AdvertiserType]
        /\ known \in [Addrs -> {"nobody", "device", "thread"}] /\ udnKnown \subseteq Addrs
        /\ bindFailed \in BOOLEAN
BY DEF TypeOK, ControlType, ServerType, SearchType, AdvertiserType

(* What the threads leave alone. *)
LEMMA ServerFrame ==
    ASSUME NEW i \in Ids, Server(i) \/ Accept(i)
    PROVE  UNCHANGED <<control, starts, httpPort, httpList, searchList, search, running,
                       advThread, advertiser, known, udnKnown, bindFailed>>
BY DEF Server, RunServer, TestServer, AcceptNull, Accept, Serve, searches, adverts, told

LEMMA SearchFrame ==
    ASSUME NEW i \in Ids, Search(i) \/ Receive(i) \/ PostResponse(i)
    PROVE  /\ UNCHANGED <<control, starts, httpPort, httpList, server, searchList, running,
                          advThread, advertiser, udnKnown, bindFailed>>
           /\ known' = known \/ known' = [known EXCEPT ![i[2]] = "thread"]
BY DEF Search, TestSearch, CheckSocket, UseSocket, ReceiveFails, Answered, PostResponse,
       Receive, Listen, servers, searches, adverts, told

LEMMA AdvertiserFrame ==
    ASSUME NEW r \in Runs, Adv(r)
    PROVE  UNCHANGED <<control, starts, httpPort, httpList, server, searchList, search,
                       running, advThread, bindFailed>>
BY DEF Adv, TestAdvertiser, WakeUp, AnnounceAgain, Advertise, servers, searches

LEMMA ControlTypeStep ==
    ASSUME TypeOK, TodoOK, Next
    PROVE  control' \in ControlType
<1> USE DEF ControlType
<1>0. control \in ControlType
    BY TypeParts
<1>1. CASE start \/ stop \/ setLeaseTime
    <2>1. PICK o \in {"start", "stop", "setLeaseTime"}, pc \in {"byebye", "announce"} :
             control' = [Idle EXCEPT !.op = o, !.pc = pc, !.todo = Addresses]
        BY <1>1 DEF start, stop, setLeaseTime, Begin, GoodbyeTo
    <2> QED BY <2>1, AllAddresses DEF Idle
<1>2. CASE Byebye \/ announce
    <2>1. CASE control.todo # <<>>
        <3>1. control.todo \in Seq(Addrs)
            BY <1>2 DEF Byebye, announce, At, TodoOK
        <3>2. Tail(control.todo) \in Seq(Addrs)
            BY <2>1, <3>1, TailKeeps
        <3> QED BY <1>0, <1>2, <2>1, <3>2 DEF Byebye, announce, Loop
    <2>2. CASE control.todo = <<>>
        BY <1>0, <1>2, <2>2 DEF Byebye, announce, Goto
    <2> QED BY <2>1, <2>2
<1>3. CASE StopServers \/ StartServers
    BY <1>0, <1>3 DEF StopServers, StartServers, Goto
<1>4. CASE CloseServers
    <2>1. SetToSeq(searchList) \in Seq(Ids)
        BY TypeParts, AllListed
    <2> QED BY <1>0, <1>4, <2>1 DEF CloseServers, Loop
<1>5. CASE ShutSocket \/ LeaveFails \/ ClearSocket \/ DetachSocket \/ CloseAgain
    <2>1. CASE ShutSocket \/ LeaveFails
        BY <1>0, <2>1 DEF ShutSocket, LeaveFails, Goto
    <2>2. CASE ClearSocket \/ DetachSocket
        <3>1. Tail(control.todo) \in Seq(Ids)
            BY <2>2, TailKeeps DEF ClearSocket, DetachSocket, At, TodoOK
        <3> QED BY <1>0, <2>2, <3>1 DEF ClearSocket, DetachSocket, Goto, Loop
    <2>3. CASE CloseAgain
        <3>1. Remaining \in Seq(Ids)
            BY TypeParts, AllListed DEF Remaining
        <3> QED BY <1>0, <2>3, <3>1 DEF CloseAgain, Loop
    <2> QED BY <1>5, <2>1, <2>2, <2>3
<1>6. CASE StopAdvertiser \/ RetryOpen \/ StartAdvertiser
    <2>1. Idle \in ControlType
        BY DEF Idle
    <2>2. CASE StopAdvertiser \/ StartAdvertiser
        BY <1>0, <2>1, <2>2 DEF StopAdvertiser, StartAdvertiser
    <2>3. CASE RetryOpen
        BY <1>0, <2>1, <2>3 DEF RetryOpen
    <2> QED BY <1>6, <2>2, <2>3
<1>7. CASE (\E bound \in SUBSET Addrs : OpenServers(bound))
           \/ (\E outcome \in Outcomes : OpenSearch(outcome))
    BY <1>0, <1>7 DEF OpenServers, OpenSearch, Goto
<1>8. CASE StartSearch
    BY <1>0, <1>8, AllAddresses DEF StartSearch, Loop
<1>9. CASE \/ \E i \in Ids : Server(i) \/ Accept(i) \/ Search(i) \/ Receive(i)
                  \/ PostResponse(i)
           \/ \E r \in Runs : Adv(r)
    BY <1>0, <1>9, ServerFrame, SearchFrame, AdvertiserFrame
<1> QED BY <1>1, <1>2, <1>3, <1>4, <1>5, <1>6, <1>7, <1>8, <1>9 DEF Next, Control

LEMMA ServerTypeStep ==
    ASSUME TypeOK, FreshRun, Next
    PROVE  httpPort' \in Nat /\ httpList' \subseteq Ids /\ server' \in [Ids -> ServerType]
<1> USE DEF ServerType
<1>0. httpPort \in Nat /\ httpList \subseteq Ids /\ server \in [Ids -> ServerType]
    BY TypeParts
<1>1. CASE StopServers \/ CloseServers
    <2>1. CASE StopServers
        BY <1>0, <2>1 DEF StopServers
    <2>2. CASE CloseServers
        BY <1>0, <2>2 DEF CloseServers, Closed
    <2> QED BY <1>1, <2>1, <2>2
<1>2. ASSUME NEW bound \in SUBSET Addrs, OpenServers(bound)
      PROVE  httpPort' \in Nat /\ httpList' \subseteq Ids /\ server' \in [Ids -> ServerType]
    <2>1. starts \in Runs
        BY <1>2 DEF OpenServers, At, FreshRun
    <2>2. {starts} \X Listed(bound) \subseteq Ids
        BY <2>1, AllAddresses DEF Listed, Ids, Addrs, ToSet
    <2>3. \A a \in Addrs : OpenedServer(bound, a) \in ServerType
        BY <1>0 DEF OpenedServer, NoServer
    <2>4. server' \in [Ids -> ServerType]
        BY <1>0, <1>2, <2>3 DEF OpenServers, Ids
    <2> QED BY <1>0, <1>2, <2>2, <2>4 DEF OpenServers
<1>3. CASE RetryOpen \/ StartServers
    <2>1. CASE RetryOpen
        BY <1>0, <2>1 DEF RetryOpen
    <2>2. CASE StartServers
        BY <1>0, <2>2 DEF StartServers
    <2> QED BY <1>3, <2>1, <2>2
<1>4. ASSUME NEW i \in Ids, Server(i) \/ Accept(i)
      PROVE  httpPort' \in Nat /\ httpList' \subseteq Ids /\ server' \in [Ids -> ServerType]
    BY <1>0, <1>4 DEF Server, RunServer, TestServer, AcceptNull, Accept, Serve, History, Late
<1>5. CASE \/ \E i \in Ids : Search(i) \/ Receive(i) \/ PostResponse(i)
           \/ \E r \in Runs : Adv(r)
    BY <1>0, <1>5, SearchFrame, AdvertiserFrame
<1>6. CASE \/ start \/ stop \/ setLeaseTime \/ Byebye \/ ShutSocket \/ LeaveFails
           \/ ClearSocket \/ DetachSocket \/ CloseAgain \/ StopAdvertiser
           \/ (\E outcome \in Outcomes : OpenSearch(outcome))
           \/ StartSearch \/ announce \/ StartAdvertiser
    BY <1>0, <1>6 DEF start, stop, setLeaseTime, Byebye, ShutSocket, LeaveFails,
        ClearSocket, DetachSocket, CloseAgain, StopAdvertiser, OpenSearch, StartSearch,
        announce, StartAdvertiser, servers
<1> QED BY <1>1, <1>2, <1>3, <1>4, <1>5, <1>6 DEF Next, Control

LEMMA SearchTypeStep ==
    ASSUME TypeOK, FreshRun, Next
    PROVE  searchList' \subseteq Ids /\ search' \in [Ids -> SearchType]
<1> USE DEF SearchType
<1>0. searchList \subseteq Ids /\ search \in [Ids -> SearchType]
    BY TypeParts
<1>1. CASE ShutSocket \/ LeaveFails \/ ClearSocket \/ DetachSocket
    <2>1. CASE ShutSocket
        BY <1>0, <2>1 DEF ShutSocket
    <2>2. CASE ClearSocket
        BY <1>0, <2>2 DEF ClearSocket
    <2>3. CASE DetachSocket
        BY <1>0, <2>3 DEF DetachSocket
    <2>4. CASE LeaveFails
        <3>1. \A i \in Ids : [search[i] EXCEPT !.failed = search[i].failed + 1] \in SearchType
            BY <1>0
        <3> HIDE DEF SearchType
        <3> QED BY <1>0, <2>4, <3>1 DEF LeaveFails
    <2> QED BY <1>1, <2>1, <2>2, <2>3, <2>4
<1>2. CASE StopAdvertiser
    BY <1>0, <1>2 DEF StopAdvertiser
<1>3. ASSUME NEW outcome \in Outcomes, OpenSearch(outcome)
      PROVE  searchList' \subseteq Ids /\ search' \in [Ids -> SearchType]
    <2>1. {starts} \X Addrs \subseteq Ids
        BY <1>3 DEF OpenSearch, At, FreshRun, Ids
    <2>2. outcome \in [Addrs -> {"joined", "bound", "null"}]
        BY DEF Outcomes
    <2>3. \A a \in Addrs : [NoSearch EXCEPT !.sock = outcome[a]] \in SearchType
        BY <2>2 DEF NoSearch
    <2>4. search' \in [Ids -> SearchType]
        <3>1. \A i \in Ids : i[2] \in Addrs
            BY DEF Ids
        <3> HIDE DEF SearchType
        <3> QED BY <1>0, <1>3, <2>3, <3>1 DEF OpenSearch
    <2> QED BY <1>3, <2>1, <2>4 DEF OpenSearch
<1>4. CASE StartSearch
    BY <1>0, <1>4 DEF StartSearch
<1>5. ASSUME NEW i \in Ids, Search(i) \/ Receive(i) \/ PostResponse(i)
      PROVE  searchList' \subseteq Ids /\ search' \in [Ids -> SearchType]
    BY <1>0, <1>5 DEF Search, TestSearch, CheckSocket, UseSocket, ReceiveFails, Answered,
        PostResponse,
                      Receive, Listen, History, Late, searches
<1>6. CASE \/ \E i \in Ids : Server(i) \/ Accept(i)
           \/ \E r \in Runs : Adv(r)
    BY <1>0, <1>6, ServerFrame, AdvertiserFrame
<1>7. CASE \/ start \/ stop \/ setLeaseTime \/ Byebye \/ StopServers \/ CloseServers
           \/ (\E bound \in SUBSET Addrs : OpenServers(bound)) \/ RetryOpen \/ StartServers
           \/ announce \/ StartAdvertiser \/ CloseAgain
    BY <1>0, <1>7 DEF start, stop, setLeaseTime, Byebye, StopServers, CloseServers,
        OpenServers, RetryOpen, StartServers, announce, StartAdvertiser, CloseAgain, searches
<1> QED BY <1>1, <1>2, <1>3, <1>4, <1>5, <1>6, <1>7 DEF Next, Control

LEMMA AdvertiserTypeStep ==
    ASSUME TypeOK, FreshRun, Next
    PROVE  /\ running' \in BOOLEAN /\ advThread' \in 0..MaxStarts
           /\ advertiser' \in [Runs -> AdvertiserType]
<1> USE DEF AdvertiserType
<1>0. /\ running \in BOOLEAN /\ advThread \in 0..MaxStarts /\ starts \in 0..MaxStarts
      /\ MaxStarts \in Nat
      /\ advertiser \in [Runs -> AdvertiserType]
    BY TypeParts, NumbersAssumption
<1>1. CASE Byebye \/ announce
    BY <1>0, <1>1 DEF Byebye, announce, adverts
<1>2. CASE StopAdvertiser
    <2>1. 0 \in 0..MaxStarts
        BY <1>0
    <2>2. /\ running' = FALSE /\ advThread' = 0
          /\ UNCHANGED advertiser
        BY <1>2 DEF StopAdvertiser
    <2> QED BY <1>0, <2>1, <2>2
<1>3. CASE StartAdvertiser
    BY <1>0, <1>3 DEF StartAdvertiser
<1>4. ASSUME NEW r \in Runs, Adv(r)
      PROVE  /\ running' \in BOOLEAN /\ advThread' \in 0..MaxStarts
             /\ advertiser' \in [Runs -> AdvertiserType]
    <2>1. advertiser' \in [Runs -> AdvertiserType]
        <3>1. advertiser[r] \in AdvertiserType
            BY <1>0
        <3>2. CASE TestAdvertiser(r)
            <4>1. [advertiser[r] EXCEPT !.pc = "sleep"] \in AdvertiserType
                BY <3>1
            <4>2. [NoAdvertiser EXCEPT !.pc = "end"] \in AdvertiserType
                BY EmptySeq DEF NoAdvertiser
            <4> QED BY <1>0, <3>2, <4>1, <4>2 DEF TestAdvertiser, Advertise
        <3>3. CASE WakeUp(r)
            BY <1>0, <3>1, <3>3, AllAddresses DEF WakeUp, Advertise, Late
        <3>4. CASE AnnounceAgain(r)
            <4>1. CASE advertiser[r].todo # <<>>
                <5>1. Tail(advertiser[r].todo) \in Seq(Addrs)
                    BY <3>1, <4>1, TailKeeps
                <5>2. [advertiser[r] EXCEPT !.todo = Tail(advertiser[r].todo)]
                         \in AdvertiserType
                    BY <3>1, <5>1
                <5>3. advertiser' =
                         [advertiser EXCEPT ![r] =
                            [advertiser[r] EXCEPT !.todo = Tail(advertiser[r].todo)]]
                    BY <3>4, <4>1 DEF AnnounceAgain, Advertise
                <5> HIDE DEF AdvertiserType
                <5> QED BY <1>0, <5>2, <5>3
            <4>2. CASE advertiser[r].todo = <<>>
                <5>1. [advertiser[r] EXCEPT !.pc = "loop"] \in AdvertiserType
                    BY <3>1
                <5>2. advertiser' =
                         [advertiser EXCEPT ![r] = [advertiser[r] EXCEPT !.pc = "loop"]]
                    BY <3>4, <4>2 DEF AnnounceAgain, Advertise
                <5> HIDE DEF AdvertiserType
                <5> QED BY <1>0, <5>1, <5>2
            <4> QED BY <4>1, <4>2
        <3> QED BY <1>4, <3>2, <3>3, <3>4 DEF Adv
    <2> QED BY <1>0, <1>4, <2>1, AdvertiserFrame
<1>5. CASE \E i \in Ids : Server(i) \/ Accept(i) \/ Search(i) \/ Receive(i)
               \/ PostResponse(i)
    BY <1>0, <1>5, ServerFrame, SearchFrame
<1>6. CASE \/ start \/ stop \/ setLeaseTime \/ StopServers \/ CloseServers
           \/ ShutSocket \/ LeaveFails \/ ClearSocket \/ DetachSocket \/ CloseAgain
           \/ (\E bound \in SUBSET Addrs : OpenServers(bound)) \/ RetryOpen \/ StartServers
           \/ (\E outcome \in Outcomes : OpenSearch(outcome)) \/ StartSearch
    BY <1>0, <1>6 DEF start, stop, setLeaseTime, StopServers, CloseServers, ShutSocket,
        LeaveFails, CloseAgain, ClearSocket, DetachSocket, OpenServers, RetryOpen,
        StartServers, OpenSearch,
        StartSearch, adverts
<1> QED BY <1>1, <1>2, <1>3, <1>4, <1>5, <1>6 DEF Next, Control

(* Who is told of which address. *)
LEMMA ToldTypeStep ==
    ASSUME TypeOK, TodoOK, Next
    PROVE  known' \in [Addrs -> {"nobody", "device", "thread"}] /\ udnKnown' \subseteq Addrs
<1>0. /\ control \in ControlType /\ advertiser \in [Runs -> AdvertiserType]
      /\ known \in [Addrs -> {"nobody", "device", "thread"}] /\ udnKnown \subseteq Addrs
    BY TypeParts
<1>1. ASSUME UNCHANGED <<known, udnKnown>>
      PROVE  known' \in [Addrs -> {"nobody", "device", "thread"}] /\ udnKnown' \subseteq Addrs
    BY <1>0, <1>1
<1>2. CASE Byebye \/ announce
    <2>1. control.todo # <<>> => Head(control.todo) \in Addrs
        BY <1>2, TailKeeps DEF Byebye, announce, At, TodoOK
    <2> QED BY <1>0, <1>2, <2>1 DEF Byebye, announce, Tell, told
<1>3. ASSUME NEW r \in Runs, Adv(r)
      PROVE  known' \in [Addrs -> {"nobody", "device", "thread"}] /\ udnKnown' \subseteq Addrs
    <2>1. advertiser[r].todo # <<>> => Head(advertiser[r].todo) \in Addrs
        BY <1>0, TailKeeps DEF AdvertiserType
    <2> QED BY <1>0, <1>3, <2>1 DEF Adv, TestAdvertiser, WakeUp, AnnounceAgain, Tell, told
<1>4. CASE \E i \in Ids : Server(i) \/ Accept(i) \/ Search(i) \/ Receive(i)
                \/ PostResponse(i)
    BY <1>0, <1>4, ServerFrame, SearchFrame
<1>5. CASE start \/ stop \/ setLeaseTime
    BY <1>1, <1>5 DEF start, stop, setLeaseTime, told
<1>6. CASE \/ StopServers \/ CloseServers \/ ShutSocket \/ LeaveFails \/ ClearSocket
           \/ DetachSocket \/ CloseAgain \/ StopAdvertiser
           \/ (\E bound \in SUBSET Addrs : OpenServers(bound)) \/ RetryOpen \/ StartServers
           \/ (\E outcome \in Outcomes : OpenSearch(outcome)) \/ StartSearch
           \/ StartAdvertiser
    BY <1>1, <1>6 DEF StopServers, CloseServers, ShutSocket, LeaveFails, ClearSocket,
        DetachSocket, CloseAgain, StopAdvertiser, OpenServers, RetryOpen, StartServers,
        OpenSearch, StartSearch, StartAdvertiser, told
<1> QED BY <1>2, <1>3, <1>4, <1>5, <1>6 DEF Next, Control

LEMMA OtherTypeStep ==
    ASSUME TypeOK, Next
    PROVE  starts' \in 0..MaxStarts /\ bindFailed' \in BOOLEAN
<1>0. starts \in 0..MaxStarts /\ bindFailed \in BOOLEAN /\ MaxStarts \in Nat
    BY TypeParts, NumbersAssumption
<1>1. CASE start \/ stop \/ setLeaseTime
    BY <1>0, <1>1 DEF start, stop, setLeaseTime
<1>2. CASE Control
    BY <1>0, <1>2 DEF Control, Byebye, StopServers, CloseServers, ShutSocket, LeaveFails,
        ClearSocket, DetachSocket, CloseAgain, StopAdvertiser, OpenServers, RetryOpen,
        StartServers, OpenSearch,
        StartSearch, announce, StartAdvertiser
<1>3. CASE \/ \E i \in Ids : Server(i) \/ Accept(i) \/ Search(i) \/ Receive(i)
                  \/ PostResponse(i)
           \/ \E r \in Runs : Adv(r)
    BY <1>0, <1>3, ServerFrame, SearchFrame, AdvertiserFrame
<1> QED BY <1>1, <1>2, <1>3 DEF Next

LEMMA TypeStep == TypeOK /\ TodoOK /\ FreshRun /\ Next => TypeOK'
<1> SUFFICES ASSUME TypeOK, TodoOK, FreshRun, Next
             PROVE  TypeOK'
    OBVIOUS
<1>1. /\ control' \in ControlType
      /\ starts' \in 0..MaxStarts /\ httpPort' \in Nat
      /\ httpList' \subseteq Ids /\ server' \in [Ids -> ServerType]
      /\ searchList' \subseteq Ids /\ search' \in [Ids -> SearchType]
      /\ running' \in BOOLEAN /\ advThread' \in 0..MaxStarts
      /\ advertiser' \in [Runs -> AdvertiserType]
      /\ known' \in [Addrs -> {"nobody", "device", "thread"}] /\ udnKnown' \subseteq Addrs
      /\ bindFailed' \in BOOLEAN
    BY ControlTypeStep, ServerTypeStep, SearchTypeStep, AdvertiserTypeStep, ToldTypeStep,
       OtherTypeStep
<1> QED BY <1>1 DEF TypeOK, ControlType, ServerType, SearchType, AdvertiserType
---------------------------------------------------------------------------
(* The invariant, part by part                                             *)

LEMMA TodoStep ==
    ASSUME TypeOK, TodoOK, Closing, Next
    PROVE  TodoOK'
<1>0. control \in ControlType /\ searchList \subseteq Ids
    BY TypeParts
<1> USE <1>0 DEF TodoOK, ControlType, At
<1>1. CASE start \/ stop \/ setLeaseTime
    BY <1>1, AllAddresses DEF start, stop, setLeaseTime, Begin, Idle, GoodbyeTo
<1>2. CASE Byebye \/ announce
    <2>1. control.todo \in Seq(Addrs)
        BY <1>2 DEF Byebye, announce
    <2>2. control.todo # <<>> => Tail(control.todo) \in Seq(Addrs)
        BY <2>1, TailKeeps
    <2> QED BY <1>2, <2>1, <2>2 DEF Byebye, announce, Goto, Loop
<1>3. CASE StopServers \/ StartServers
    BY <1>3 DEF StopServers, StartServers, Goto
<1>4. CASE CloseServers
    <2>1. SetToSeq(searchList) \in Seq(Ids)
        BY AllListed
    <2> QED BY <1>4, <2>1 DEF CloseServers, Loop
<1>5. CASE ShutSocket \/ LeaveFails
    BY <1>5 DEF ShutSocket, LeaveFails, Goto
<1>6. CASE ClearSocket \/ DetachSocket \/ CloseAgain
    <2>1. CASE ClearSocket \/ DetachSocket
        <3>1. control.todo \in Seq(Ids) /\ control.todo # <<>>
            BY <2>1 DEF ClearSocket, DetachSocket
        <3>2. Tail(control.todo) \in Seq(Ids)
            BY <3>1, TailKeeps
        <3> QED BY <2>1, <3>1, <3>2 DEF ClearSocket, DetachSocket, Goto, Loop
    <2>2. CASE CloseAgain
        <3>1. Remaining \in Seq(Ids)
            BY AllListed DEF Remaining
        <3> QED BY <2>2, <3>1 DEF CloseAgain, Loop
    <2> QED BY <1>6, <2>1, <2>2
<1>7. CASE StopAdvertiser \/ RetryOpen \/ StartAdvertiser
    BY <1>7 DEF StopAdvertiser, RetryOpen, StartAdvertiser, Idle
<1>8. CASE (\E bound \in SUBSET Addrs : OpenServers(bound))
           \/ (\E outcome \in Outcomes : OpenSearch(outcome))
    BY <1>8 DEF OpenServers, OpenSearch, Goto
<1>9. CASE StartSearch
    BY <1>9, AllAddresses DEF StartSearch, Loop
<1>10. CASE \/ \E i \in Ids : Server(i) \/ Accept(i) \/ Search(i) \/ Receive(i)
                   \/ PostResponse(i)
            \/ \E r \in Runs : Adv(r)
    BY <1>10, ServerFrame, SearchFrame, AdvertiserFrame
<1> QED BY <1>1, <1>2, <1>3, <1>4, <1>5, <1>6, <1>7, <1>8, <1>9, <1>10 DEF Next, Control

LEMMA FreshStep ==
    ASSUME TypeOK, FreshRun, Next
    PROVE  FreshRun'
<1>0. /\ control \in ControlType /\ starts \in 0..MaxStarts /\ MaxStarts \in Nat
      /\ advThread \in 0..MaxStarts /\ advertiser \in [Runs -> AdvertiserType]
    BY TypeParts, NumbersAssumption
<1> USE <1>0 DEF FreshRun, ControlType, At
<1>1. CASE start
    BY <1>1 DEF start, Begin, Idle, adverts, Runs
<1>2. CASE stop
    BY <1>2 DEF stop, Begin, Idle, adverts
<1>3. CASE setLeaseTime
    BY <1>3 DEF setLeaseTime, Begin, Idle, adverts, Runs
<1>4. CASE \/ Byebye \/ StopServers \/ CloseServers \/ ShutSocket \/ LeaveFails
           \/ ClearSocket \/ DetachSocket \/ CloseAgain
    BY <1>4 DEF Byebye, StopServers, CloseServers, ShutSocket, LeaveFails, ClearSocket,
                DetachSocket, CloseAgain, Goto, Loop, adverts
<1>5. CASE StopAdvertiser
    BY <1>5 DEF StopAdvertiser, Idle, Runs
<1>6. CASE (\E bound \in SUBSET Addrs : OpenServers(bound)) \/ RetryOpen \/ StartServers
    <2>1. CASE (\E bound \in SUBSET Addrs : OpenServers(bound)) \/ StartServers
        BY <2>1 DEF OpenServers, StartServers, Goto, adverts
    <2>2. CASE RetryOpen
        BY <2>2 DEF RetryOpen, Idle, adverts
    <2> QED BY <1>6, <2>1, <2>2
<1>7. CASE (\E outcome \in Outcomes : OpenSearch(outcome)) \/ StartSearch \/ announce
    BY <1>7 DEF OpenSearch, StartSearch, announce, Goto, Loop, adverts
<1>8. CASE StartAdvertiser
    BY <1>8 DEF StartAdvertiser, Idle, Runs
<1>9. CASE \E i \in Ids : Server(i) \/ Accept(i) \/ Search(i) \/ Receive(i)
               \/ PostResponse(i)
    BY <1>9, ServerFrame, SearchFrame
<1>10. ASSUME NEW r \in Runs, Adv(r)
       PROVE  FreshRun'
    <2>1. advertiser[r].pc # "none" /\ \A q \in Runs : q # r => advertiser'[q] = advertiser[q]
        BY <1>10 DEF Adv, TestAdvertiser, WakeUp, AnnounceAgain, Advertise
    <2>2. \A q \in Runs : advertiser[q].pc = "none" => advertiser'[q].pc = "none"
        BY <2>1
    <2> QED BY <1>10, <2>2, AdvertiserFrame
<1> QED BY <1>1, <1>2, <1>3, <1>4, <1>5, <1>6, <1>7, <1>8, <1>9, <1>10 DEF Next, Control

LEMMA ServerLate ==
    ASSUME TypeOK, FreshRun, LateOnce, Next
    PROVE  /\ \A i \in Ids :
                \/ server'[i].late = 0
                \/ /\ server'[i].late = 1
                   /\ server'[i].pc = "loop" /\ ~server'[i].mine
           /\ control'.pc = "startServers" => \A i \in httpList' : server'[i].pc = "none"
<1> DEFINE Late1(s) == s.late = 0 \/ (s.late = 1 /\ s.pc = "loop" /\ ~s.mine)
<1>0. /\ control \in ControlType /\ server \in [Ids -> ServerType] /\ httpList \subseteq Ids
      /\ \A i \in Ids : Late1(server[i])
      /\ control.pc = "startServers" => \A i \in httpList : server[i].pc = "none"
    BY TypeParts DEF LateOnce, At
<1> SUFFICES /\ \A i \in Ids : Late1(server'[i])
             /\ control'.pc = "startServers" => \A i \in httpList' : server'[i].pc = "none"
    OBVIOUS
<1> USE <1>0 DEF ControlType, ServerType, At
<1>1. CASE StopServers \/ CloseServers
    <2>1. control'.pc # "startServers"
        BY <1>1 DEF StopServers, CloseServers, Goto, Loop
    <2>2. \A i \in Ids : /\ server'[i].late = server[i].late
                         /\ server'[i].pc = server[i].pc
                         /\ server'[i].mine => server[i].mine
        <3>1. CASE StopServers
            BY <3>1 DEF StopServers
        <3>2. CASE CloseServers
            BY <3>2 DEF CloseServers, Closed
        <3> QED BY <1>1, <3>1, <3>2
    <2> QED BY <2>1, <2>2
<1>2. ASSUME NEW bound \in SUBSET Addrs, OpenServers(bound)
      PROVE  /\ \A i \in Ids : Late1(server'[i])
             /\ control'.pc = "startServers" => \A i \in httpList' : server'[i].pc = "none"
    <2>1. \A i \in Ids : IF i[1] = starts THEN server'[i].late = 0 /\ server'[i].pc = "none"
                                            ELSE server'[i] = server[i]
        BY <1>2 DEF OpenServers, OpenedServer, NoServer
    <2>2. \A i \in httpList' : i \in Ids /\ i[1] = starts
        BY <1>2, ServerTypeStep DEF OpenServers
    <2> QED BY <2>1, <2>2
<1>3. CASE StartServers
    BY <1>3 DEF StartServers, Goto
<1>4. ASSUME NEW i \in Ids, Server(i) \/ Accept(i)
      PROVE  /\ \A j \in Ids : Late1(server'[j])
             /\ control'.pc = "startServers" => \A j \in httpList' : server'[j].pc = "none"
    <2>1. \A j \in Ids : j # i => server'[j] = server[j]
        BY <1>4 DEF Server, RunServer, TestServer, AcceptNull, Accept, Serve
    <2>2. server[i].pc # "none"
        BY <1>4 DEF Server, RunServer, TestServer, AcceptNull, Accept
    <2>3. Late1(server'[i])
        <3>1. CASE RunServer(i) \/ TestServer(i)
            BY <3>1 DEF RunServer, TestServer, Serve, History
        <3>2. CASE AcceptNull(i) \/ Accept(i)
            BY <3>2 DEF AcceptNull, Accept, Serve, History, Late
        <3> QED BY <1>4, <3>1, <3>2 DEF Server
    <2>4. control' = control /\ httpList' = httpList
        BY <1>4, ServerFrame
    <2>5. control.pc = "startServers" => i \notin httpList
        BY <2>2
    <2> HIDE DEF Late1
    <2> QED BY <2>1, <2>3, <2>4, <2>5
<1>5. CASE \/ \E i \in Ids : Search(i) \/ Receive(i) \/ PostResponse(i)
           \/ \E r \in Runs : Adv(r)
    BY <1>5, SearchFrame, AdvertiserFrame
<1>6. CASE start \/ stop \/ setLeaseTime
    BY <1>6 DEF start, stop, setLeaseTime, Begin, Idle, servers
<1>7. CASE \/ Byebye \/ ShutSocket \/ LeaveFails \/ ClearSocket \/ DetachSocket
           \/ CloseAgain \/ StopAdvertiser
           \/ RetryOpen \/ (\E outcome \in Outcomes : OpenSearch(outcome))
           \/ StartSearch \/ announce \/ StartAdvertiser
    <2>1. control'.pc # "startServers"
        <3>1. CASE \/ Byebye \/ ShutSocket \/ LeaveFails \/ ClearSocket \/ DetachSocket
                   \/ CloseAgain \/ announce
            BY <3>1 DEF Byebye, ShutSocket, LeaveFails, ClearSocket, DetachSocket, CloseAgain,
                announce, Goto, Loop
        <3>2. CASE StopAdvertiser \/ RetryOpen \/ StartAdvertiser
            BY <3>2 DEF StopAdvertiser, RetryOpen, StartAdvertiser, Idle
        <3>3. CASE (\E outcome \in Outcomes : OpenSearch(outcome)) \/ StartSearch
            BY <3>3 DEF OpenSearch, StartSearch, Goto, Loop
        <3> QED BY <1>7, <3>1, <3>2, <3>3
    <2>2. server' = server
        BY <1>7 DEF Byebye, ShutSocket, LeaveFails, ClearSocket, DetachSocket, CloseAgain,
            StopAdvertiser, RetryOpen, OpenSearch, StartSearch, announce, StartAdvertiser,
            servers
    <2> QED BY <2>1, <2>2
<1> QED BY <1>1, <1>2, <1>3, <1>4, <1>5, <1>6, <1>7 DEF Next, Control

LEMMA SearchLate ==
    ASSUME TypeOK, FreshRun, LateOnce, Next
    PROVE  /\ \A i \in Ids :
                \/ search'[i].late = 0
                \/ /\ search'[i].late = 1
                   /\ search'[i].pc \in {"answer", "loop"} /\ ~search'[i].mine
           /\ control'.pc = "startSearch" => \A i \in searchList' : search'[i].pc = "none"
<1> DEFINE Late1(s) ==
               s.late = 0 \/ (s.late = 1 /\ s.pc \in {"answer", "loop"} /\ ~s.mine)
<1>0. /\ control \in ControlType /\ search \in [Ids -> SearchType]
      /\ searchList \subseteq Ids
      /\ \A i \in Ids : Late1(search[i])
      /\ control.pc = "startSearch" => \A i \in searchList : search[i].pc = "none"
    BY TypeParts DEF LateOnce, At
<1> SUFFICES /\ \A i \in Ids : Late1(search'[i])
             /\ control'.pc = "startSearch" => \A i \in searchList' : search'[i].pc = "none"
    OBVIOUS
<1> USE <1>0 DEF ControlType, SearchType, At
<1>1. CASE ShutSocket \/ LeaveFails \/ ClearSocket
    <2>1. control'.pc # "startSearch"
        BY <1>1 DEF ShutSocket, LeaveFails, ClearSocket, Goto, Loop
    <2>2. \A i \in Ids : /\ search'[i].late = search[i].late
                         /\ search'[i].pc = search[i].pc
                         /\ search'[i].mine = search[i].mine
        <3>1. CASE ShutSocket
            BY <3>1 DEF ShutSocket
        <3>2. CASE LeaveFails
            BY <3>2 DEF LeaveFails
        <3>3. CASE ClearSocket
            BY <3>3 DEF ClearSocket
        <3> QED BY <1>1, <3>1, <3>2, <3>3
    <2> QED BY <2>1, <2>2
<1>2. CASE DetachSocket \/ StopAdvertiser
    <2>1. control'.pc # "startSearch"
        <3>1. CASE DetachSocket
            BY <3>1 DEF DetachSocket, Loop
        <3>2. CASE StopAdvertiser
            BY <3>2 DEF StopAdvertiser, Idle
        <3> QED BY <1>2, <3>1, <3>2
    <2>2. \A i \in Ids : /\ search'[i].late = search[i].late
                         /\ search'[i].pc = search[i].pc
                         /\ search'[i].mine => search[i].mine
        <3>1. CASE DetachSocket
            BY <3>1 DEF DetachSocket
        <3>2. CASE StopAdvertiser
            BY <3>2 DEF StopAdvertiser
        <3> QED BY <1>2, <3>1, <3>2
    <2> QED BY <2>1, <2>2
<1>3. ASSUME NEW outcome \in Outcomes, OpenSearch(outcome)
      PROVE  /\ \A i \in Ids : Late1(search'[i])
             /\ control'.pc = "startSearch" => \A i \in searchList' : search'[i].pc = "none"
    <2>1. \A i \in Ids : IF i[1] = starts THEN search'[i].late = 0 /\ search'[i].pc = "none"
                                            ELSE search'[i] = search[i]
        BY <1>3 DEF OpenSearch, NoSearch
    <2>2. \A i \in searchList' : i \in Ids /\ i[1] = starts
        BY <1>3, SearchTypeStep DEF OpenSearch
    <2> QED BY <2>1, <2>2
<1>4. CASE StartSearch
    BY <1>4 DEF StartSearch, Loop
<1>5. ASSUME NEW i \in Ids, Search(i) \/ Receive(i) \/ PostResponse(i)
      PROVE  /\ \A j \in Ids : Late1(search'[j])
             /\ control'.pc = "startSearch" => \A j \in searchList' : search'[j].pc = "none"
    <2>1. \A j \in Ids : j # i => search'[j] = search[j]
        BY <1>5 DEF Search, TestSearch, CheckSocket, UseSocket, ReceiveFails, Answered,
                    PostResponse, Receive, Listen, searches
    <2>2. search[i].pc # "none"
        BY <1>5 DEF Search, TestSearch, CheckSocket, UseSocket, ReceiveFails, Answered,
                    PostResponse, Receive
    <2>3. Late1(search'[i])
        <3>1. CASE TestSearch(i)
            BY <3>1 DEF TestSearch, Listen, History
        <3>2. CASE CheckSocket(i) \/ UseSocket(i)
            BY <3>2 DEF CheckSocket, UseSocket, Listen, History
        <3>3. CASE Receive(i)
            BY <3>3 DEF Receive, Listen, History, Late
        <3>4. CASE ReceiveFails(i) \/ Answered(i)
            BY <3>4 DEF ReceiveFails, Answered, Listen, History
        <3>5. CASE PostResponse(i)
            BY <3>5 DEF PostResponse, searches
        <3> QED BY <1>5, <3>1, <3>2, <3>3, <3>4, <3>5 DEF Search
    <2>4. control' = control /\ searchList' = searchList
        BY <1>5, SearchFrame
    <2>5. control.pc = "startSearch" => i \notin searchList
        BY <2>2
    <2> HIDE DEF Late1
    <2> QED BY <2>1, <2>3, <2>4, <2>5
<1>6. CASE \/ \E i \in Ids : Server(i) \/ Accept(i)
           \/ \E r \in Runs : Adv(r)
    BY <1>6, ServerFrame, AdvertiserFrame
<1>7. CASE start \/ stop \/ setLeaseTime
    BY <1>7 DEF start, stop, setLeaseTime, Begin, Idle, searches
<1>8. CASE \/ Byebye \/ StopServers \/ CloseServers
           \/ (\E bound \in SUBSET Addrs : OpenServers(bound)) \/ RetryOpen \/ StartServers
           \/ announce \/ StartAdvertiser \/ CloseAgain
    <2>1. control'.pc # "startSearch"
        <3>1. CASE Byebye \/ StopServers \/ CloseServers \/ CloseAgain \/ StartServers \/ announce
            BY <3>1 DEF Byebye, StopServers, CloseServers, CloseAgain, StartServers, announce,
                Goto, Loop
        <3>2. CASE (\E bound \in SUBSET Addrs : OpenServers(bound))
            BY <3>2 DEF OpenServers, Goto
        <3>3. CASE RetryOpen \/ StartAdvertiser
            BY <3>3 DEF RetryOpen, StartAdvertiser, Idle
        <3> QED BY <1>8, <3>1, <3>2, <3>3
    <2>2. search' = search
        BY <1>8 DEF Byebye, StopServers, CloseServers, CloseAgain, OpenServers, RetryOpen,
            StartServers, announce, StartAdvertiser, searches
    <2> QED BY <2>1, <2>2
<1> QED BY <1>1, <1>2, <1>3, <1>4, <1>5, <1>6, <1>7, <1>8 DEF Next, Control

LEMMA AdvertiserLate ==
    ASSUME TypeOK, FreshRun, LateOnce, Next
    PROVE  \A r \in Runs :
                \/ advertiser'[r].late = 0
                \/ /\ advertiser'[r].late = 1
                   /\ advertiser'[r].pc \in {"announce", "loop"} /\ advThread' # r
<1> DEFINE Late1(r) ==
               \/ advertiser[r].late = 0
               \/ /\ advertiser[r].late = 1
                  /\ advertiser[r].pc \in {"announce", "loop"} /\ advThread # r
<1>0. /\ control \in ControlType /\ advertiser \in [Runs -> AdvertiserType]
      /\ advThread \in 0..MaxStarts
      /\ \A r \in Runs : Late1(r)
    BY TypeParts DEF LateOnce
<1> SUFFICES \A r \in Runs : Late1(r)'
    OBVIOUS
<1> USE <1>0 DEF ControlType, AdvertiserType, At
<1>1. CASE StopAdvertiser
    BY <1>1 DEF StopAdvertiser, Runs
<1>2. CASE StartAdvertiser
    BY <1>2 DEF StartAdvertiser, FreshRun
<1>3. ASSUME NEW r \in Runs, Adv(r)
      PROVE  \A q \in Runs : Late1(q)'
    <2>1. \A q \in Runs : q # r => advertiser'[q] = advertiser[q]
        BY <1>3 DEF Adv, TestAdvertiser, WakeUp, AnnounceAgain, Advertise
    <2>2. CASE TestAdvertiser(r)
        BY <2>1, <2>2 DEF TestAdvertiser, Advertise, isRunnable, NoAdvertiser
    <2>3. CASE WakeUp(r)
        BY <2>1, <2>3 DEF WakeUp, Advertise, Late
    <2>4. CASE AnnounceAgain(r)
        <3>1. /\ advertiser[r].pc = "announce" /\ advThread' = advThread
              /\ advertiser'[r].late = advertiser[r].late
              /\ advertiser'[r].pc \in {"announce", "loop"}
            BY <2>4 DEF AnnounceAgain, Advertise
        <3> QED BY <2>1, <3>1
    <2> QED BY <1>3, <2>2, <2>3, <2>4 DEF Adv
<1>4. CASE \E i \in Ids : Server(i) \/ Accept(i) \/ Search(i) \/ Receive(i)
               \/ PostResponse(i)
    BY <1>4, ServerFrame, SearchFrame
<1>5. CASE \/ start \/ stop \/ setLeaseTime \/ Byebye \/ StopServers \/ CloseServers
           \/ ShutSocket \/ LeaveFails \/ ClearSocket \/ DetachSocket \/ CloseAgain
           \/ (\E bound \in SUBSET Addrs : OpenServers(bound)) \/ RetryOpen \/ StartServers
           \/ (\E outcome \in Outcomes : OpenSearch(outcome)) \/ StartSearch \/ announce
    BY <1>5 DEF start, stop, setLeaseTime, Byebye, StopServers, CloseServers, ShutSocket,
        LeaveFails, ClearSocket, DetachSocket, CloseAgain, OpenServers, RetryOpen,
        StartServers, OpenSearch,
        StartSearch, announce, adverts
<1> QED BY <1>1, <1>2, <1>3, <1>4, <1>5 DEF Next, Control

LEMMA LateStep ==
    ASSUME TypeOK, FreshRun, LateOnce, Next
    PROVE  LateOnce'
BY ServerLate, SearchLate, AdvertiserLate DEF LateOnce, At

(* A thread moves through its loop; its sockets are its owner's business. *)
LEMMA ServerKeeps ==
    ASSUME server \in [Ids -> ServerType], NEW i \in Ids, Server(i) \/ Accept(i)
    PROVE  /\ \A j \in Ids : /\ server'[j].sock = server[j].sock
                            /\ server'[j].port = server[j].port
                            /\ server'[j].mine = server[j].mine
           /\ \A j \in Ids : j # i => server'[j] = server[j]
<1>1. PICK pc \in {"loop", "end", "accept"}, late \in {0, 1} : Serve(i, pc, late)
    <2>1. CASE RunServer(i)
        BY <2>1 DEF RunServer
    <2>2. CASE TestServer(i)
        BY <2>2 DEF TestServer
    <2>3. CASE AcceptNull(i) \/ Accept(i)
        BY <2>3 DEF AcceptNull, Accept, Late
    <2> QED BY <2>1, <2>2, <2>3 DEF Server
<1> QED BY <1>1 DEF Serve, ServerType

LEMMA SearchKeeps ==
    ASSUME search \in [Ids -> SearchType], NEW i \in Ids, Search(i) \/ Receive(i)
                                                          \/ PostResponse(i)
    PROVE  \A j \in Ids : /\ search'[j].sock = search[j].sock
                          /\ search'[j].failed = search[j].failed
<1>0. CASE PostResponse(i)
    BY <1>0 DEF PostResponse, searches
<1>1. ASSUME Search(i) \/ Receive(i)
      PROVE  \E pc \in {"loop", "check", "use", "receive", "answer", "end", "dead"},
                late \in {0, 1} : Listen(i, pc, late)
    <2>1. CASE TestSearch(i)
        BY <2>1 DEF TestSearch
    <2>2. CASE CheckSocket(i)
        BY <2>2 DEF CheckSocket
    <2>3. CASE UseSocket(i)
        BY <2>3 DEF UseSocket
    <2>4. CASE Receive(i)
        BY <2>4 DEF Receive, Late
    <2>5. CASE ReceiveFails(i) \/ Answered(i)
        BY <2>5 DEF ReceiveFails, Answered
    <2> QED BY <1>1, <2>1, <2>2, <2>3, <2>4, <2>5 DEF Search
<1>2. ASSUME NEW pc, NEW late, Listen(i, pc, late)
      PROVE  \A j \in Ids : /\ search'[j].sock = search[j].sock
                            /\ search'[j].failed = search[j].failed
    BY <1>2 DEF Listen, SearchType
<1> QED BY <1>0, <1>1, <1>2

(* Which steps of the controller end a call. *)
LEMMA EndsCall ==
    ASSUME control \in ControlType, Next, control'.pc = "idle"
    PROVE  control = control' \/ StopAdvertiser \/ RetryOpen \/ StartAdvertiser
<1> USE DEF ControlType
<1>1. CASE start \/ stop \/ setLeaseTime
    BY <1>1 DEF start, stop, setLeaseTime, Begin, Idle, GoodbyeTo
<1>2. CASE Byebye \/ announce
    BY <1>2 DEF Byebye, announce, Goto, Loop
<1>3. CASE StopServers \/ CloseServers \/ StartServers
    BY <1>3 DEF StopServers, CloseServers, StartServers, Goto, Loop
<1>4. CASE ShutSocket \/ LeaveFails \/ ClearSocket \/ DetachSocket \/ CloseAgain
    BY <1>4 DEF ShutSocket, LeaveFails, ClearSocket, DetachSocket, CloseAgain, Goto, Loop
<1>5. CASE (\E bound \in SUBSET Addrs : OpenServers(bound))
           \/ (\E outcome \in Outcomes : OpenSearch(outcome)) \/ StartSearch
    BY <1>5 DEF OpenServers, OpenSearch, StartSearch, Goto, Loop
<1>6. CASE \/ \E i \in Ids : Server(i) \/ Accept(i) \/ Search(i) \/ Receive(i)
                  \/ PostResponse(i)
           \/ \E r \in Runs : Adv(r)
    BY <1>6, ServerFrame, SearchFrame, AdvertiserFrame
<1> QED BY <1>1, <1>2, <1>3, <1>4, <1>5, <1>6 DEF Next, Control

LEMMA ServerClosing ==
    ASSUME TypeOK, Closing, Next
    PROVE  /\ \A i \in Ids : server'[i].sock => i \in httpList'
           /\ control'.pc \in ShutPcs => httpList' = {}
<1>0. /\ control \in ControlType /\ server \in [Ids -> ServerType] /\ httpList \subseteq Ids
      /\ \A i \in Ids : server[i].sock => i \in httpList
      /\ control.pc \in ShutPcs => httpList = {}
    BY TypeParts DEF Closing
<1> USE <1>0 DEF ControlType, ServerType, At, ShutPcs
<1>1. CASE StopServers
    BY <1>1 DEF StopServers, Goto
<1>2. CASE CloseServers
    <2>1. \A i \in Ids : ~server'[i].sock
        BY <1>2 DEF CloseServers, Closed
    <2>2. httpList' = {}
        BY <1>2 DEF CloseServers
    <2> QED BY <2>1, <2>2
<1>3. ASSUME NEW bound \in SUBSET Addrs, OpenServers(bound)
      PROVE  /\ \A i \in Ids : server'[i].sock => i \in httpList'
             /\ control'.pc \notin ShutPcs
    <2>1. control'.pc = "startServers"
        BY <1>3 DEF OpenServers, Goto
    <2>2. \A i \in Ids : ~server[i].sock
        BY <1>3 DEF OpenServers
    <2>3. ASSUME NEW i \in Ids, server'[i].sock
          PROVE  i[1] = starts /\ i[2] \in Listed(bound)
        BY <1>3, <2>2, <2>3 DEF OpenServers, OpenedServer, StayOpen, NoServer
    <2>4. \A i \in Ids : i = <<i[1], i[2]>>
        BY DEF Ids
    <2>5. httpList' = {starts} \X Listed(bound)
        BY <1>3 DEF OpenServers
    <2>6. ASSUME NEW i \in Ids, server'[i].sock
          PROVE  i \in httpList'
        BY <2>3, <2>4, <2>5, <2>6
    <2> QED BY <2>1, <2>6
<1>4. CASE StartServers
    BY <1>4 DEF StartServers, Goto
<1>5. ASSUME NEW i \in Ids, Server(i) \/ Accept(i)
      PROVE  /\ \A j \in Ids : server'[j].sock => j \in httpList'
             /\ control'.pc \in ShutPcs => httpList' = {}
    <2>1. \A j \in Ids : server'[j].sock = server[j].sock
        BY <1>5, ServerKeeps
    <2> QED BY <1>5, <2>1, ServerFrame
<1>6. CASE \/ \E i \in Ids : Search(i) \/ Receive(i) \/ PostResponse(i)
           \/ \E r \in Runs : Adv(r)
    BY <1>6, SearchFrame, AdvertiserFrame
<1>7. CASE start \/ stop \/ setLeaseTime
    BY <1>7 DEF start, stop, setLeaseTime, Begin, Idle, servers
<1>8. CASE \/ Byebye \/ ShutSocket \/ LeaveFails \/ ClearSocket \/ DetachSocket
           \/ CloseAgain \/ StopAdvertiser
           \/ RetryOpen \/ (\E outcome \in Outcomes : OpenSearch(outcome))
           \/ StartSearch \/ announce \/ StartAdvertiser
    <2>1. server' = server /\ httpList' = httpList
        BY <1>8 DEF Byebye, ShutSocket, LeaveFails, ClearSocket, DetachSocket, CloseAgain,
            StopAdvertiser, RetryOpen, OpenSearch, StartSearch, announce, StartAdvertiser,
            servers
    <2>2. control'.pc \in ShutPcs =>
             control.pc \in ShutPcs
        <3>1. CASE Byebye \/ announce
            BY <3>1 DEF Byebye, announce, Goto, Loop
        <3>2. CASE ShutSocket \/ LeaveFails \/ ClearSocket \/ DetachSocket \/ CloseAgain
            BY <3>2 DEF ShutSocket, LeaveFails, ClearSocket, DetachSocket, CloseAgain
        <3>3. CASE StopAdvertiser \/ RetryOpen \/ StartAdvertiser
            BY <3>3 DEF StopAdvertiser, RetryOpen, StartAdvertiser, Idle
        <3>4. CASE (\E outcome \in Outcomes : OpenSearch(outcome)) \/ StartSearch
            BY <3>4 DEF OpenSearch, StartSearch, Goto, Loop
        <3> QED BY <1>8, <3>1, <3>2, <3>3, <3>4
    <2> QED BY <2>1, <2>2
<1> QED BY <1>1, <1>2, <1>3, <1>4, <1>5, <1>6, <1>7, <1>8 DEF Next, Control

(* No step but the making of new sockets undoes what was tried. *)
LEMMA TriedStays ==
    ASSUME TypeOK, TodoOK, Next, NEW i \in Ids, NEW n \in {1, 2}, Tried(search[i], n)
    PROVE  Tried(search'[i], n) \/ \E outcome \in Outcomes : OpenSearch(outcome)
<1>0. /\ control \in ControlType /\ search \in [Ids -> SearchType] /\ searchList \subseteq Ids
      /\ search[i] \in SearchType
    BY TypeParts
<1> USE <1>0 DEF SearchType, At
<1>1. ASSUME search'[i].sock = "joined" => search[i].sock = "joined",
             search'[i].failed >= search[i].failed, search'[i].failed \in Nat
      PROVE  Tried(search'[i], n)
    BY <1>1 DEF Tried
<1>2. ASSUME search' = search
      PROVE  Tried(search'[i], n)
    BY <1>2 DEF Tried
<1>3. CASE ShutSocket
    BY <1>1, <1>3 DEF ShutSocket
<1>4. CASE LeaveFails
    BY <1>1, <1>4 DEF LeaveFails
<1>5. CASE ClearSocket
    BY <1>1, <1>5 DEF ClearSocket
<1>6. CASE DetachSocket
    BY <1>1, <1>6 DEF DetachSocket
<1>7. CASE StartSearch
    <2>1. /\ search'[i].sock = search[i].sock
          /\ search'[i].failed = search[i].failed
        BY <1>7 DEF StartSearch
    <2> QED BY <1>1, <2>1
<1>8. ASSUME NEW j \in Ids, Search(j) \/ Receive(j) \/ PostResponse(j)
      PROVE  Tried(search'[i], n)
    BY <1>1, <1>8, SearchKeeps
<1>9. CASE \/ \E j \in Ids : Server(j) \/ Accept(j)
           \/ \E r \in Runs : Adv(r)
    BY <1>2, <1>9, ServerFrame, AdvertiserFrame
<1>10. CASE \/ start \/ stop \/ setLeaseTime \/ Byebye \/ StopServers \/ CloseServers
            \/ CloseAgain \/ StopAdvertiser \/ (\E bound \in SUBSET Addrs : OpenServers(bound))
            \/ RetryOpen \/ StartServers \/ announce \/ StartAdvertiser
    BY <1>2, <1>10 DEF start, stop, setLeaseTime, Byebye, StopServers, CloseServers,
        CloseAgain, StopAdvertiser, OpenServers, RetryOpen, StartServers, announce,
        StartAdvertiser, searches
<1> QED BY <1>3, <1>4, <1>5, <1>6, <1>7, <1>8, <1>9, <1>10 DEF Next, Control

LEMMA SearchClosing ==
    ASSUME TypeOK, TodoOK, Closing, Next
    PROVE  /\ \A i \in Ids : i \in searchList' \/ Tried(search'[i], 2)
           /\ control'.pc \in {"open", "startServers", "openSearch"} => searchList' = {}
<1>0. /\ control \in ControlType /\ search \in [Ids -> SearchType] /\ searchList \subseteq Ids
      /\ \A i \in Ids : i \in searchList \/ Tried(search[i], 2)
      /\ control.pc \in {"open", "startServers", "openSearch"} => searchList = {}
    BY TypeParts DEF Closing
<1> USE <1>0 DEF ControlType, SearchType, At
<1>1. CASE StopAdvertiser
    <2>1. \A i \in Ids : Tried(search[i], 2)
        <3>1. Len(control.todo) = 0
            BY <1>1 DEF StopAdvertiser
        <3> QED BY <1>1, <3>1 DEF StopAdvertiser, Closing, SecondPass
    <2>2. \A i \in Ids : Tried(search'[i], 2)
        BY <1>1, <2>1 DEF StopAdvertiser, Tried
    <2> QED BY <1>1, <2>2 DEF StopAdvertiser
<1>2. ASSUME NEW outcome \in Outcomes, OpenSearch(outcome)
      PROVE  /\ \A i \in Ids : i \in searchList' \/ Tried(search'[i], 2)
             /\ control'.pc \notin {"open", "startServers", "openSearch"}
    <2>1. control'.pc = "startSearch" /\ searchList' = {starts} \X Addrs
        BY <1>2 DEF OpenSearch, Goto
    <2>2. \A i \in Ids : i = <<i[1], i[2]>> /\ i[2] \in Addrs
        BY DEF Ids
    <2>3. \A i \in Ids : i[1] = starts => i \in searchList'
        BY <2>1, <2>2
    <2>4. \A i \in Ids : i[1] # starts => search'[i] = search[i] /\ Tried(search[i], 2)
        BY <1>2 DEF OpenSearch
    <2>5. \A i \in Ids : i[1] # starts => Tried(search'[i], 2)
        BY <2>4 DEF Tried
    <2> QED BY <2>1, <2>3, <2>5
<1>3. ASSUME searchList' = searchList
      PROVE  (\A i \in Ids : i \in searchList' \/ Tried(search'[i], 2))
             \/ \E outcome \in Outcomes : OpenSearch(outcome)
    <2>1. \A i \in Ids : Tried(search[i], 2) =>
             Tried(search'[i], 2) \/ \E outcome \in Outcomes : OpenSearch(outcome)
        BY TriedStays
    <2> QED BY <1>0, <1>3, <2>1
<1>4. CASE ShutSocket \/ LeaveFails \/ ClearSocket \/ DetachSocket \/ CloseAgain
    <2>1. /\ searchList' = searchList
          /\ control'.pc \notin {"open", "startServers", "openSearch"}
        BY <1>4 DEF ShutSocket, LeaveFails, ClearSocket, DetachSocket, CloseAgain, Goto, Loop,
                    searches
    <2> QED BY <1>2, <1>3, <2>1
<1>5. CASE StartSearch
    <2>1. searchList' = searchList /\ control'.pc = "announce"
        BY <1>5 DEF StartSearch, Loop
    <2> QED BY <1>2, <1>3, <2>1
<1>6. CASE \/ \E i \in Ids : Server(i) \/ Accept(i) \/ Search(i) \/ Receive(i)
                \/ PostResponse(i)
           \/ \E r \in Runs : Adv(r)
    <2>1. searchList' = searchList /\ control' = control
        BY <1>6, ServerFrame, SearchFrame, AdvertiserFrame
    <2> QED BY <1>2, <1>3, <2>1
<1>7. CASE start \/ stop \/ setLeaseTime
    <2>1. searchList' = searchList /\ control'.pc \in {"byebye", "announce"}
        BY <1>7 DEF start, stop, setLeaseTime, Begin, Idle, searches
    <2> QED BY <1>2, <1>3, <2>1
<1>8. CASE \/ Byebye \/ StopServers \/ CloseServers
           \/ (\E bound \in SUBSET Addrs : OpenServers(bound)) \/ RetryOpen \/ StartServers
           \/ announce \/ StartAdvertiser
    <2>1. searchList' = searchList
        BY <1>8 DEF Byebye, StopServers, CloseServers, OpenServers, RetryOpen, StartServers,
            announce, StartAdvertiser, searches
    <2>2. control'.pc \in {"open", "startServers", "openSearch"} =>
             control.pc \in {"open", "startServers", "openSearch"}
        <3>1. CASE Byebye \/ announce
            BY <3>1 DEF Byebye, announce, Goto, Loop
        <3>2. CASE StopServers \/ CloseServers \/ StartServers
            BY <3>2 DEF StopServers, CloseServers, StartServers, Goto, Loop
        <3>3. CASE (\E bound \in SUBSET Addrs : OpenServers(bound)) \/ RetryOpen
            BY <3>3 DEF OpenServers, RetryOpen
        <3>4. CASE StartAdvertiser
            BY <3>4 DEF StartAdvertiser, Idle
        <3> QED BY <1>8, <3>1, <3>2, <3>3, <3>4
    <2> QED BY <1>2, <1>3, <2>1, <2>2
<1> QED BY <1>1, <1>2, <1>4, <1>5, <1>6, <1>7, <1>8 DEF Next, Control

(* A pass of stop() over the sockets moves on. *)
LEMMA PassesOn ==
    ASSUME control.todo \in Seq(Ids), control.todo # <<>>,
           control'.todo = Tail(control.todo), NEW i \in Ids, i # Head(control.todo),
           \E n \in 1..Len(control.todo) : control.todo[n] = i
    PROVE  \E n \in 1..Len(control'.todo) : control'.todo[n] = i
BY TailKeeps

(* Where the controller is while it closes search sockets. *)
LEMMA EntersPass ==
    ASSUME control \in ControlType, Next
    PROVE  \/ control' = control
           \/ CloseServers \/ ShutSocket \/ LeaveFails \/ ClearSocket \/ DetachSocket
           \/ CloseAgain
           \/ control'.pc \notin {"shut", "clear", "detach", "shutAgain", "clearAgain"}
<1> USE DEF ControlType
<1>1. CASE start \/ stop \/ setLeaseTime
    BY <1>1 DEF start, stop, setLeaseTime, Begin, Idle
<1>2. CASE Byebye \/ announce
    BY <1>2 DEF Byebye, announce, Goto, Loop
<1>3. CASE StopServers \/ StartServers
    BY <1>3 DEF StopServers, StartServers, Goto
<1>4. CASE StopAdvertiser \/ StartAdvertiser
    BY <1>4 DEF StopAdvertiser, StartAdvertiser, Idle
<1>5. CASE RetryOpen
    BY <1>5 DEF RetryOpen, Idle, At
<1>6. CASE (\E bound \in SUBSET Addrs : OpenServers(bound))
           \/ (\E outcome \in Outcomes : OpenSearch(outcome)) \/ StartSearch
    BY <1>6 DEF OpenServers, OpenSearch, StartSearch, Goto, Loop
<1>7. CASE \/ \E i \in Ids : Server(i) \/ Accept(i) \/ Search(i) \/ Receive(i)
                \/ PostResponse(i)
           \/ \E r \in Runs : Adv(r)
    BY <1>7, ServerFrame, SearchFrame, AdvertiserFrame
<1> QED BY <1>1, <1>2, <1>3, <1>4, <1>5, <1>6, <1>7 DEF Next, Control

(* stop() shuts each socket of the list in turn, or fails to. *)
LEMMA PassStep ==
    ASSUME TypeOK, TodoOK, Closing, Next
    PROVE  FirstPass' /\ SecondPass'
<1> DEFINE InTodo(i) == \E n \in 1..Len(control.todo) : control.todo[n] = i
           First == /\ control.pc \in {"shut", "clear", "detach"} =>
                          \A i \in Ids : InTodo(i) \/ Tried(search[i], 1)
                    /\ control.pc \in {"clear", "detach"} => Tried(search[Head(control.todo)], 1)
           Second == /\ control.pc \in {"shutAgain", "clearAgain"} =>
                           \A i \in Ids : (InTodo(i) /\ Tried(search[i], 1)) \/ Tried(search[i], 2)
                     /\ control.pc = "clearAgain" => Tried(search[Head(control.todo)], 2)
<1>0. /\ control \in ControlType /\ search \in [Ids -> SearchType] /\ searchList \subseteq Ids
      /\ \A i \in Ids : i \in searchList \/ Tried(search[i], 2)
      /\ First /\ Second
    BY TypeParts DEF Closing, FirstPass, SecondPass
<1>1. /\ control.pc \in {"shut", "clear", "detach", "shutAgain", "clearAgain"} =>
             control.todo \in Seq(Ids)
      /\ control.pc \in {"clear", "detach", "clearAgain"} => control.todo # <<>>
    BY DEF TodoOK
<1>a. ASSUME control.pc \in {"shut", "clear", "detach"}, NEW i \in Ids
      PROVE  InTodo(i) \/ Tried(search[i], 1)
    BY <1>0, <1>a
<1>b. ASSUME control.pc \in {"clear", "detach"}
      PROVE  Tried(search[Head(control.todo)], 1)
    BY <1>0, <1>b
<1>c. ASSUME control.pc \in {"shutAgain", "clearAgain"}, NEW i \in Ids
      PROVE  (InTodo(i) /\ Tried(search[i], 1)) \/ Tried(search[i], 2)
    BY <1>0, <1>c
<1>d. ASSUME control.pc = "clearAgain"
      PROVE  Tried(search[Head(control.todo)], 2)
    BY <1>0, <1>d
<1>2. SUFFICES First' /\ Second'
    BY DEF FirstPass, SecondPass
<1>3. \A i \in Ids : Tried(search[i], 2) => Tried(search[i], 1)
    BY <1>0 DEF Tried, SearchType
<1>4. \/ \E outcome \in Outcomes : OpenSearch(outcome)
      \/ \A i \in Ids : /\ Tried(search[i], 1) => Tried(search'[i], 1)
                        /\ Tried(search[i], 2) => Tried(search'[i], 2)
    <2>1. ASSUME NEW i \in Ids, NEW n \in {1, 2}, Tried(search[i], n)
          PROVE  Tried(search'[i], n) \/ \E outcome \in Outcomes : OpenSearch(outcome)
        BY <2>1, TriedStays
    <2> QED BY <2>1
<1>5. (\E outcome \in Outcomes : OpenSearch(outcome)) => control'.pc = "startSearch"
    BY <1>0 DEF OpenSearch, Goto, ControlType
<1>6. control.todo \in Seq(Ids) /\ control.todo # <<>> => Head(control.todo) \in Ids
    BY TailKeeps
<1>7. ASSUME control'.pc \notin {"shut", "clear", "detach", "shutAgain", "clearAgain"}
      PROVE  First' /\ Second'
    BY <1>7
<1>8. ASSUME control' = control
      PROVE  First' /\ Second'
    <2>1. CASE control.pc \in {"shut", "clear", "detach", "shutAgain", "clearAgain"}
        <3>1. \A i \in Ids : /\ Tried(search[i], 1) => Tried(search'[i], 1)
                             /\ Tried(search[i], 2) => Tried(search'[i], 2)
            BY <1>4, <1>5, <1>8, <2>1
        <3>2. \A i \in Ids : InTodo(i)' <=> InTodo(i)
            BY <1>8
        <3> HIDE DEF InTodo
        <3>3. ASSUME control.pc \in {"shut", "clear", "detach"}, NEW i \in Ids
              PROVE  InTodo(i)' \/ Tried(search'[i], 1)
            BY <1>a, <3>1, <3>2, <3>3
        <3>4. ASSUME control.pc \in {"shutAgain", "clearAgain"}, NEW i \in Ids
              PROVE  (InTodo(i)' /\ Tried(search'[i], 1)) \/ Tried(search'[i], 2)
            BY <1>c, <3>1, <3>2, <3>4
        <3>5. control'.pc = control.pc /\ Head(control'.todo) = Head(control.todo)
            BY <1>8
        <3>6. ASSUME control.pc \in {"clear", "detach", "clearAgain"}
              PROVE  Head(control.todo) \in Ids
            BY <1>1, <1>6, <3>6
        <3>7. ASSUME control.pc \in {"clear", "detach"}
              PROVE  Tried(search'[Head(control'.todo)], 1)
            <4>1. Head(control.todo) \in Ids /\ Tried(search[Head(control.todo)], 1)
                BY <1>b, <3>6, <3>7
            <4> QED BY <3>1, <3>5, <4>1
        <3>8. ASSUME control.pc = "clearAgain"
              PROVE  Tried(search'[Head(control'.todo)], 2)
            <4>1. Head(control.todo) \in Ids /\ Tried(search[Head(control.todo)], 2)
                BY <1>d, <3>6, <3>8
            <4> QED BY <3>1, <3>5, <4>1
        <3> QED BY <3>3, <3>4, <3>5, <3>7, <3>8
    <2>2. CASE control.pc \notin {"shut", "clear", "detach", "shutAgain", "clearAgain"}
        BY <1>7, <1>8, <2>2
    <2> QED BY <2>1, <2>2
<1>9. CASE CloseServers
    <2>1. /\ control'.pc = "shut" /\ control'.todo = SetToSeq(searchList)
          /\ search' = search
        BY <1>0, <1>9 DEF CloseServers, Loop, searches, ControlType
    <2>2. \A i \in searchList : InTodo(i)'
        BY <1>0, <2>1, AllListed
    <2>3. \A i \in Ids : Tried(search[i], 2) => Tried(search'[i], 1)
        BY <1>3, <2>1 DEF Tried
    <2> HIDE DEF InTodo
    <2> QED BY <1>0, <2>1, <2>2, <2>3
<1>10. CASE ShutSocket \/ LeaveFails
    <2>0. control.pc \in {"shut", "shutAgain"} /\ control.todo # <<>>
        BY <1>10 DEF ShutSocket, LeaveFails
    <2>1. /\ Head(control.todo) \in Ids
          /\ control'.todo = control.todo
          /\ control'.pc = IF control.pc = "shut" THEN "clear" ELSE "clearAgain"
        BY <1>0, <1>1, <1>6, <1>10, <2>0 DEF ShutSocket, LeaveFails, Goto, At, ControlType
    <2>2. \A i \in Ids : /\ Tried(search[i], 1) => Tried(search'[i], 1)
                         /\ Tried(search[i], 2) => Tried(search'[i], 2)
        BY <1>4, <1>5, <2>1
    <2>3. /\ Tried(search'[Head(control'.todo)], 1)
          /\ Tried(search[Head(control.todo)], 1) => Tried(search'[Head(control'.todo)], 2)
        <3>1. CASE ShutSocket
            <4>1. search'[Head(control.todo)].sock # "joined"
                BY <1>0, <2>1, <3>1 DEF ShutSocket, Socket, SearchType
            <4> QED BY <2>1, <4>1 DEF Tried
        <3>2. CASE LeaveFails
            <4>1. /\ search[Head(control.todo)].sock = "joined"
                  /\ search[Head(control.todo)].failed \in Nat
                  /\ search'[Head(control.todo)].failed = search[Head(control.todo)].failed + 1
                BY <1>0, <2>1, <3>2 DEF LeaveFails, Socket, SearchType
            <4> QED BY <2>1, <4>1 DEF Tried
        <3> QED BY <1>10, <3>1, <3>2
    <2>4. \A i \in Ids : InTodo(i)' <=> InTodo(i)
        BY <2>1
    <2>5. Head(control'.todo) = Head(control.todo)
        BY <2>1
    <2>6. control.pc = "shutAgain" => Tried(search[Head(control.todo)], 1)
        BY <1>0, <1>3, <2>1
    <2> HIDE DEF InTodo
    <2>7. CASE control.pc = "shut"
        <3>1. control'.pc = "clear"
            BY <2>1, <2>7
        <3>2. \A i \in Ids : InTodo(i)' \/ Tried(search'[i], 1)
            BY <1>a, <2>2, <2>4, <2>7
        <3> QED BY <2>3, <2>5, <3>1, <3>2
    <2>8. CASE control.pc = "shutAgain"
        <3>1. control'.pc = "clearAgain"
            BY <2>1, <2>8
        <3>2. \A i \in Ids : (InTodo(i)' /\ Tried(search'[i], 1)) \/ Tried(search'[i], 2)
            BY <1>c, <2>2, <2>4, <2>8
        <3> QED BY <2>3, <2>5, <2>6, <2>8, <3>1, <3>2
    <2> QED BY <2>0, <2>7, <2>8
<1>11. CASE ClearSocket /\ control.pc = "clear"
    <2>1. control'.pc = "detach" /\ control'.todo = control.todo /\ Head(control.todo) \in Ids
        BY <1>0, <1>1, <1>6, <1>11 DEF ClearSocket, Goto, At, ControlType
    <2>2. \A i \in Ids : Tried(search[i], 1) => Tried(search'[i], 1)
        BY <1>4, <1>5, <2>1
    <2>3. \A i \in Ids : InTodo(i)' <=> InTodo(i)
        BY <2>1
    <2>4. Head(control'.todo) = Head(control.todo)
        BY <2>1
    <2> HIDE DEF InTodo
    <2> QED BY <1>0, <1>11, <2>1, <2>2, <2>3, <2>4
<1>12. CASE (ClearSocket /\ control.pc = "clearAgain") \/ DetachSocket
    <2>1. /\ control.todo \in Seq(Ids) /\ control.todo # <<>> /\ Head(control.todo) \in Ids
          /\ control'.todo = Tail(control.todo)
          /\ \/ control.pc = "clearAgain" /\ control'.pc = "shutAgain"
             \/ control.pc = "detach" /\ control'.pc = "shut"
        <3>1. CASE ClearSocket /\ control.pc = "clearAgain"
            BY <1>0, <1>1, <1>6, <3>1 DEF ClearSocket, Loop, At, ControlType
        <3>2. CASE DetachSocket
            BY <1>0, <1>1, <1>6, <3>2 DEF DetachSocket, Loop, At, ControlType
        <3> QED BY <1>12, <3>1, <3>2
    <2>2. \A i \in Ids : /\ Tried(search[i], 1) => Tried(search'[i], 1)
                         /\ Tried(search[i], 2) => Tried(search'[i], 2)
        BY <1>4, <1>5, <2>1
    <2>3. \A i \in Ids : i # Head(control.todo) /\ InTodo(i) => InTodo(i)'
        BY <2>1, PassesOn
    <2> HIDE DEF InTodo
    <2>4. CASE control.pc = "clearAgain" /\ control'.pc = "shutAgain"
        <3>1. Tried(search[Head(control.todo)], 2)
            BY <1>d, <2>4
        <3>2. \A i \in Ids : (InTodo(i)' /\ Tried(search'[i], 1)) \/ Tried(search'[i], 2)
            BY <1>c, <2>1, <2>2, <2>3, <2>4, <3>1
        <3> QED BY <2>4, <3>2
    <2>5. CASE control.pc = "detach" /\ control'.pc = "shut"
        <3>1. Tried(search[Head(control.todo)], 1)
            BY <1>b, <2>5
        <3>2. \A i \in Ids : InTodo(i)' \/ Tried(search'[i], 1)
            BY <1>a, <2>1, <2>2, <2>3, <2>5, <3>1
        <3> QED BY <2>5, <3>2
    <2> QED BY <2>1, <2>4, <2>5
<1>13. CASE CloseAgain
    <2>1. /\ control.pc = "shut" /\ control.todo = <<>>
          /\ control'.pc = "shutAgain" /\ control'.todo = SetToSeq(searchList)
          /\ search' = search
        BY <1>0, <1>13 DEF CloseAgain, Remaining, Loop, searches, At, ControlType
    <2>2. \A i \in searchList : InTodo(i)'
        BY <1>0, <2>1, AllListed
    <2>3. \A i \in Ids : /\ Tried(search'[i], 1)
                         /\ Tried(search[i], 2) => Tried(search'[i], 2)
        <3>1. Len(control.todo) = 0
            BY <2>1
        <3>2. \A i \in Ids : Tried(search[i], 1)
            BY <1>0, <2>1, <3>1
        <3> QED BY <2>1, <3>2 DEF Tried
    <2> HIDE DEF InTodo
    <2>4. \A i \in Ids : (InTodo(i)' /\ Tried(search'[i], 1)) \/ Tried(search'[i], 2)
        BY <1>0, <2>2, <2>3
    <2> QED BY <2>1, <2>4
<1> HIDE DEF First, Second
<1>14. ClearSocket => control.pc \in {"clear", "clearAgain"}
    BY DEF ClearSocket
<1> QED BY <1>0, <1>7, <1>8, <1>9, <1>10, <1>11, <1>12, <1>13, <1>14, EntersPass

LEMMA ClosingStep ==
    ASSUME TypeOK, TodoOK, Closing, Next
    PROVE  Closing'
<1>1. (control'.pc = "idle" /\ ~running') => httpList' = {} /\ searchList' = {}
    <2>1. CASE StopAdvertiser
        BY <2>1 DEF StopAdvertiser, Closing, ShutPcs, At, servers
    <2>2. CASE RetryOpen
        BY <2>2 DEF RetryOpen, Closing, ShutPcs, At, searches
    <2>3. CASE StartAdvertiser
        BY <2>3 DEF StartAdvertiser
    <2>4. ASSUME control' = control, control.pc = "idle"
          PROVE  running' = running /\ httpList' = httpList /\ searchList' = searchList
        <3>0. control \in ControlType
            BY TypeParts
        <3>1. CASE start \/ stop \/ setLeaseTime
            BY <2>4, <3>1 DEF start, stop, setLeaseTime, Begin, Idle
        <3>2. CASE Control
            BY <2>4, <3>2 DEF Control, Byebye, StopServers, CloseServers, ShutSocket,
                LeaveFails, ClearSocket, DetachSocket, CloseAgain, StopAdvertiser,
                OpenServers, RetryOpen, StartServers, OpenSearch, StartSearch, announce,
                StartAdvertiser, At
        <3>3. CASE \/ \E i \in Ids : Server(i) \/ Accept(i) \/ Search(i) \/ Receive(i)
                          \/ PostResponse(i)
                   \/ \E r \in Runs : Adv(r)
            BY <3>3, ServerFrame, SearchFrame, AdvertiserFrame
        <3> QED BY <3>1, <3>2, <3>3 DEF Next
    <2> QED BY <2>1, <2>2, <2>3, <2>4, EndsCall, TypeParts DEF Closing, At
<1> QED BY <1>1, ServerClosing, SearchClosing, PassStep DEF Closing, At

(* What the controller does next where nothing of "servers" changes. *)
LEMMA ServingFrame ==
    ASSUME Serving,
           server' = server, UNCHANGED <<httpPort, httpList, bindFailed>>,
           \/ control'.pc \notin {"open", "startServers", "openSearch", "startSearch",
                                  "announce", "advertise", "idle"}
           \/ /\ control'.pc \in {"openSearch", "startSearch", "announce", "advertise"}
              /\ \/ control.pc \in {"openSearch", "startSearch", "announce", "advertise"}
                 \/ control.pc = "idle" /\ running
           \/ /\ control'.pc = "idle"
              /\ ~running' \/ control.pc = "advertise" \/ (control.pc = "idle" /\ running)
           \/ control' = control /\ running' = running
           \/ control'.pc = "open" /\ ~running'
    PROVE  Serving'
BY DEF Serving, Opened, At

LEMMA ServingStep ==
    ASSUME TypeOK, FreshRun, Serving, Next
    PROVE  Serving'
<1>0. /\ control \in ControlType /\ server \in [Ids -> ServerType]
      /\ httpList \subseteq Ids /\ httpPort \in Nat
    BY TypeParts
<1> USE <1>0 DEF ControlType, ServerType, At
<1>1. CASE start \/ stop
    BY <1>1, ServingFrame DEF start, stop, Begin, Idle, servers
<1>2. CASE setLeaseTime
    BY <1>2, ServingFrame DEF setLeaseTime, Begin, Idle, servers
<1>3. CASE Byebye
    BY <1>3, ServingFrame DEF Byebye, Goto, Loop, servers
<1>4. CASE StopServers \/ CloseServers
    <2>1. control'.pc \in {"closeServers", "shut"}
        BY <1>4 DEF StopServers, CloseServers, Goto, Loop
    <2> QED BY <2>1 DEF Serving
<1>5. CASE ShutSocket \/ LeaveFails \/ ClearSocket \/ DetachSocket \/ CloseAgain
    BY <1>5, ServingFrame DEF ShutSocket, LeaveFails, ClearSocket, DetachSocket, CloseAgain,
        Goto, Loop, servers
<1>6. CASE StopAdvertiser
    BY <1>6, ServingFrame DEF StopAdvertiser, Idle, servers
<1>7. ASSUME NEW bound \in SUBSET Addrs, OpenServers(bound)
      PROVE  Serving'
    <2>1. /\ control'.pc = "startServers"
          /\ httpList' = {starts} \X Listed(bound)
          /\ bindFailed' = (bound # Addrs)
          /\ httpPort' = httpPort
          /\ \A i \in Ids : i[1] = starts => server'[i] = OpenedServer(bound, i[2])
        BY <1>7 DEF OpenServers, Goto
    <2>2. bound = Addrs => {i[2] : i \in httpList'} = Addrs
        <3>1. Listed(Addrs) = Addrs
            <4>1. \A m \in 1..Len(Addresses) : Addresses[m] \in Addrs
                BY AllAddresses
            <4>2. Len(Addresses) \in Nat
                BY AllAddresses, LenProperties
            <4>3. {n \in 1..Len(Addresses) :
                     \A m \in n..Len(Addresses) : Addresses[m] \in Addrs} = 1..Len(Addresses)
                BY <4>1, <4>2
            <4> QED BY <4>1, <4>3, AllAddresses DEF Listed
        <3>2. {i[2] : i \in {starts} \X Addrs} = Addrs
            <4>1. ASSUME NEW a \in Addrs
                  PROVE  <<starts, a>> \in {starts} \X Addrs /\ <<starts, a>>[2] = a
                OBVIOUS
            <4> QED BY <4>1
        <3> QED BY <2>1, <3>1, <3>2
    <2>3. httpList' \subseteq Ids
        BY ServerTypeStep
    <2>4. ASSUME NEW i \in httpList'
          PROVE  server'[i].sock /\ server'[i].port = httpPort
        <3>1. i \in Ids /\ i[1] = starts /\ i[2] \in Listed(bound)
            BY <2>1, <2>3
        <3> QED BY <2>1, <3>1 DEF OpenedServer, StayOpen, NoServer
    <2> QED BY <2>1, <2>2, <2>4 DEF Serving, Opened
<1>8. CASE RetryOpen
    <2>1. control.pc = "open" /\ UNCHANGED <<server, httpList, running>>
        BY <1>8 DEF RetryOpen, adverts
    <2>2. control'.pc \in {"open", "idle"}
        BY <1>8 DEF RetryOpen, Idle
    <2> QED BY <2>1, <2>2 DEF Serving
<1>9. CASE StartServers
    <2>1. /\ control.pc = "startServers" /\ control'.pc = "openSearch"
          /\ UNCHANGED <<httpList, httpPort, bindFailed>>
          /\ \A i \in httpList : server'[i] = [server[i] EXCEPT !.mine = TRUE, !.pc = "run"]
        BY <1>9 DEF StartServers, Goto
    <2>2. \A i \in httpList : /\ server'[i].sock = server[i].sock
                              /\ server'[i].port = server[i].port
                              /\ server'[i].mine /\ server'[i].pc = "run"
        <3> SUFFICES ASSUME NEW i \in httpList
                     PROVE  /\ server'[i].sock = server[i].sock
                            /\ server'[i].port = server[i].port
                            /\ server'[i].mine /\ server'[i].pc = "run"
            OBVIOUS
        <3>1. /\ server[i] \in ServerType
              /\ server'[i] = [server[i] EXCEPT !.mine = TRUE, !.pc = "run"]
            BY <2>1
        <3> QED BY <3>1
    <2> QED BY <2>1, <2>2 DEF Serving, Opened
<1>10. CASE (\E outcome \in Outcomes : OpenSearch(outcome)) \/ StartSearch
    BY <1>10, ServingFrame DEF OpenSearch, StartSearch, Goto, Loop, servers
<1>11. CASE announce
    BY <1>11, ServingFrame DEF announce, Goto, Loop, servers
<1>12. CASE StartAdvertiser
    BY <1>12, ServingFrame DEF StartAdvertiser, Idle, servers
<1>13. CASE \E i \in Ids : Search(i) \/ Receive(i) \/ PostResponse(i)
    BY <1>13, SearchFrame, ServingFrame
<1>14. CASE \E r \in Runs : Adv(r)
    BY <1>14, AdvertiserFrame, ServingFrame
<1>15. ASSUME NEW i \in Ids, Server(i) \/ Accept(i)
       PROVE  Serving'
    <2>1. UNCHANGED <<control, httpPort, httpList, running, bindFailed>>
        BY <1>15, ServerFrame
    <2>2. \A j \in Ids : /\ server'[j].sock = server[j].sock
                         /\ server'[j].port = server[j].port
                         /\ server'[j].mine = server[j].mine
        BY <1>15, ServerKeeps
    <2>3. \A j \in Ids : (/\ server[j].sock /\ server[j].mine
                          /\ server[j].pc \in {"run", "loop", "accept"}) =>
                         server'[j].pc \in {"run", "loop", "accept"}
        <3>1. \A j \in Ids : j # i => server'[j] = server[j]
            BY <1>15, ServerKeeps
        <3>2. (server[i].sock /\ server[i].mine) =>
                  server'[i].pc \in {"run", "loop", "accept"}
            <4>1. CASE RunServer(i)
                BY <4>1 DEF RunServer, Serve
            <4>2. CASE TestServer(i)
                BY <4>2 DEF TestServer, Serve
            <4>3. CASE Accept(i) \/ AcceptNull(i)
                BY <4>3 DEF Accept, AcceptNull, Serve
            <4> QED BY <1>15, <4>1, <4>2, <4>3 DEF Server
        <3> QED BY <3>1, <3>2
    <2>4. Opened => Opened'
        BY <2>1, <2>2 DEF Opened
    <2> QED BY <2>1, <2>2, <2>3, <2>4 DEF Serving, Opened
<1> QED BY <1>1, <1>2, <1>3, <1>4, <1>5, <1>6, <1>7, <1>8, <1>9, <1>10, <1>11, <1>12,
           <1>13, <1>14, <1>15 DEF Next, Control

LEMMA SilentStep ==
    ASSUME TypeOK, TodoOK, Silent, Next
    PROVE  Silent'
<1> DEFINE InTodo(a) == \E n \in 1..Len(control.todo) : control.todo[n] = a
           Quiet == \/ control.pc \in {"stopServers", "closeServers", "shut", "clear",
                            "detach", "shutAgain", "clearAgain", "open", "startServers",
                            "openSearch", "startSearch"}
                    \/ control.pc = "idle" /\ ~running
           Goal == /\ control'.pc = "byebye" =>
                         \A a \in Addrs : known'[a] = "device" => InTodo(a)'
                   /\ Quiet' => \A a \in Addrs : known'[a] # "device"
<1>0. /\ control \in ControlType
      /\ known \in [Addrs -> {"nobody", "device", "thread"}]
      /\ control.pc = "byebye" =>
            /\ \A a \in Addrs : known[a] = "device" => InTodo(a)
            /\ control.todo \in Seq(Addrs)
      /\ Quiet => \A a \in Addrs : known[a] # "device"
    BY TypeParts DEF Silent, TodoOK, At
<1> SUFFICES Goal
    BY DEF Silent, At
<1> USE <1>0 DEF ControlType, At
<1>1. ASSUME control'.pc # "byebye", known' = known, Quiet' => Quiet
      PROVE  Goal
    BY <1>1
<1>2. ASSUME UNCHANGED <<control, running>>,
             \A a \in Addrs : known'[a] = known[a] \/ known'[a] # "device"
      PROVE  Goal
    BY <1>2
<1>3. CASE start \/ stop
    <2>1. control'.pc = "byebye" /\ control'.todo = Addresses
        BY <1>3 DEF start, stop, Begin, Idle, GoodbyeTo
    <2>2. \A a \in Addrs : InTodo(a)'
        BY <2>1, AllAddresses
    <2> HIDE DEF InTodo
    <2> QED BY <2>1, <2>2
<1>4. CASE Byebye
    <2>0. /\ control.pc = "byebye"
          /\ \A a \in Addrs : known[a] = "device" => InTodo(a)
        BY <1>4 DEF Byebye
    <2>1. CASE control.todo = <<>>
        <3>1. \A a \in Addrs : ~InTodo(a)
            BY <2>1
        <3>2. known' = known /\ control'.pc = "stopServers"
            BY <1>4, <2>1 DEF Byebye, Goto
        <3> HIDE DEF InTodo
        <3> QED BY <2>0, <3>1, <3>2
    <2>2. CASE control.todo # <<>>
        <3>1. /\ Head(control.todo) \in Addrs
              /\ control'.pc = "byebye" /\ control'.todo = Tail(control.todo)
              /\ known' = [known EXCEPT ![Head(control.todo)] = "nobody"]
            BY <1>4, <2>0, <2>2, TailKeeps DEF Byebye, Loop
        <3>2. ASSUME NEW a \in Addrs, known'[a] = "device"
              PROVE  InTodo(a)'
            <4>1. a # Head(control.todo) /\ known[a] = "device"
                BY <3>1, <3>2
            <4>2. \E n \in 1..Len(Tail(control.todo)) : Tail(control.todo)[n] = a
                BY <2>0, <2>2, <4>1, TailKeeps
            <4> QED BY <3>1, <4>2
        <3> HIDE DEF InTodo
        <3> QED BY <3>1, <3>2
    <2> QED BY <2>1, <2>2
<1>5. ASSUME NEW r \in Runs, Adv(r)
      PROVE  Goal
    <2>1. \A a \in Addrs : known'[a] = known[a] \/ known'[a] # "device"
        BY <1>5 DEF Adv, TestAdvertiser, WakeUp, AnnounceAgain, Tell, told
    <2> HIDE DEF Goal
    <2> QED BY <1>2, <1>5, <2>1, AdvertiserFrame
<1> HIDE DEF Goal
<1>6. CASE \E i \in Ids : Server(i) \/ Accept(i) \/ Search(i) \/ Receive(i)
               \/ PostResponse(i)
    <2>1. UNCHANGED <<control, running>>
        BY <1>6, ServerFrame, SearchFrame
    <2>2. \A a \in Addrs : known'[a] = known[a] \/ known'[a] # "device"
        BY <1>0, <1>6, ServerFrame, SearchFrame
    <2> QED BY <1>2, <2>1, <2>2
<1>7. CASE setLeaseTime
    BY <1>1, <1>7 DEF setLeaseTime, Begin, Idle, told
<1>8. CASE StopServers \/ CloseServers
    BY <1>1, <1>8 DEF StopServers, CloseServers, Goto, Loop, told
<1>9. CASE ShutSocket \/ LeaveFails \/ ClearSocket \/ DetachSocket \/ CloseAgain
    BY <1>1, <1>9 DEF ShutSocket, LeaveFails, ClearSocket, DetachSocket, CloseAgain, Goto,
        Loop, told, adverts
<1>10. CASE StopAdvertiser
    BY <1>1, <1>10 DEF StopAdvertiser, Idle, told
<1>11. CASE RetryOpen
    BY <1>1, <1>11 DEF RetryOpen, Idle, told, adverts
<1>12. CASE (\E bound \in SUBSET Addrs : OpenServers(bound)) \/ StartServers
    BY <1>1, <1>12 DEF OpenServers, StartServers, Goto, told
<1>13. CASE (\E outcome \in Outcomes : OpenSearch(outcome)) \/ StartSearch
    BY <1>1, <1>13 DEF OpenSearch, StartSearch, Goto, Loop, told
<1>14. CASE announce
    <2>1. control'.pc \in {"announce", "advertise"}
        BY <1>14 DEF announce, Goto, Loop
    <2> QED BY <2>1 DEF Goal
<1>15. CASE StartAdvertiser
    BY <1>1, <1>15 DEF StartAdvertiser, Idle, told
<1> QED BY <1>3, <1>4, <1>5, <1>6, <1>7, <1>8, <1>9, <1>10, <1>11, <1>12, <1>13, <1>14,
           <1>15 DEF Next, Control
---------------------------------------------------------------------------
(* The theorems                                                            *)

LEMMA InvInit == Init => IInv
<1> SUFFICES ASSUME Init
             PROVE  IInv
    OBVIOUS
<1>1. TypeOK
    <2>1. Idle \in ControlType /\ NoServer \in ServerType /\ NoSearch \in SearchType
          /\ NoAdvertiser \in AdvertiserType
        BY EmptySeq DEF Idle, NoServer, NoSearch, NoAdvertiser, ControlType, ServerType,
           SearchType, AdvertiserType
    <2>2. /\ control \in ControlType /\ server \in [Ids -> ServerType]
          /\ search \in [Ids -> SearchType] /\ advertiser \in [Runs -> AdvertiserType]
        BY <2>1 DEF Init
    <2>3. starts \in 0..MaxStarts /\ httpPort \in Nat /\ advThread \in 0..MaxStarts
        BY NumbersAssumption DEF Init
    <2>4. /\ httpList \subseteq Ids /\ searchList \subseteq Ids
          /\ running \in BOOLEAN /\ bindFailed \in BOOLEAN
          /\ known \in [Addrs -> {"nobody", "device", "thread"}] /\ udnKnown \subseteq Addrs
        BY DEF Init
    <2> QED BY <2>2, <2>3, <2>4, TypeParts
<1>2. TodoOK /\ FreshRun /\ LateOnce /\ Closing /\ Serving /\ Silent
    BY NumbersAssumption DEF Init, Idle, NoServer, NoSearch, NoAdvertiser, At, TodoOK,
       FreshRun, LateOnce, Closing, ShutPcs, FirstPass, SecondPass, Tried, Serving, Silent
<1> QED BY <1>1, <1>2 DEF IInv

LEMMA InvStep == IInv /\ [Next]_vars => IInv'
<1> SUFFICES ASSUME IInv, [Next]_vars
             PROVE  IInv'
    OBVIOUS
<1> USE DEF IInv
<1>1. CASE Next
    BY <1>1, TypeStep, TodoStep, FreshStep, LateStep, ClosingStep, ServingStep, SilentStep
<1>2. CASE UNCHANGED vars
    <2>1. UNCHANGED <<control, starts, httpPort, httpList, server, searchList, search,
                      running, advThread, advertiser, known, udnKnown, bindFailed>>
        BY <1>2 DEF vars, servers, searches, adverts, told
    <2>2. TypeOK' /\ TodoOK' /\ FreshRun'
        BY <2>1 DEF TypeOK, TodoOK, FreshRun, At
    <2>3. LateOnce' /\ Serving' /\ Silent'
        BY <2>1 DEF LateOnce, Serving, Opened, Silent, At
    <2>4. Closing'
        BY <2>1 DEF Closing, ShutPcs, FirstPass, SecondPass, Tried, At
    <2> QED BY <2>2, <2>3, <2>4
<1> QED BY <1>1, <1>2

(* The invariant holds of Device and its threads, for every list of        *)
(* addresses, number of retries and number of calls.                       *)
THEOREM Invariance == Spec => []IInv
<1> QED BY InvInit, InvStep, PTL DEF Spec

(* Every variable of the device, its servers, sockets and advertisers      *)
(* keeps its type.                                                         *)
THEOREM TypeCorrect == Spec => []TypeOK
<1>1. IInv => TypeOK
    BY DEF IInv
<1> QED BY <1>1, Invariance, PTL

(* A thread of HTTPServer, SSDPSearchSocket or Advertiser that was told to *)
(* stop begins at most one more round of its loop.                         *)
THEOREM LateRoundOnly == Spec => []OneLateRound
<1>1. IInv => OneLateRound
    BY DEF IInv, LateOnce, OneLateRound
<1> QED BY <1>1, Invariance, PTL

(* Device.stop(), and a start() that fails, leave no server socket open    *)
(* and no search socket in its group, unless leaveGroup threw both times;  *)
(* and no open server is forgotten.                                        *)
THEOREM ClosedWhenStopped == Spec => []NothingLeftOpen
<1>1. IInv => NothingLeftOpen
    BY DEF IInv, Closing, Tried, NothingLeftOpen, isRunning
<1> QED BY <1>1, Invariance, PTL

(* After Device.start() every address that was bound is served, by a live  *)
(* thread and at the port of the LOCATION that is announced.               *)
THEOREM ServesWhenRunning == Spec => []RunningServes
<1>1. IInv => RunningServes
    BY DEF IInv, Serving, Opened, RunningServes, isRunning
<1> QED BY <1>1, Invariance, PTL

(* Device.stop() has taken back, at every address, what announce() said of *)
(* the device, but for the UDN by itself: the network believes it again    *)
(* only if an Advertiser, or a search thread that still answers, posts     *)
(* after the goodbye.                                                      *)
THEOREM GoodbyeStands == Spec => []GoodbyeIsSaid
<1>1. IInv => GoodbyeIsSaid
    BY DEF IInv, Silent, GoodbyeIsSaid, isRunning
<1> QED BY <1>1, Invariance, PTL
=============================================================================
