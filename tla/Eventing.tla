------------------------------ MODULE Eventing ------------------------------
(***************************************************************************)
(* General event notification of one UPnP service: StateVariable.setValue, *)
(* Service.notify / notifyAllStateVariables, and the device's handlers for *)
(* SUBSCRIBE, renewal and UNSUBSCRIBE.                                     *)
(*                                                                         *)
(* Every HTTP connection has a thread of its own (HTTPServerThread) and    *)
(* the UI thread sets state variables too.  None of them takes a lock: the *)
(* SubscriberList is a Vector, so each single size(), get, add and remove  *)
(* is atomic and nothing else is.  One action is one such access to shared *)
(* state, with the thread-local work around it.                            *)
(***************************************************************************)
EXTENDS Integers, SequencesExt

CONSTANTS
    Threads,     \* HTTP connection threads and the UI thread
    Subs,        \* the SIDs that Subscription.createSID() may hand out
    StateTable,  \* ServiceStateTable: the state variables in order
    Evented,     \* the variables with sendEvents="yes"
    Values,      \* what a variable may hold
    InitValue,   \* what every variable holds at start
    Timeouts,    \* TIMEOUT headers of requests, in clock ticks; -1: infinite
    Silent,      \* subscribers that accept a NOTIFY and never answer it
    Portless,    \* subscribers whose callback URL names no port
    MaxCount,    \* Long.MAX_VALUE
    MaxClock,    \* bound: the clock stops here
    MaxWrites,   \* bound: state variables are set this often
    NoSub        \* no SID

INFINITE == -1                      \* Subscription.INFINITE_VALUE
Vars == ToSet(StateTable)

ASSUME ThreadsAssumption == IsFiniteSet(Threads)
ASSUME TableAssumption == StateTable \in Seq(Vars) /\ StateTable # <<>>
ASSUME EventedAssumption == Evented \subseteq Vars
ASSUME ValuesAssumption == InitValue \in Values
ASSUME NoSubAssumption == NoSub \notin Subs
ASSUME TimeoutsAssumption == Timeouts \subseteq Nat \cup {INFINITE}
ASSUME BoundsAssumption ==
    /\ MaxCount \in Nat \ {0}
    /\ MaxClock \in Nat
    /\ MaxWrites \in Nat

VARIABLES
    value,             \* StateVariableData.value of each variable
    subscriberList,    \* the Vector of subscribers, as their SIDs
    timeOut,           \* Subscriber.timeOut
    subscriptionTime,  \* Subscriber.subscriptionTime
    notifyCount,       \* Subscriber.notifyCount, the SEQ of its next event
    issued,            \* SIDs handed out so far
    clock,             \* System.currentTimeMillis()
    writes,            \* counts setValue calls against MaxWrites
    call,              \* the call each thread is executing
    received,          \* history: events that reached a subscriber (counted
                       \* up to MaxCount) and the SEQ of the last
    owed               \* history: <<s, v>> if s is still owed the value of v

lists == <<subscriberList, timeOut, subscriptionTime, issued>>
vars == <<value, lists, notifyCount, clock, writes, call, received, owed>>

(***************************************************************************)
(* A thread's call: where it is and its local variables.  "snap" is the    *)
(* array subs[] of Service.notify from the element being handled onwards,  *)
(* "todo" the variables still to be notified, headed by the current one.   *)
(* Histories: "began" is the time the notify round began, "disturbed"      *)
(* whether another thread removed a subscriber while the list is copied    *)
(* for the notifications, or searched for an SID.  A local variable that   *)
(* is not used any more goes back to its value in IdleCall.                *)
(***************************************************************************)
PCs == {"idle", "store", "table", "expire", "lapse", "sum", "drop", "notify",
        "seq", "post", "count", "wrap", "plus", "increment", "find", "renew",
        "retime", "recount", "unsubscribe"}

IdleCall ==
    [pc |-> "idle", op |-> "none", todo |-> <<>>, val |-> InitValue,
     secs |-> 0, sid |-> NoSub, size |-> 0, idx |-> 1, snap |-> <<>>,
     seq |-> 0, now |-> 0, at |-> 0, began |-> 0, disturbed |-> FALSE]

Pending(todo) ==
    IF todo = <<>> THEN IdleCall
    ELSE [IdleCall EXCEPT !.pc = "table", !.todo = todo]

Scanning(t) == call[t].idx <= call[t].size
Scanned(t) == ~Scanning(t)
Var(t) == Head(call[t].todo)
Sub(t) == Head(call[t].snap)

(* A mistake: the last second of the lease is counted twice. *)
LapsedLate(time, secs, now) == time + secs + 1 < now

Lapsed(time, secs, now) == time + secs < now

(* A mistake: an infinite lease is taken for one of -1 seconds.            *)
AlwaysFinite(s) == TRUE

IsFinite(s) == timeOut[s] # INFINITE

Init ==
    /\ value = [v \in Vars |-> InitValue]
    /\ subscriberList = <<>>
    /\ timeOut = [s \in Subs |-> 0]
    /\ subscriptionTime = [s \in Subs |-> 0]
    /\ notifyCount = [s \in Subs |-> 0]
    /\ issued = {}
    /\ clock = 0
    /\ writes = 0
    /\ call = [t \in Threads |-> IdleCall]
    /\ received = [s \in Subs |-> [events |-> 0, seq |-> -1]]
    /\ owed = {}

-----------------------------------------------------------------------------
(* StateVariable.setValue *)

(* The current value is read and compared; an equal one ends the call. *)
SetValue(t, v, x) ==
    /\ call[t].pc = "idle"
    /\ writes < MaxWrites
    /\ value[v] # x
    /\ writes' = writes + 1
    /\ call' = [call EXCEPT ![t] =
                  [IdleCall EXCEPT !.pc = "store", !.todo = <<v>>, !.val = x]]
    /\ UNCHANGED <<value, lists, notifyCount, clock, received, owed>>

Store(t) ==
    /\ call[t].pc = "store"
    /\ value' = [value EXCEPT ![Var(t)] = call[t].val]
    /\ \/ /\ Var(t) \in Evented
          /\ owed' = owed \cup (ToSet(subscriberList) \X {Var(t)})
          /\ call' = [call EXCEPT ![t] = Pending(call[t].todo)]
       \/ /\ Var(t) \notin Evented
          /\ call' = [call EXCEPT ![t] = IdleCall]
          /\ UNCHANGED owed
    /\ UNCHANGED <<lists, notifyCount, clock, writes, received>>

-----------------------------------------------------------------------------
(* Service.notify(StateVariable), and the loop of notifyAllStateVariables *)

SkipVariable(t) ==
    /\ call[t].pc = "table"
    /\ Var(t) \notin Evented
    /\ call' = [call EXCEPT ![t] = Pending(Tail(call[t].todo))]
    /\ UNCHANGED <<value, lists, notifyCount, clock, writes, received, owed>>

StartScan(c, pc) ==
    [c EXCEPT !.pc = pc, !.size = Len(subscriberList), !.idx = 1, !.snap = <<>>,
              !.disturbed = FALSE]

BeginRound(t) ==
    /\ call[t].pc = "table"
    /\ Var(t) \in Evented
    /\ call' = [call EXCEPT ![t] =
                  [StartScan(call[t], "expire") EXCEPT !.began = clock]]
    /\ UNCHANGED <<value, lists, notifyCount, clock, writes, received, owed>>

(* Mistakes: the null is kept; the index is one too high. *)
CopiedWithNull(t) ==
    Append(call[t].snap, IF call[t].idx <= Len(subscriberList)
                         THEN subscriberList[call[t].idx] ELSE NoSub)
CopiedNext(t) ==
    IF call[t].idx < Len(subscriberList)
    THEN Append(call[t].snap, subscriberList[call[t].idx + 1])
    ELSE call[t].snap

(* subs[n] = subList.getSubscriber(n): null once the list has shrunk. *)
Copied(t) ==
    IF call[t].idx <= Len(subscriberList)
    THEN Append(call[t].snap, subscriberList[call[t].idx])
    ELSE call[t].snap

CopyNext(t) == [call EXCEPT ![t].snap = Copied(t), ![t].idx = @ + 1]

ExpireCopy(t) ==
    /\ call[t].pc = "expire"
    /\ Scanning(t)
    /\ call' = CopyNext(t)
    /\ UNCHANGED <<value, lists, notifyCount, clock, writes, received, owed>>

(* Subscriber.isExpired reads the time, then the timeout; if that is not   *)
(* INFINITE, the subscription's time, and then the timeout once more.      *)
ExpireTest(t) ==
    /\ call[t].pc = "expire"
    /\ Scanned(t)
    /\ call[t].snap # <<>>
    /\ call' = IF IsFinite(Sub(t))
               THEN [call EXCEPT ![t].pc = "lapse", ![t].now = clock]
               ELSE [call EXCEPT ![t].snap = Tail(@)]
    /\ UNCHANGED <<value, lists, notifyCount, clock, writes, received, owed>>

ExpireTime(t) ==
    /\ call[t].pc = "lapse"
    /\ call' = [call EXCEPT ![t].pc = "sum", ![t].at = subscriptionTime[Sub(t)]]
    /\ UNCHANGED <<value, lists, notifyCount, clock, writes, received, owed>>

ExpireSum(t) ==
    /\ call[t].pc = "sum"
    /\ call' = IF Lapsed(call[t].at, timeOut[Sub(t)], call[t].now)
               THEN [call EXCEPT ![t].pc = "drop", ![t].now = 0, ![t].at = 0]
               ELSE [call EXCEPT ![t].pc = "expire", ![t].now = 0, ![t].at = 0,
                                 ![t].snap = Tail(@)]
    /\ UNCHANGED <<value, lists, notifyCount, clock, writes, received, owed>>

(* Vector.remove(Object): the first occurrence goes, what follows moves up. *)
FirstIndex(q, s) ==
    CHOOSE k \in 1..Len(q) : q[k] = s /\ \A j \in 1..(k - 1) : q[j] # s

Without(q, s) == IF s \in ToSet(q) THEN RemoveAt(q, FirstIndex(q, s)) ELSE q

(* The copies of a notify round and the lookups that a removal can mislead. *)
Walking(u) == call[u].pc = "find" \/ (call[u].pc = "notify" /\ Scanning(u))

(* removeSubscriber by thread t, which goes on with call c. *)
removeSubscriber(t, s, c) ==
    /\ subscriberList' = Without(subscriberList, s)
    /\ owed' = owed \ ({s} \X Vars)
    /\ call' = [u \in Threads |->
                  IF u = t THEN c
                  ELSE IF Walking(u) /\ s \in ToSet(subscriberList)
                       THEN [call[u] EXCEPT !.disturbed = TRUE]
                       ELSE call[u]]
    /\ UNCHANGED <<value, timeOut, subscriptionTime, notifyCount, issued,
                   clock, writes, received>>

ExpireDrop(t) ==
    /\ call[t].pc = "drop"
    /\ removeSubscriber(t, Sub(t), [call[t] EXCEPT !.pc = "expire", !.snap = Tail(@)])

NotifyStart(t) ==
    /\ call[t].pc = "expire"
    /\ Scanned(t)
    /\ call[t].snap = <<>>
    /\ call' = [call EXCEPT ![t] = StartScan(call[t], "notify")]
    /\ UNCHANGED <<value, lists, notifyCount, clock, writes, received, owed>>

(* History: who is missing from the copy of a disturbed round is no longer *)
(* owed anything by it.                                                    *)
NotifyCopy(t) ==
    /\ call[t].pc = "notify"
    /\ Scanning(t)
    /\ call' = CopyNext(t)
    /\ owed' = IF call[t].idx = call[t].size /\ call[t].disturbed
               THEN owed \ ((ToSet(subscriberList) \ ToSet(Copied(t))) \X {Var(t)})
               ELSE owed
    /\ UNCHANGED <<value, lists, notifyCount, clock, writes, received>>

(* Service.notify(Subscriber, StateVariable): the value is read, then the  *)
(* SEQ, then the request is posted, then the count is tested and goes up.  *)
ReadValue(t) ==
    /\ call[t].pc = "notify"
    /\ Scanned(t)
    /\ call[t].snap # <<>>
    /\ call' = [call EXCEPT ![t].pc = "seq", ![t].val = value[Var(t)],
                            ![t].size = 0, ![t].idx = 1, ![t].disturbed = FALSE]
    /\ UNCHANGED <<value, lists, notifyCount, clock, writes, received, owed>>

ReadSeq(t) ==
    /\ call[t].pc = "seq"
    /\ call' = [call EXCEPT ![t].pc = "post", ![t].seq = notifyCount[Sub(t)]]
    /\ UNCHANGED <<value, lists, notifyCount, clock, writes, received, owed>>

NextSubscriber(t) ==
    [call EXCEPT ![t] = [call[t] EXCEPT !.pc = "notify", !.snap = Tail(@),
                                        !.val = InitValue, !.seq = 0]]

ToCount(t) ==
    [call EXCEPT ![t].pc = "count", ![t].val = InitValue, ![t].seq = 0]

(* Mistakes: every post counts, successful or not; a failed post ends the  *)
(* round.                                                                  *)
CountEveryPost(t, outcome) == ToCount(t)

AbortOnFailure(t, outcome) ==
    IF outcome = "answered" THEN ToCount(t)
    ELSE [call EXCEPT ![t] = Pending(Tail(call[t].todo))]

AfterPost(t, outcome) ==
    IF outcome = "answered" THEN ToCount(t) ELSE NextSubscriber(t)

(* The request may arrive and be answered with success, arrive without a   *)
(* successful answer getting back, or not arrive.                          *)
Post(t, outcome) ==
    /\ call[t].pc = "post"
    /\ Sub(t) \notin Silent \cup Portless
    /\ received' = IF outcome = "failed" THEN received
                   ELSE [received EXCEPT ![Sub(t)] =
                           [events |-> IF @.events = MaxCount THEN MaxCount
                                       ELSE @.events + 1,
                            seq |-> call[t].seq]]
    /\ owed' = IF call[t].val = value[Var(t)] THEN owed \ {<<Sub(t), Var(t)>>}
               ELSE owed
    /\ call' = AfterPost(t, outcome)
    /\ UNCHANGED <<value, lists, notifyCount, clock, writes>>

(* Without a port, InetSocketAddress throws what post does not catch: the  *)
(* whole call ends there, and on Android the process with it, which is a   *)
(* behaviour of this model that stops.                                     *)
PostThrows(t) ==
    /\ call[t].pc = "post"
    /\ Sub(t) \in Portless
    /\ call' = [call EXCEPT ![t] = IdleCall]
    /\ UNCHANGED <<value, lists, notifyCount, clock, writes, received, owed>>

(* incrementNotifyCount: the count is read for the test; at the maximum it *)
(* becomes 1, else ++ reads it again and writes the sum.                   *)
TestCount(t) ==
    /\ call[t].pc = "count"
    /\ call' = [call EXCEPT
                  ![t].pc = IF notifyCount[Sub(t)] = MaxCount THEN "wrap" ELSE "plus"]
    /\ UNCHANGED <<value, lists, notifyCount, clock, writes, received, owed>>

ReadCount(t) ==
    /\ call[t].pc = "plus"
    /\ call' = [call EXCEPT ![t].pc = "increment", ![t].seq = notifyCount[Sub(t)]]
    /\ UNCHANGED <<value, lists, notifyCount, clock, writes, received, owed>>

(* ++ of a long. *)
PlusOne(n) == IF n = MaxCount THEN -MaxCount - 1 ELSE n + 1

incrementNotifyCount(t) ==
    /\ \/ /\ call[t].pc = "wrap"
          /\ notifyCount' = [notifyCount EXCEPT ![Sub(t)] = 1]
       \/ /\ call[t].pc = "increment"
          /\ notifyCount' = [notifyCount EXCEPT ![Sub(t)] = PlusOne(call[t].seq)]
    /\ call' = NextSubscriber(t)
    /\ UNCHANGED <<value, lists, clock, writes, received, owed>>

EndRound(t) ==
    /\ call[t].pc = "notify"
    /\ Scanned(t)
    /\ call[t].snap = <<>>
    /\ call' = [call EXCEPT ![t] = Pending(Tail(call[t].todo))]
    /\ UNCHANGED <<value, lists, notifyCount, clock, writes, received, owed>>

-----------------------------------------------------------------------------
(* The device's handlers of subscription requests *)

(* A mistake: an SID is handed out again. *)
ReissueAny(s) == s \in Subs

(* Subscription.createSID() is a UUID: never the same twice. *)
createSID(s) == s \notin issued

(* deviceEventNewSubscriptionRecieved; every subscriber, old or new, is    *)
(* then notified of every evented variable.                                *)
Subscribe(t, s, secs) ==
    /\ call[t].pc = "idle"
    /\ createSID(s)
    /\ issued' = issued \cup {s}
    /\ timeOut' = [timeOut EXCEPT ![s] = secs]
    /\ subscriptionTime' = [subscriptionTime EXCEPT ![s] = clock]
    /\ notifyCount' = [notifyCount EXCEPT ![s] = 0]
    /\ subscriberList' = Append(subscriberList, s)
    /\ owed' = owed \cup ({s} \X Evented)
    /\ call' = [call EXCEPT ![t] = Pending(StateTable)]
    /\ UNCHANGED <<value, clock, writes, received>>

(* Service.getSubscriber(sid) reads the size once, then element by element. *)
Lookup(t, s, op, secs) ==
    /\ call[t].pc = "idle"
    /\ s \in issued
    /\ call' = [call EXCEPT ![t] = [StartScan(IdleCall, "find") EXCEPT
                                      !.op = op, !.sid = s, !.secs = secs]]
    /\ UNCHANGED <<value, lists, notifyCount, clock, writes, received, owed>>

(* A mistake: the last element is never looked at. *)
IsHereButLast(t) ==
    /\ call[t].idx < Len(subscriberList)
    /\ subscriberList[call[t].idx] = call[t].sid

IsHere(t) ==
    /\ call[t].idx <= Len(subscriberList)
    /\ subscriberList[call[t].idx] = call[t].sid

Found(t) ==
    [call EXCEPT ![t] = [IdleCall EXCEPT !.pc = call[t].op, !.sid = call[t].sid,
                                         !.secs = call[t].secs]]

Find(t) ==
    /\ call[t].pc = "find"
    /\ Scanning(t)
    /\ call' = IF IsHere(t) THEN Found(t)
               ELSE [call EXCEPT ![t].idx = @ + 1]
    /\ UNCHANGED <<value, lists, notifyCount, clock, writes, received, owed>>

(* No such SID: 412 Precondition Failed. *)
NotFound(t) ==
    /\ call[t].pc = "find"
    /\ Scanned(t)
    /\ call' = [call EXCEPT ![t] = IdleCall]
    /\ UNCHANGED <<value, lists, notifyCount, clock, writes, received, owed>>

RenewTimeOut(t) ==
    /\ call[t].pc = "renew"
    /\ timeOut' = [timeOut EXCEPT ![call[t].sid] = call[t].secs]
    /\ call' = [call EXCEPT ![t].pc = "retime"]
    /\ UNCHANGED <<value, subscriberList, subscriptionTime, issued, notifyCount,
                   clock, writes, received, owed>>

(* Subscriber.renew: the time, then the SEQ, which starts from 0 again (so *)
(* does the history of what the subscriber expects).                       *)
RenewTime(t) ==
    /\ call[t].pc = "retime"
    /\ subscriptionTime' = [subscriptionTime EXCEPT ![call[t].sid] = clock]
    /\ call' = [call EXCEPT ![t].pc = "recount"]
    /\ UNCHANGED <<value, subscriberList, timeOut, issued, notifyCount, clock,
                   writes, received, owed>>

RenewCount(t) ==
    /\ call[t].pc = "recount"
    /\ notifyCount' = [notifyCount EXCEPT ![call[t].sid] = 0]
    /\ received' = [received EXCEPT ![call[t].sid].seq = -1]
    /\ call' = [call EXCEPT ![t] = IdleCall]
    /\ UNCHANGED <<value, lists, clock, writes, owed>>

Unsubscribe(t) ==
    /\ call[t].pc = "unsubscribe"
    /\ removeSubscriber(t, call[t].sid, IdleCall)

Tick ==
    /\ clock < MaxClock
    /\ clock' = clock + 1
    /\ UNCHANGED <<value, lists, notifyCount, writes, call, received, owed>>

-----------------------------------------------------------------------------
(* A request or a setter enters; everything else continues a call. *)
Enter(t) ==
    \/ \E v \in Vars, x \in Values : SetValue(t, v, x)
    \/ \E s \in Subs, secs \in Timeouts : \/ Subscribe(t, s, secs)
                                          \/ Lookup(t, s, "renew", secs)
    \/ \E s \in Subs : Lookup(t, s, "unsubscribe", 0)

Outcomes == {"answered", "unanswered", "failed"}

Continue(t) ==
    \/ Store(t) \/ SkipVariable(t) \/ BeginRound(t)
    \/ ExpireCopy(t) \/ ExpireTest(t) \/ ExpireTime(t) \/ ExpireSum(t)
    \/ ExpireDrop(t) \/ NotifyStart(t) \/ NotifyCopy(t)
    \/ ReadValue(t) \/ ReadSeq(t)
    \/ (\E outcome \in Outcomes : Post(t, outcome)) \/ PostThrows(t)
    \/ TestCount(t) \/ ReadCount(t) \/ incrementNotifyCount(t) \/ EndRound(t)
    \/ Find(t) \/ NotFound(t) \/ Unsubscribe(t)
    \/ RenewTimeOut(t) \/ RenewTime(t) \/ RenewCount(t)

Next == Tick \/ \E t \in Threads : Enter(t) \/ Continue(t)

Spec == Init /\ [][Next]_vars

(* The Java scheduler runs every runnable thread; a post ends because the  *)
(* connection has a timeout and the peer, unless Silent, answers or closes.*)
FairSpec == Spec /\ \A t \in Threads : WF_vars(Continue(t))

-----------------------------------------------------------------------------
(* Properties *)

(* What a long holds, from Long.MIN_VALUE to Long.MAX_VALUE.               *)
Longs == (-MaxCount - 1)..MaxCount

Call == [pc: PCs, op: {"none", "renew", "unsubscribe"}, todo: Seq(Vars),
         val: Values, secs: Timeouts \cup {0}, sid: Subs \cup {NoSub},
         size: Nat, idx: Nat \ {0}, snap: Seq(Subs), seq: Longs, now: Nat,
         at: Nat, began: Nat, disturbed: BOOLEAN]

(* Every variable holds a value of its type. *)
TypeOK ==
    /\ value \in [Vars -> Values]
    /\ subscriberList \in Seq(Subs)
    /\ timeOut \in [Subs -> Timeouts \cup {0}]
    /\ subscriptionTime \in [Subs -> Nat]
    /\ notifyCount \in [Subs -> Longs]
    /\ issued \in SUBSET Subs
    /\ clock \in Nat
    /\ writes \in Nat
    /\ call \in [Threads -> Call]
    /\ received \in [Subs -> [events: 0..MaxCount, seq: Longs]]
    /\ owed \in SUBSET (Subs \X Evented)

(* The list (Service.addSubscriber / removeSubscriber, the handlers and    *)
(* the expiry of a notify round together) never holds a subscription twice *)
(* nor one whose SID was never handed out, so that no round tells the same *)
(* control point twice.                                                    *)
ListWellFormed ==
    /\ ToSet(subscriberList) \subseteq issued
    /\ \A i, j \in 1..Len(subscriberList) :
          subscriberList[i] = subscriberList[j] => i = j

(* A copy of the list that no removal disturbed is exact: what has been    *)
(* copied so far is the list's beginning, whatever was added meanwhile     *)
(* (the second loop of Service.notify).                                    *)
ExactCopy ==
    \A t \in Threads :
        (call[t].pc = "notify" /\ Scanning(t) /\ ~call[t].disturbed) =>
            /\ call[t].size <= Len(subscriberList)
            /\ call[t].snap = SubSeq(subscriberList, 1, call[t].idx - 1)

(* The SEQ of a subscription never runs ahead of the events it received:   *)
(* concurrent rounds may repeat a SEQ or lose a count, but a lost count is *)
(* all that can go wrong with it (Service.notify increments after success).*)
SeqNeverOvertakes ==
    \A s \in Subs : notifyCount[s] <= received[s].events

(* The expiry of a round (Service.java:744, "Remove expired subscribers")  *)
(* drops only a subscription whose lease has run out, although isExpired   *)
(* adds up times and timeouts it read apart, unless the subscription is    *)
(* being renewed or was renewed since the round began.                     *)
DroppedOnlyIfLapsed ==
    \A t \in Threads : call[t].pc = "drop" =>
        LET s == Sub(t)
        IN  \/ timeOut[s] # INFINITE /\ subscriptionTime[s] + timeOut[s] < clock
            \/ subscriptionTime[s] >= call[t].began
            \/ \E u \in Threads : call[u].pc = "retime" /\ call[u].sid = s

(* A renewal or an UNSUBSCRIBE is refused (412) only if the subscription   *)
(* is not listed, or if a removal shifted the list during the lookup of    *)
(* Service.getSubscriber.                                                  *)
RefusedOnlyIfGone ==
    [][\A t \in Threads :
         (call[t].pc = "find" /\ call'[t].pc = "idle" /\ ~call[t].disturbed)
            => call[t].sid \notin ToSet(subscriberList)]_vars

(* The SEQ after n: 0 is the key of the first event only.                  *)
NextCount(n) == IF n = MaxCount THEN 1 ELSE n + 1

(* With a single thread, the SEQs of a subscription are consecutive: the   *)
(* next event carries the next SEQ, or repeats the last one after an       *)
(* answer that was lost; a renewal starts again from 0.                    *)
SeqInOrder ==
    [][\A t \in Threads : call[t].pc = "post" /\ call'[t].pc # "post" =>
         LET s == Sub(t)
             old == received[s].seq
             new == received'[s].seq
         IN  \/ new = old
             \/ new = IF old = -1 THEN 0 ELSE NextCount(old)]_vars

(* With a single thread, a subscription that had lapsed when a round began *)
(* gets no event of that round (the first loop of Service.notify).         *)
LapsedIsNotNotified ==
    \A t \in Threads : call[t].pc \in {"seq", "post"} =>
        \/ timeOut[Sub(t)] = INFINITE
        \/ subscriptionTime[Sub(t)] + timeOut[Sub(t)] >= call[t].began

(* The service implements the abstract channel: see EventChannel. *)
Channel == INSTANCE EventChannel WITH
    active <- ToSet(subscriberList),
    gone <- issued \ ToSet(subscriberList)

ImplementsChannel == Channel!Spec
=============================================================================
