------------------------------- MODULE Control -------------------------------
(***************************************************************************)
(* Control requests of a device: SOAP invocations of its actions, and GETs *)
(* of its description, each on the HTTP connection thread it came in on.   *)
(*                                                                         *)
(* The arguments of an action are XML nodes of the service description,    *)
(* one per argument, shared by all requests.  The value is kept in an      *)
(* ArgumentData object that hangs on the node and is created by whoever    *)
(* first finds none.  A request writes its input arguments to the nodes,   *)
(* clears the outputs, calls the application's listener, which reads and   *)
(* writes the nodes, and builds its answer from them.  No lock is held     *)
(* (Action.lock is called by nobody).                                      *)
(*                                                                         *)
(* A request is a number.  It also stands for every value the request      *)
(* brings with it, for every result computed for it and for an             *)
(* ArgumentData it created: as if no two requests ever had a value in      *)
(* common, for equal values would only hide that they were mixed up.       *)
(***************************************************************************)
EXTENDS Integers, SequencesExt

CONSTANTS
    Threads,      \* HTTP connection threads
    Actions,      \* actions of the device's services
    InArgs,       \* of each action, its arguments of direction "in", in order
    OutArgs,      \* of each action, the other arguments, in order
    Hosts,        \* addresses of the host at which requests come in
    MaxRequests,  \* bound: requests received
    NoAction, NoHost, Nobody

In(a) == ToSet(InArgs[a])
Out(a) == ToSet(OutArgs[a])
Args(a) == In(a) \cup Out(a)
AllArgs == UNION {Args(a) : a \in Actions}
Requests == 1..MaxRequests

Blank == 0        \* the empty string; also: the node has no data yet
NotRead == -1

ASSUME ArgsAssumption ==
    /\ \A a \in Actions : /\ InArgs[a] \in Seq(In(a))
                          /\ OutArgs[a] \in Seq(Out(a))
                          /\ In(a) \cap Out(a) = {}
    /\ \A a, b \in Actions : a # b => Args(a) \cap Args(b) = {}
ASSUME BoundAssumption == MaxRequests \in Nat
ASSUME NamesAssumption ==
    NoAction \notin Actions /\ NoHost \notin Hosts /\ Nobody \notin Threads

VARIABLES
    userData,  \* the ArgumentData each argument node refers to
    value,     \* the value in each ArgumentData
    requests,  \* requests received so far
    call,      \* the request each thread is executing
    urlBase,   \* URLBase of the root node
    monitor    \* who is inside the device's synchronized methods

vars == <<userData, value, requests, call, urlBase, monitor>>

(***************************************************************************)
(* A request under execution.  "phase" is the loop over arguments it is    *)
(* in, "todo" the arguments that loop has still to visit, "data" the       *)
(* ArgumentData it got hold of for the first of them.  "got" is what the   *)
(* listener read of the inputs and what the answer says of the outputs.    *)
(* History: "during", the requests for the same action, this one included, *)
(* that were under execution at some time while this one was.              *)
(***************************************************************************)
Storing == {"in", "clear", "result"}
Loading == {"listen", "reply"}
PCs == {"idle", "argument", "create", "access", "render", "described"}

IdleCall ==
    [pc |-> "idle", phase |-> "in", action |-> NoAction, given |-> {},
     todo |-> <<>>, data |-> Blank, req |-> Blank,
     got |-> [x \in AllArgs |-> NotRead], during |-> {},
     host |-> NoHost, base |-> NoHost]

Arg(t) == Head(call[t].todo)
Visiting(t) == call[t].pc = "argument" /\ call[t].todo # <<>>
LoopDone(t) == call[t].pc = "argument" /\ call[t].todo = <<>>
Executing(a) == {t \in Threads : call[t].action = a}

Init ==
    /\ userData = [x \in AllArgs |-> Blank]
    /\ value = [r \in Requests |-> [x \in AllArgs |-> Blank]]
    /\ requests = 0
    /\ call = [t \in Threads |-> IdleCall]
    /\ urlBase = NoHost
    /\ monitor = Nobody

nodes == <<userData, value>>
description == <<urlBase, monitor>>

End(t) ==
    /\ call' = [call EXCEPT ![t] = IdleCall]
    /\ UNCHANGED <<nodes, requests, description>>

-----------------------------------------------------------------------------
(* SOAP action *)

(* Another request for one of the device's actions; "given" are the        *)
(* arguments in its body.                                                  *)
deviceActionControlRecieved(t, a, given) ==
    /\ call[t].pc = "idle"
    /\ requests < MaxRequests
    /\ requests' = requests + 1
    /\ call' = [u \in Threads |->
          IF u = t
          THEN [IdleCall EXCEPT !.pc = "argument", !.action = a, !.given = given,
                     !.todo = InArgs[a], !.req = requests',
                     !.during = {call[w].req : w \in Executing(a)} \cup {requests'}]
          ELSE IF u \in Executing(a)
               THEN [call[u] EXCEPT !.during = @ \cup {requests'}]
               ELSE call[u]]
    /\ UNCHANGED <<nodes, description>>

(* A mistake: missing arguments are passed over, as in ArgumentList.set. *)
MissingPassedOver(t) ==
    /\ Visiting(t) /\ call[t].phase = "in" /\ Arg(t) \notin call[t].given
    /\ call' = [call EXCEPT ![t].todo = Tail(@)]
    /\ UNCHANGED <<nodes, requests, description>>

(* A mistake: a missing argument is stored as a null value. *)
NullStored(t) ==
    /\ Visiting(t) /\ call[t].phase = "in" /\ Arg(t) \notin call[t].given
    /\ userData[Arg(t)] # Blank
    /\ value' = [value EXCEPT ![userData[Arg(t)]][Arg(t)] = NotRead]
    /\ call' = [call EXCEPT ![t].todo = Tail(@)]
    /\ UNCHANGED <<userData, requests, description>>

(* setReqArgs throws: the answer is "invalid arguments". *)
missingArgument(t) ==
    /\ Visiting(t) /\ call[t].phase = "in" /\ Arg(t) \notin call[t].given
    /\ End(t)

(* The data of an argument's node, which the node may not have yet. *)
getArgumentData(t) ==
    /\ Visiting(t)
    /\ call[t].phase = "in" => Arg(t) \in call[t].given
    /\ call' = [call EXCEPT ![t].pc = IF userData[Arg(t)] = Blank THEN "create"
                                      ELSE "access",
                            ![t].data = userData[Arg(t)]]
    /\ UNCHANGED <<nodes, requests, description>>

(* A mistake: the new data is not attached to the node. *)
DataNotAttached(t) ==
    /\ call[t].pc = "create"
    /\ value' = [value EXCEPT ![call[t].req][Arg(t)] = Blank]
    /\ call' = [call EXCEPT ![t].pc = "access", ![t].data = call[t].req]
    /\ UNCHANGED <<userData, requests, description>>

setUserData(t) ==
    /\ call[t].pc = "create"
    /\ userData' = [userData EXCEPT ![Arg(t)] = call[t].req]
    /\ value' = [value EXCEPT ![call[t].req][Arg(t)] = Blank]
    /\ call' = [call EXCEPT ![t].pc = "access", ![t].data = call[t].req]
    /\ UNCHANGED <<requests, description>>

setValue(t) ==
    /\ call[t].pc = "access" /\ call[t].phase \in Storing
    /\ value' = [value EXCEPT ![call[t].data][Arg(t)] =
                   IF call[t].phase = "clear" THEN Blank ELSE call[t].req]
    /\ call' = [call EXCEPT ![t].pc = "argument", ![t].todo = Tail(@)]
    /\ UNCHANGED <<userData, requests, description>>

getValue(t) ==
    /\ call[t].pc = "access" /\ call[t].phase \in Loading
    /\ call' = [call EXCEPT ![t].pc = "argument", ![t].todo = Tail(@),
                    ![t].got[Arg(t)] = value[call[t].data][Arg(t)]]
    /\ UNCHANGED <<nodes, requests, description>>

(* The listener need not set every output. *)
LeaveOutput(t) ==
    /\ Visiting(t) /\ call[t].phase = "result"
    /\ call' = [call EXCEPT ![t].todo = Tail(@)]
    /\ UNCHANGED <<nodes, requests, description>>

Go(t, from, to, args) ==
    /\ LoopDone(t) /\ call[t].phase = from
    /\ call' = [call EXCEPT ![t].phase = to, ![t].todo = args]
    /\ UNCHANGED <<nodes, requests, description>>

(* A mistake: the outputs of earlier requests are left in place. *)
OutputsKept(t) == Go(t, "in", "clear", <<>>)

(* A mistake: every argument is cleared. *)
AllCleared(t) ==
    Go(t, "in", "clear", InArgs[call[t].action] \o OutArgs[call[t].action])

clearOutputAgumentValues(t) == Go(t, "in", "clear", OutArgs[call[t].action])

actionControlReceived(t) == Go(t, "clear", "listen", InArgs[call[t].action])

SetOutputs(t) == Go(t, "listen", "result", OutArgs[call[t].action])

createResponseNode(t) == Go(t, "result", "reply", OutArgs[call[t].action])

(* The listener declines, before or after it set outputs: the answer is a  *)
(* fault with the status kept in the request's own Action object.          *)
Decline(t) ==
    /\ call[t].pc = "argument" /\ call[t].phase \in {"listen", "result"}
    /\ End(t)

Reply(t) == LoopDone(t) /\ call[t].phase = "reply" /\ End(t)

-----------------------------------------------------------------------------
(* GET of the description: getDescriptionData is synchronized *)

(* A mistake: getDescriptionData is not synchronized. *)
UnguardedDescription(t, h) ==
    /\ call[t].pc = "idle"
    /\ requests < MaxRequests
    /\ requests' = requests + 1
    /\ monitor' = t
    /\ urlBase' = h
    /\ call' = [call EXCEPT ![t] = [IdleCall EXCEPT !.pc = "render", !.host = h]]
    /\ UNCHANGED nodes

updateURLBase(t, h) ==
    /\ call[t].pc = "idle"
    /\ requests < MaxRequests
    /\ monitor = Nobody
    /\ requests' = requests + 1
    /\ monitor' = t
    /\ urlBase' = h
    /\ call' = [call EXCEPT ![t] = [IdleCall EXCEPT !.pc = "render", !.host = h]]
    /\ UNCHANGED nodes

renderDescription(t) ==
    /\ call[t].pc = "render"
    /\ call' = [call EXCEPT ![t].pc = "described", ![t].base = urlBase]
    /\ monitor' = Nobody
    /\ UNCHANGED <<nodes, requests, urlBase>>

SendDescription(t) == call[t].pc = "described" /\ End(t)

-----------------------------------------------------------------------------
Arrive(t) ==
    \/ \E a \in Actions : \E given \in SUBSET In(a) :
          deviceActionControlRecieved(t, a, given)
    \/ \E h \in Hosts : updateURLBase(t, h)

Continue(t) ==
    \/ missingArgument(t) \/ getArgumentData(t) \/ setUserData(t)
    \/ setValue(t) \/ getValue(t) \/ LeaveOutput(t)
    \/ clearOutputAgumentValues(t) \/ actionControlReceived(t)
    \/ SetOutputs(t) \/ createResponseNode(t) \/ Decline(t) \/ Reply(t)
    \/ renderDescription(t) \/ SendDescription(t)

Next == \E t \in Threads : Arrive(t) \/ Continue(t)

Spec == Init /\ [][Next]_vars

-----------------------------------------------------------------------------
(* Properties *)

Datum == Requests \cup {Blank}

Call ==
    [pc : PCs, phase : Storing \cup Loading, action : Actions \cup {NoAction},
     given : SUBSET AllArgs, todo : Seq(AllArgs), data : Datum, req : Datum,
     got : [AllArgs -> Datum \cup {NotRead}], during : SUBSET Requests,
     host : Hosts \cup {NoHost}, base : Hosts \cup {NoHost}]

TypeOK ==
    /\ userData \in [AllArgs -> Datum]
    /\ value \in [Requests -> [AllArgs -> Datum]]
    /\ requests \in 0..MaxRequests
    /\ call \in [Threads -> Call]
    /\ urlBase \in Hosts \cup {NoHost}
    /\ monitor \in Threads \cup {Nobody}

Current(t) == call[t].during \cup {NotRead, Blank}

(* What the listener reads of its inputs was sent by this request or by    *)
(* one executing at the same time, or is not there yet: never the input    *)
(* of a request that was over before this one began.                       *)
InputsAreCurrent ==
    \A t \in Threads : \A a \in Actions : \A x \in In(a) :
        call[t].got[x] \in Current(t)

(* An answer tells no result of a request that was over before this one    *)
(* began, even when the listener leaves outputs unset: one control point   *)
(* is not told what an earlier one asked for.                              *)
RepliesAreCurrent ==
    \A t \in Threads : \A a \in Actions : \A x \in Out(a) :
        call[t].got[x] \in Current(t)

(* A request that met no other for its action is served with exactly its   *)
(* own inputs, and answered with exactly its own results.                  *)
AloneIsExact ==
    \A t \in Threads : call[t].during = {call[t].req} =>
        \A x \in Args(call[t].action) :
            /\ x \in In(call[t].action) => call[t].got[x] \in {NotRead, call[t].req}
            /\ x \in Out(call[t].action) =>
                  call[t].got[x] \in {NotRead, Blank, call[t].req}

(* The data a request is about to read or write is the data of the node,   *)
(* unless a request of the same time has just put another in its place:    *)
(* what is lost because two created data at once is lost at first use, and *)
(* never later.                                                            *)
LostAtFirstUseOnly ==
    \A t \in Threads : call[t].pc = "access" /\ call[t].data # userData[Arg(t)] =>
        userData[Arg(t)] \in call[t].during

(* A description names, as the base of its URLs, the address of the host   *)
(* at which it was asked for.                                              *)
DescriptionNamesItsAddress ==
    \A t \in Threads : call[t].pc = "described" => call[t].base = call[t].host
=============================================================================
