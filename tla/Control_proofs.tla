--------------------------- MODULE Control_proofs ---------------------------
(***************************************************************************)
(* What concurrent requests for one action may and may not see of each     *)
(* other, for any number of threads, actions, arguments and requests.      *)
(*                                                                         *)
(* Two requests that execute at the same time know each other ("during").  *)
(* So whoever writes to a node that a request has written before it, is    *)
(* known to that request; and whoever replaces the data of a node under a  *)
(* request's hands is known to it too, and leaves blank data behind.       *)
(***************************************************************************)
EXTENDS Control, TLAPS

Busy(c) == c.pc \in {"argument", "create", "access"}
Alone(c) == c.during = {c.req}
PhaseArgs(c) == IF c.phase \in {"in", "listen"} THEN In(c.action) ELSE Out(c.action)
Present(c) == c.during \cup {Blank}

(* The arguments whose nodes the request has written.                      *)
Written(c) ==
    {x \in Args(c.action) :
        /\ c.phase = "in" => x \in In(c.action) /\ x \notin ToSet(c.todo)
        /\ c.phase = "clear" => x \in In(c.action) \/ x \notin ToSet(c.todo)}

Shape(c) ==
    /\ Busy(c) => /\ c.action \in Actions
                  /\ c.req \in c.during /\ c.during \subseteq 1..requests
                  /\ c.todo \in Seq(PhaseArgs(c))
    /\ ~Busy(c) => c.action = NoAction /\ c.during = {} /\ c.req = Blank
    /\ c.pc \in {"create", "access"} => c.todo # <<>>
    /\ c.pc = "create" => c.phase \in {"in", "clear"}
    /\ c.pc = "access" => c.data \in Requests

Fresh(c, x) ==
    /\ userData[x] \in Requests
    /\ value[userData[x]][x] \in Present(c)
    /\ Alone(c) /\ x \in In(c.action) => value[userData[x]][x] = c.req

(* Data replaced under the request's hands was replaced by another one.    *)
Replaced(c, x) ==
    userData[x] \in c.during \ {c.req} /\ value[userData[x]][x] \in Present(c)

Holds(c) ==
    c.pc = "access" => LET x == Head(c.todo) IN
        /\ c.data # userData[x] => Replaced(c, x)
        /\ c.phase \in Loading => value[c.data][x] \in Present(c)

Got(c) ==
    \A x \in AllArgs :
        /\ c.got[x] \in Present(c) \cup {NotRead}
        /\ Alone(c) /\ x \in In(c.action) => c.got[x] \in {NotRead, c.req}

Sound(c) ==
    /\ Shape(c) /\ Got(c)
    /\ Busy(c) => Holds(c) /\ \A x \in Written(c) : Fresh(c, x)

Acquainted ==
    \A t, u \in Threads :
        t # u /\ Busy(call[t]) /\ Busy(call[u]) /\ call[t].action = call[u].action
        => call[u].req \in call[t].during \ {call[t].req}

Describing ==
    \A t \in Threads :
        /\ call[t].pc = "render" => monitor = t /\ urlBase = call[t].host
        /\ call[t].pc = "described" => call[t].base = call[t].host

IInv == TypeOK /\ (\A t \in Threads : Sound(call[t])) /\ Acquainted /\ Describing

-----------------------------------------------------------------------------
(* Arguments *)

LEMMA ArgFacts ==
  ASSUME NEW a \in Actions
  PROVE  /\ InArgs[a] \in Seq(In(a)) /\ OutArgs[a] \in Seq(Out(a))
         /\ In(a) \cap Out(a) = {}
         /\ In(a) \subseteq AllArgs /\ Out(a) \subseteq AllArgs
         /\ Args(a) = In(a) \cup Out(a)
BY ArgsAssumption DEF AllArgs, Args

LEMMA OneAction ==
  ASSUME NEW a \in Actions, NEW b \in Actions, NEW x \in Args(a), x \in Args(b)
  PROVE  a = b
BY ArgsAssumption

LEMMA FirstAndRest ==
  ASSUME NEW S, NEW s \in Seq(S), s # <<>>
  PROVE  /\ Head(s) \in S /\ Head(s) \in ToSet(s) /\ Tail(s) \in Seq(S)
         /\ \A x : x \in ToSet(s) => x = Head(s) \/ x \in ToSet(Tail(s))
<1>1. /\ Len(s) \in Nat \ {0} /\ Head(s) = s[1] /\ Tail(s) \in Seq(S) /\ Head(s) \in S
      /\ Len(Tail(s)) = Len(s) - 1
      /\ \A i \in 1..Len(Tail(s)) : Tail(s)[i] = s[i + 1]
  OBVIOUS
<1>2. DOMAIN s = 1..Len(s) /\ DOMAIN Tail(s) = 1..Len(Tail(s))
  BY <1>1
<1>3. ASSUME NEW x, x \in ToSet(s) PROVE x = Head(s) \/ x \in ToSet(Tail(s))
  <2>1. PICK i \in 1..Len(s) : x = s[i]
    BY <1>2, <1>3 DEF ToSet
  <2>2. CASE i = 1
    BY <1>1, <2>1, <2>2
  <2>3. CASE i # 1
    <3>1. i - 1 \in 1..Len(Tail(s)) /\ Tail(s)[i - 1] = x
      BY <1>1, <2>1, <2>3
    <3> QED BY <1>2, <3>1 DEF ToSet
  <2> QED BY <2>2, <2>3
<1>4. Head(s) \in ToSet(s)
  BY <1>1, <1>2 DEF ToSet
<1> QED BY <1>1, <1>3, <1>4

(* What a busy request has before it.                                      *)
LEMMA BusyFacts ==
  ASSUME IInv, NEW t \in Threads, Busy(call[t])
  PROVE  /\ call[t] \in Call /\ call[t].action \in Actions
         /\ call[t].req \in call[t].during /\ call[t].req \in Requests
         /\ call[t].during \subseteq Requests
         /\ Holds(call[t]) /\ Got(call[t]) /\ Shape(call[t])
         /\ \A x \in Written(call[t]) : Fresh(call[t], x)
         /\ Written(call[t]) \subseteq Args(call[t].action)
<1>1. Sound(call[t]) /\ call[t] \in Call /\ requests \in 0..MaxRequests
  BY DEF IInv, TypeOK
<1>2. 1..requests \subseteq Requests
  BY <1>1, BoundAssumption DEF Requests
<1> QED BY <1>1, <1>2 DEF Sound, Shape, Written

LEMMA FirstFacts ==
  ASSUME IInv, NEW t \in Threads, Busy(call[t]), call[t].todo # <<>>
  PROVE  /\ Arg(t) \in PhaseArgs(call[t]) /\ Arg(t) \in AllArgs
         /\ Arg(t) \in Args(call[t].action)
         /\ Tail(call[t].todo) \in Seq(PhaseArgs(call[t]))
         /\ Tail(call[t].todo) \in Seq(AllArgs)
         /\ Arg(t) \in ToSet(call[t].todo)
         /\ \A x : x \in ToSet(call[t].todo) =>
                  x = Arg(t) \/ x \in ToSet(Tail(call[t].todo))
         /\ call[t].phase \in {"in", "clear"} => Arg(t) \notin Written(call[t])
         /\ call[t].phase \notin {"in", "clear"} => Arg(t) \in Written(call[t])
         /\ call[t].phase \notin {"in", "listen"} => Arg(t) \notin In(call[t].action)
<1>1. call[t].todo \in Seq(PhaseArgs(call[t])) /\ call[t].action \in Actions
  BY BusyFacts DEF Shape
<1>2. PhaseArgs(call[t]) \subseteq Args(call[t].action)
      /\ PhaseArgs(call[t]) \subseteq AllArgs
      /\ (call[t].phase \notin {"in", "listen"} => PhaseArgs(call[t]) \cap In(call[t].action) = {})
  BY <1>1, ArgFacts DEF PhaseArgs
<1>3. /\ Arg(t) \in PhaseArgs(call[t]) /\ Arg(t) \in ToSet(call[t].todo)
      /\ Tail(call[t].todo) \in Seq(PhaseArgs(call[t]))
      /\ \A x : x \in ToSet(call[t].todo) =>
                  x = Arg(t) \/ x \in ToSet(Tail(call[t].todo))
  BY <1>1, FirstAndRest DEF Arg
<1>4. call[t].todo \in Seq(AllArgs) /\ Tail(call[t].todo) \in Seq(AllArgs)
  BY <1>1, FirstAndRest, BusyFacts DEF Call
<1> QED BY <1>2, <1>3, <1>4 DEF Written

-----------------------------------------------------------------------------
(* Steps that touch no node and concern one request *)

(* A request that goes on: it stays the one it is.                         *)
Same(c, d) == Busy(c) /\ Busy(d) /\ c.action = d.action /\ c.req = d.req
              /\ c.during = d.during

LEMMA LocalStep ==
  ASSUME IInv, NEW t \in Threads, NEW c \in Call, Sound(c),
         c = IdleCall \/ Same(c, call[t]),
         call' = [call EXCEPT ![t] = c],
         UNCHANGED <<nodes, requests, description>>
  PROVE  IInv'
<1>1. call' \in [Threads -> Call] /\ TypeOK'
  BY DEF IInv, TypeOK, nodes, description
<1>2. ASSUME NEW u \in Threads PROVE Sound(call[u])'
  <2>1. Sound(call'[u])
    BY DEF IInv, TypeOK
  <2> QED BY <2>1 DEF Sound, Shape, Got, Holds, Replaced, Fresh, Written, Present,
         Alone, Busy, PhaseArgs, nodes
<1>3. Acquainted'
  BY DEF Acquainted, IInv, TypeOK, Same, Busy, IdleCall
<1>4. Describing'
  BY DEF Describing, IInv, TypeOK, Same, Busy, IdleCall, description
<1> QED BY <1>1, <1>2, <1>3, <1>4 DEF IInv

LEMMA IdleIsSound ==
  ASSUME TypeOK
  PROVE  IdleCall \in Call /\ Sound(IdleCall)
<1>1. IdleCall \in Call
  BY DEF IdleCall, Call, PCs, Storing, Loading, Datum
<1>2. Shape(IdleCall) /\ ~Busy(IdleCall)
  BY DEF IdleCall, Shape, Busy
<1>3. Got(IdleCall)
  BY DEF IdleCall, Got, Alone
<1> QED BY <1>1, <1>2, <1>3 DEF Sound

LEMMA EndStep ==
  ASSUME IInv, NEW t \in Threads, End(t)
  PROVE  IInv'
BY IdleIsSound, LocalStep DEF IInv, End

(* A busy request that moves without touching a node: it stays sound if    *)
(* it has no data in hand and claims no more nodes than it has written.    *)
LEMMA MoveStep ==
  ASSUME IInv, NEW t \in Threads, Busy(call[t]),
         NEW phase \in Storing \cup Loading, NEW todo \in Seq(AllArgs),
         NEW c, c = [call[t] EXCEPT !.pc = "argument", !.phase = phase, !.todo = todo],
         todo \in Seq(PhaseArgs(c)), Written(c) \subseteq Written(call[t]),
         call' = [call EXCEPT ![t] = c],
         UNCHANGED <<nodes, requests, description>>
  PROVE  IInv'
<1>1. call[t] \in Call
  BY BusyFacts
<1>2. c \in Call
  BY <1>1 DEF Call, PCs
<1>3. /\ c.pc = "argument" /\ c.todo = todo /\ c.action = call[t].action
      /\ c.req = call[t].req /\ c.during = call[t].during /\ c.got = call[t].got
  BY <1>1 DEF Call
<1>4. Busy(c) /\ Same(c, call[t])
  BY <1>3 DEF Busy, Same
<1>5. Shape(c)
  BY <1>3, <1>4, BusyFacts DEF Shape
<1>6. Got(c)
  BY <1>3, BusyFacts DEF Got, Alone, Present
<1>7. Holds(c)
  BY <1>3 DEF Holds
<1>8. ASSUME NEW x \in Written(c) PROVE Fresh(c, x)
  BY <1>3, <1>8, BusyFacts DEF Fresh, Alone, Present
<1>9. Sound(c)
  BY <1>5, <1>6, <1>7, <1>8 DEF Sound
<1> QED BY <1>2, <1>4, <1>9, LocalStep

LEMMA GoStep ==
  ASSUME IInv, NEW t \in Threads, NEW from, NEW to, NEW args, Go(t, from, to, args),
         \/ from = "in" /\ to = "clear" /\ args = OutArgs[call[t].action]
         \/ from = "clear" /\ to = "listen" /\ args = InArgs[call[t].action]
         \/ from = "listen" /\ to = "result" /\ args = OutArgs[call[t].action]
         \/ from = "result" /\ to = "reply" /\ args = OutArgs[call[t].action]
  PROVE  IInv'
<1> DEFINE c == [call[t] EXCEPT !.pc = "argument", !.phase = to, !.todo = args]
<1>1. Busy(call[t]) /\ call[t].pc = "argument" /\ call[t].todo = <<>> /\ call[t].phase = from
  BY DEF Go, LoopDone, Busy
<1>2. call[t] \in Call /\ call[t].action \in Actions
  BY <1>1, BusyFacts
<1>3. to \in Storing \cup Loading
  BY DEF Storing, Loading
<1>4. c.phase = to /\ c.todo = args /\ c.action = call[t].action
  BY <1>2 DEF Call
<1>5. args \in Seq(PhaseArgs(c)) /\ args \in Seq(AllArgs)
  <2>1. args \in Seq(PhaseArgs(c)) /\ PhaseArgs(c) \subseteq AllArgs
    BY <1>2, <1>4, ArgFacts DEF PhaseArgs
  <2> QED BY <2>1
<1>6. ToSet(args) = PhaseArgs(c) /\ ToSet(call[t].todo) = {}
  BY <1>1, <1>4 DEF PhaseArgs, In, Out, ToSet
<1>7. Written(c) \subseteq Written(call[t])
  BY <1>1, <1>2, <1>4, <1>6, ArgFacts DEF Written, PhaseArgs
<1>8. call' = [call EXCEPT ![t] = c]
  <2>1. c = [call[t] EXCEPT !.phase = to, !.todo = args]
    BY <1>1, <1>2 DEF Call
  <2> QED BY <2>1 DEF Go
<1> HIDE DEF c
<1> QED BY <1>1, <1>3, <1>5, <1>7, <1>8, MoveStep DEF Go, c

LEMMA LeaveStep ==
  ASSUME IInv, NEW t \in Threads, LeaveOutput(t)
  PROVE  IInv'
<1> DEFINE c == [call[t] EXCEPT !.pc = "argument", !.phase = call[t].phase,
                                !.todo = Tail(call[t].todo)]
<1>1. Busy(call[t]) /\ call[t].pc = "argument" /\ call[t].todo # <<>> /\ call[t].phase = "result"
  BY DEF LeaveOutput, Visiting, Busy
<1>2. call[t] \in Call
  BY <1>1, BusyFacts
<1>3. c = [call[t] EXCEPT !.todo = Tail(@)] /\ c.phase = "result" /\ c.action = call[t].action
  BY <1>1, <1>2 DEF Call
<1>4. /\ Tail(call[t].todo) \in Seq(AllArgs)
      /\ Tail(call[t].todo) \in Seq(PhaseArgs(c))
  BY <1>1, <1>3, FirstFacts DEF PhaseArgs
<1>5. Written(c) \subseteq Written(call[t])
  BY <1>1, <1>3 DEF Written
<1>6. call[t].phase \in Storing \cup Loading
  BY <1>1 DEF Storing
<1> HIDE DEF c
<1> QED BY <1>1, <1>3, <1>4, <1>5, <1>6, MoveStep DEF c, LeaveOutput

LEMMA FetchStep ==
  ASSUME IInv, NEW t \in Threads, getArgumentData(t)
  PROVE  IInv'
<1> DEFINE x == Arg(t)
           p == IF userData[x] = Blank THEN "create" ELSE "access"
           c == [call[t] EXCEPT !.pc = p, !.data = userData[x]]
<1>1. Busy(call[t]) /\ call[t].pc = "argument" /\ call[t].todo # <<>>
  BY DEF getArgumentData, Visiting, Busy
<1>2. call[t] \in Call /\ x \in AllArgs /\ userData[x] \in Datum
  BY <1>1, BusyFacts, FirstFacts DEF IInv, TypeOK
<1>3. c \in Call
  BY <1>2 DEF Call, PCs
<1>4. /\ c.pc = p /\ c.data = userData[x] /\ c.todo = call[t].todo
      /\ c.phase = call[t].phase /\ c.action = call[t].action
      /\ c.req = call[t].req /\ c.during = call[t].during /\ c.got = call[t].got
      /\ Head(c.todo) = x
  BY <1>2 DEF Call, Arg
<1>5. p \in {"create", "access"} /\ (p = "create" <=> userData[x] = Blank)
  OBVIOUS
<1>6. Busy(c) /\ Same(c, call[t])
  BY <1>1, <1>4, <1>5 DEF Busy, Same
<1>7. Written(c) = Written(call[t])
  BY <1>4 DEF Written
<1>8. ASSUME c.phase \notin {"in", "clear"} PROVE Fresh(call[t], x)
  BY <1>1, <1>4, <1>8, BusyFacts, FirstFacts
<1>9. Shape(c)
  <2>1. p = "create" => c.phase \in {"in", "clear"}
    BY <1>5, <1>8 DEF Fresh, Requests, Blank
  <2>2. p = "access" => c.data \in Requests
    BY <1>2, <1>4, <1>5 DEF Datum
  <2>3. c.todo \in Seq(PhaseArgs(c)) /\ c.action \in Actions
        /\ c.req \in c.during /\ c.during \subseteq 1..requests
    BY <1>1, <1>4, BusyFacts DEF Shape, PhaseArgs
  <2> QED BY <1>1, <1>4, <1>5, <1>6, <2>1, <2>2, <2>3 DEF Shape
<1>10. Got(c)
  BY <1>1, <1>4, BusyFacts DEF Got, Alone, Present
<1>11. Holds(c)
  <2>1. c.phase \in Loading => c.phase \notin {"in", "clear"}
    BY DEF Loading
  <2> QED BY <1>4, <1>8, <2>1 DEF Holds, Fresh, Present
<1>12. ASSUME NEW y \in Written(c) PROVE Fresh(c, y)
  BY <1>1, <1>4, <1>7, <1>12, BusyFacts DEF Fresh, Alone, Present
<1>13. Sound(c)
  BY <1>9, <1>10, <1>11, <1>12 DEF Sound
<1>14. call' = [call EXCEPT ![t] = c]
  BY DEF getArgumentData
<1> HIDE DEF c
<1> QED BY <1>3, <1>6, <1>13, <1>14, LocalStep DEF getArgumentData

(* What a request reads of its own input when it is alone is its own.      *)
LEMMA LoadStep ==
  ASSUME IInv, NEW t \in Threads, getValue(t)
  PROVE  IInv'
<1> DEFINE x == Arg(t)
           v == value[call[t].data][x]
           c == [call[t] EXCEPT !.pc = "argument", !.todo = Tail(@), !.got[x] = v]
<1>1. /\ Busy(call[t]) /\ call[t].pc = "access" /\ call[t].phase \in Loading
      /\ call[t].todo # <<>> /\ call[t].data \in Requests
  <2>1. Busy(call[t]) /\ call[t].pc = "access" /\ call[t].phase \in Loading
    BY DEF getValue, Busy
  <2> QED BY <2>1, BusyFacts DEF Shape
<1>2. call[t] \in Call /\ x \in AllArgs
  BY <1>1, BusyFacts, FirstFacts
<1>3. v \in Present(call[t]) /\ v \in Datum
  <2>1. v \in Present(call[t])
    BY <1>1, BusyFacts DEF Holds, Arg
  <2> QED BY <2>1, <1>1, BusyFacts DEF Present, Datum
<1>4. Alone(call[t]) /\ x \in In(call[t].action) => v = call[t].req
  <2> SUFFICES ASSUME Alone(call[t]), x \in In(call[t].action) PROVE v = call[t].req
    OBVIOUS
  <2>1. call[t].data = userData[x]
    BY <1>1, BusyFacts DEF Holds, Replaced, Alone, Arg
  <2>2. Fresh(call[t], x)
    BY <1>1, FirstFacts, BusyFacts DEF Loading
  <2> QED BY <2>1, <2>2 DEF Fresh
<1>5. c \in Call
  <2>1. Tail(call[t].todo) \in Seq(AllArgs)
    BY <1>1, FirstFacts
  <2> QED BY <1>2, <1>3, <2>1 DEF Call, PCs
<1>6. /\ c.pc = "argument" /\ c.todo = Tail(call[t].todo)
      /\ c.phase = call[t].phase /\ c.action = call[t].action
      /\ c.req = call[t].req /\ c.during = call[t].during
      /\ c.got = [call[t].got EXCEPT ![x] = v] /\ call[t].got \in [AllArgs -> Datum \cup {NotRead}]
  BY <1>2 DEF Call
<1>7. Busy(c) /\ Same(c, call[t])
  BY <1>1, <1>6 DEF Busy, Same
<1>8. Shape(c)
  <2>1. c.todo \in Seq(PhaseArgs(c))
    BY <1>1, <1>6, FirstFacts DEF PhaseArgs
  <2> QED BY <1>1, <1>6, <1>7, <2>1, BusyFacts DEF Shape
<1>9. Got(c)
  <2>1. Got(call[t])
    BY <1>1, BusyFacts
  <2> QED BY <1>3, <1>4, <1>6, <2>1 DEF Got, Alone, Present
<1>10. Holds(c)
  BY <1>6 DEF Holds
<1>11. ASSUME NEW y \in Written(c) PROVE Fresh(c, y)
  <2>1. y \in Written(call[t])
    BY <1>1, <1>6, <1>11 DEF Written, Loading
  <2> QED BY <1>1, <1>6, <2>1, BusyFacts DEF Fresh, Alone, Present
<1>12. Sound(c)
  BY <1>8, <1>9, <1>10, <1>11 DEF Sound
<1>13. call' = [call EXCEPT ![t] = c]
  BY DEF getValue
<1> HIDE DEF c
<1> QED BY <1>5, <1>7, <1>12, <1>13, LocalStep DEF getValue

-----------------------------------------------------------------------------
(* Steps that touch a node *)

(* Request t leaves its mark on argument x and on nothing else.            *)
Disturbs(t, x) ==
    /\ \A y \in AllArgs : y # x => userData'[y] = userData[y]
    /\ \A y \in AllArgs, r \in Requests : y # x => value'[r][y] = value[r][y]
    /\ \A r \in Requests : value'[r][x] \in {value[r][x], Blank, call[t].req}
    /\ \/ userData'[x] = userData[x]
       \/ userData'[x] = call[t].req /\ value'[call[t].req][x] = Blank

(* A request that shares no argument with the step does not notice it, and *)
(* one that does knows whose step it was.                                  *)
LEMMA OthersStaySound ==
  ASSUME IInv, NEW t \in Threads, NEW u \in Threads, t # u,
         Busy(call[t]), NEW x \in Args(call[t].action), Disturbs(t, x),
         call'[u] = call[u], requests' = requests
  PROVE  Sound(call[u])'
<1>1. CASE ~Busy(call[u])
  <2>1. Sound(call[u])
    BY DEF IInv
  <2> QED BY <1>1, <2>1 DEF Sound, Shape, Got, Busy, PhaseArgs, Alone, Present
<1>2. CASE Busy(call[u])
  <2> DEFINE c == call[u]
  <2>1. /\ call[t].req \in Requests /\ call[t].action \in Actions /\ x \in AllArgs
        /\ c.action \in Actions /\ c.during \subseteq Requests
        /\ Args(c.action) \subseteq AllArgs
    BY <1>2, BusyFacts, ArgFacts
  <2>2. x \in Args(c.action) => call[t].req \in c.during \ {c.req}
    <3>1. x \in Args(c.action) => c.action = call[t].action
      BY <2>1, OneAction
    <3> QED BY <1>2, <3>1 DEF IInv, Acquainted
  <2>3. Shape(c)' /\ Got(c)'
    <3>1. Shape(c) /\ Got(c)
      BY <1>2, BusyFacts
    <3> QED BY <3>1 DEF Shape, Got, Busy, PhaseArgs, Alone, Present
  <2>4. ASSUME NEW y \in Written(c) PROVE Fresh(c, y)'
    <3>1. Fresh(c, y) /\ y \in Args(c.action) /\ y \in AllArgs
      BY <1>2, <2>1, <2>4, BusyFacts
    <3>2. CASE y # x
      BY <3>1, <3>2 DEF Fresh, Alone, Present, Disturbs
    <3>3. CASE y = x
      <4>1. call[t].req \in c.during \ {c.req} /\ ~Alone(c)
        BY <2>2, <3>1, <3>3 DEF Alone
      <4> QED BY <2>1, <3>1, <3>3, <4>1 DEF Fresh, Alone, Present, Disturbs
    <3> QED BY <3>2, <3>3
  <2>5. Holds(c)'
    <3> SUFFICES ASSUME c.pc = "access"
                 PROVE  LET y == Head(c.todo) IN
                        /\ c.data # userData'[y] => Replaced(c, y)'
                        /\ c.phase \in Loading => value'[c.data][y] \in Present(c)
      BY DEF Holds, Present
    <3> DEFINE y == Head(c.todo)
    <3>1. c.data \in Requests /\ y \in Args(c.action) /\ y \in AllArgs
      <4>1. Shape(c)
        BY <1>2, BusyFacts
      <4> QED BY <1>2, <4>1, FirstFacts DEF Shape, Arg
    <3>2. /\ c.data # userData[y] => Replaced(c, y)
          /\ c.phase \in Loading => value[c.data][y] \in Present(c)
      BY <1>2, BusyFacts DEF Holds
    <3>3. CASE y # x
      <4>1. userData'[y] = userData[y] /\ value'[c.data][y] = value[c.data][y]
        BY <3>1, <3>3 DEF Disturbs
      <4>2. Replaced(c, y) => Replaced(c, y)'
        BY <2>1, <3>1, <3>3 DEF Replaced, Disturbs, Present
      <4> QED BY <3>2, <4>1, <4>2
    <3>4. CASE y = x
      <4>1. call[t].req \in c.during \ {c.req}
        BY <2>2, <3>1, <3>4
      <4>2. c.phase \in Loading => value'[c.data][y] \in Present(c)
        BY <3>1, <3>2, <3>4, <4>1 DEF Disturbs, Present
      <4>3. c.data # userData'[y] => Replaced(c, y)'
        BY <2>1, <3>1, <3>2, <3>4, <4>1 DEF Replaced, Disturbs, Present
      <4> QED BY <4>2, <4>3
    <3> QED BY <3>3, <3>4
  <2> QED BY <2>3, <2>4, <2>5 DEF Sound, Written
<1> QED BY <1>1, <1>2

(* What a step that touches argument x must show.                          *)
LEMMA TouchStep ==
  ASSUME IInv, NEW t \in Threads, Busy(call[t]),
         NEW x \in Args(call[t].action), Disturbs(t, x),
         userData' \in [AllArgs -> Datum], value' \in [Requests -> [AllArgs -> Datum]],
         NEW c \in Call, Same(c, call[t]), call' = [call EXCEPT ![t] = c],
         Sound(call[t])', UNCHANGED <<requests, description>>
  PROVE  IInv'
<1>1. call \in [Threads -> Call] /\ call' \in [Threads -> Call] /\ TypeOK'
  BY DEF IInv, TypeOK, description
<1>2. ASSUME NEW u \in Threads PROVE Sound(call[u])'
  <2>1. CASE u = t
    BY <2>1
  <2>2. CASE u # t
    <3>1. call'[u] = call[u]
      BY <1>1, <2>2
    <3> QED BY <2>2, <3>1, OthersStaySound
  <2> QED BY <2>1, <2>2
<1>3. \A u \in Threads : call'[u] = IF u = t THEN c ELSE call[u]
  BY <1>1
<1>4. Acquainted'
  BY <1>3 DEF Acquainted, IInv, Same, Busy
<1>5. Describing'
  BY <1>3 DEF Describing, IInv, Same, Busy, description
<1> QED BY <1>1, <1>2, <1>4, <1>5 DEF IInv

LEMMA CreateStep ==
  ASSUME IInv, NEW t \in Threads, setUserData(t)
  PROVE  IInv'
<1> DEFINE x == Arg(t)
           c == [call[t] EXCEPT !.pc = "access", !.data = call[t].req]
<1>1. /\ Busy(call[t]) /\ call[t].pc = "create" /\ call[t].todo # <<>>
      /\ call[t].phase \in {"in", "clear"}
  <2>1. Busy(call[t]) /\ call[t].pc = "create"
    BY DEF setUserData, Busy
  <2> QED BY <2>1, BusyFacts DEF Shape
<1>2. /\ call[t] \in Call /\ x \in AllArgs /\ x \in Args(call[t].action)
      /\ call[t].req \in Requests /\ x \notin Written(call[t])
  BY <1>1, BusyFacts, FirstFacts
<1>3. /\ userData' = [userData EXCEPT ![x] = call[t].req]
      /\ value' = [value EXCEPT ![call[t].req][x] = Blank]
      /\ userData \in [AllArgs -> Datum] /\ value \in [Requests -> [AllArgs -> Datum]]
      /\ userData' \in [AllArgs -> Datum] /\ value' \in [Requests -> [AllArgs -> Datum]]
  BY <1>2 DEF setUserData, IInv, TypeOK, Datum
<1>4. Disturbs(t, x)
  BY <1>2, <1>3 DEF Disturbs
<1>5. c \in Call
  BY <1>2 DEF Call, PCs, Datum
<1>6. call' = [call EXCEPT ![t] = c] /\ call'[t] = c /\ requests' = requests
  BY DEF setUserData, IInv, TypeOK
<1>7. /\ call'[t].pc = "access" /\ call'[t].data = call[t].req
      /\ call'[t].todo = call[t].todo
      /\ call'[t].phase = call[t].phase /\ call'[t].action = call[t].action
      /\ call'[t].req = call[t].req /\ call'[t].during = call[t].during
      /\ call'[t].got = call[t].got /\ Head(call'[t].todo) = x
  <2>1. call'[t] = [call[t] EXCEPT !.pc = "access", !.data = call[t].req]
    BY <1>6
  <2>2. call'[t].todo = call[t].todo
    BY <1>2, <2>1 DEF Call
  <2> QED BY <1>2, <2>1, <2>2 DEF Call, Arg
<1>8. Busy(call'[t]) /\ Same(call'[t], call[t]) /\ Written(call'[t]) = Written(call[t])
  BY <1>1, <1>7 DEF Busy, Same, Written
<1>9. Shape(call[t])' /\ Got(call[t])'
  BY <1>1, <1>2, <1>6, <1>7, <1>8, BusyFacts DEF Busy, Shape, Got, Alone, Present, PhaseArgs
<1>10. Holds(call[t])'
  BY <1>1, <1>2, <1>3, <1>7 DEF Holds, Loading
<1>11. ASSUME NEW y \in Written(call'[t]) PROVE Fresh(call[t], y)'
  <2>1. Fresh(call[t], y) /\ y \in AllArgs /\ y # x
    BY <1>1, <1>2, <1>8, <1>11, BusyFacts, ArgFacts
  <2> QED BY <1>4, <1>7, <2>1 DEF Fresh, Alone, Present, Disturbs
<1>12. Sound(call[t])'
  BY <1>9, <1>10, <1>11 DEF Sound, Written
<1> QED BY <1>1, <1>2, <1>3, <1>4, <1>5, <1>6, <1>8, <1>12, TouchStep DEF setUserData

LEMMA StoreStep ==
  ASSUME IInv, NEW t \in Threads, setValue(t)
  PROVE  IInv'
<1> DEFINE x == Arg(t)
           d == call[t].data
           v == IF call[t].phase = "clear" THEN Blank ELSE call[t].req
           c == [call[t] EXCEPT !.pc = "argument", !.todo = Tail(@)]
<1>1. /\ Busy(call[t]) /\ call[t].pc = "access" /\ call[t].todo # <<>>
      /\ call[t].phase \in Storing /\ d \in Requests
  <2>1. Busy(call[t]) /\ call[t].pc = "access" /\ call[t].phase \in Storing
    BY DEF setValue, Busy
  <2> QED BY <2>1, BusyFacts DEF Shape
<1>2. /\ call[t] \in Call /\ x \in AllArgs /\ x \in Args(call[t].action)
      /\ call[t].req \in Requests /\ call[t].during \subseteq Requests
      /\ call[t].req \in call[t].during
  BY <1>1, BusyFacts, FirstFacts
<1>3. /\ userData' = userData /\ value' = [value EXCEPT ![d][x] = v]
      /\ userData \in [AllArgs -> Datum] /\ value \in [Requests -> [AllArgs -> Datum]]
      /\ userData' \in [AllArgs -> Datum] /\ value' \in [Requests -> [AllArgs -> Datum]]
  BY <1>1, <1>2 DEF setValue, IInv, TypeOK, Datum
<1>4. Disturbs(t, x)
  BY <1>1, <1>2, <1>3 DEF Disturbs
<1>5. c \in Call
  <2>1. Tail(call[t].todo) \in Seq(AllArgs)
    BY <1>1, FirstFacts
  <2> QED BY <1>2, <2>1 DEF Call, PCs
<1>6. call' = [call EXCEPT ![t] = c] /\ call'[t] = c /\ requests' = requests
  BY DEF setValue, IInv, TypeOK
<1>7. /\ call'[t].pc = "argument" /\ call'[t].todo = Tail(call[t].todo)
      /\ call'[t].phase = call[t].phase /\ call'[t].action = call[t].action
      /\ call'[t].req = call[t].req /\ call'[t].during = call[t].during
      /\ call'[t].got = call[t].got
  <2>1. call'[t] = [call[t] EXCEPT !.pc = "argument", !.todo = Tail(call[t].todo)]
    BY <1>6
  <2> HIDE DEF c, x, d, v
  <2> QED BY <1>2, <2>1 DEF Call
<1>8. Busy(call'[t]) /\ Same(call'[t], call[t])
  BY <1>1, <1>7 DEF Busy, Same
<1>9. Shape(call[t])' /\ Got(call[t])'
  <2>1. call'[t].todo \in Seq(PhaseArgs(call[t]))'
    BY <1>1, <1>7, FirstFacts DEF PhaseArgs
  <2> QED BY <1>1, <1>2, <1>6, <1>7, <1>8, <2>1, BusyFacts DEF Busy, Shape, Got, Alone, Present, PhaseArgs
<1>10. Holds(call[t])'
  BY <1>7 DEF Holds
<1>11. ASSUME NEW y \in Written(call'[t]) PROVE Fresh(call[t], y)'
  <2>1. CASE y # x
    <3>1. y \in Written(call[t]) /\ y \in AllArgs
      <4>1. y \in Args(call[t].action) /\ y \in AllArgs
        BY <1>1, <1>7, <1>11, BusyFacts, ArgFacts DEF Written
      <4>2. y \notin ToSet(call'[t].todo) => y \notin ToSet(call[t].todo)
        BY <1>1, <1>7, <2>1, FirstFacts
      <4> QED BY <1>7, <1>11, <4>1, <4>2 DEF Written
    <3>2. Fresh(call[t], y)
      BY <1>1, <3>1, BusyFacts
    <3> QED BY <1>4, <1>7, <2>1, <3>1, <3>2 DEF Fresh, Alone, Present, Disturbs
  <2>2. CASE y = x /\ d = userData[x]
    <3>1. value'[userData'[x]][x] = v /\ v \in Present(call[t])'
      BY <1>1, <1>2, <1>3, <1>7, <2>2 DEF Present
    <3>2. x \in In(call[t].action) => v = call[t].req
      BY <1>1, <1>7, FirstFacts
    <3> QED BY <1>1, <1>3, <1>7, <2>2, <3>1, <3>2 DEF Fresh, Present
  <2>3. CASE y = x /\ d # userData[x]
    <3>1. Replaced(call[t], x)
      BY <1>1, <2>3, BusyFacts DEF Holds, Arg
    <3>2. value'[userData'[x]][x] = value[userData[x]][x]
      BY <1>1, <1>2, <1>3, <2>3, <3>1 DEF Replaced
    <3> QED BY <1>2, <1>3, <1>7, <2>3, <3>1, <3>2 DEF Fresh, Replaced, Alone, Present
  <2> QED BY <2>1, <2>2, <2>3
<1>12. Sound(call[t])'
  BY <1>9, <1>10, <1>11 DEF Sound, Written
<1> QED BY <1>1, <1>2, <1>3, <1>4, <1>5, <1>6, <1>8, <1>12, TouchStep DEF setValue

(* A request that comes in introduces itself to those it meets.            *)
LEMMA ReceiveStep ==
  ASSUME IInv, NEW t \in Threads, NEW a \in Actions, NEW given \in SUBSET In(a),
         deviceActionControlRecieved(t, a, given)
  PROVE  IInv'
<1> DEFINE id == requests + 1
           met == {call[w].req : w \in Executing(a)}
           c == [IdleCall EXCEPT !.pc = "argument", !.action = a, !.given = given,
                     !.todo = InArgs[a], !.req = id, !.during = met \cup {id}]
<1>1. /\ id \in Requests /\ requests \in Nat /\ requests' = id /\ call[t].pc = "idle"
      /\ UNCHANGED <<nodes, description>>
  <2>1. /\ call[t].pc = "idle" /\ requests < MaxRequests /\ requests' = id
        /\ UNCHANGED <<nodes, description>>
    BY DEF deviceActionControlRecieved
  <2>2. requests \in 0..MaxRequests
    BY DEF IInv, TypeOK
  <2> QED BY <2>1, <2>2, BoundAssumption DEF Requests
<1>2. \A u \in Threads : u \in Executing(a) <=> Busy(call[u]) /\ call[u].action = a
  <2>1. \A u \in Threads : Shape(call[u])
    BY DEF IInv, Sound
  <2> QED BY <2>1, NamesAssumption DEF Executing, Shape
<1>3. met \subseteq 1..requests /\ met \subseteq Requests
  <2>1. ASSUME NEW w \in Executing(a) PROVE call[w].req \in 1..requests /\ call[w].req \in Requests
    <3>1. w \in Threads /\ Busy(call[w])
      BY <1>2, <2>1 DEF Executing
    <3> QED BY <3>1, BusyFacts DEF Shape
  <2> QED BY <2>1
<1>4. /\ call'[t] = c /\ t \notin Executing(a)
      /\ \A u \in Threads : u # t => call'[u] =
            IF u \in Executing(a) THEN [call[u] EXCEPT !.during = @ \cup {id}] ELSE call[u]
  BY <1>1, <1>2 DEF deviceActionControlRecieved, Busy
<1>5. \A u \in Threads : call[u] \in Call
  BY DEF IInv, TypeOK
<1>15. c = [pc |-> "argument", phase |-> "in", action |-> a, given |-> given,
           todo |-> InArgs[a], data |-> Blank, req |-> id,
           got |-> [y \in AllArgs |-> NotRead], during |-> met \cup {id},
           host |-> NoHost, base |-> NoHost]
  <2> DEFINE g == [y \in AllArgs |-> NotRead]
  <2> HIDE DEF met, id, g
  <2>1. IdleCall = [pc |-> "idle", phase |-> "in", action |-> NoAction, given |-> {},
                    todo |-> <<>>, data |-> Blank, req |-> Blank, got |-> g,
                    during |-> {}, host |-> NoHost, base |-> NoHost]
    BY DEF IdleCall, g
  <2> DEFINE m == met \cup {id}
  <2>2. c = [IdleCall EXCEPT !.pc = "argument", !.action = a, !.given = given,
                   !.todo = InArgs[a], !.req = id, !.during = m]
    OBVIOUS
  <2> HIDE DEF c, m
  <2>3. c = [pc |-> "argument", phase |-> "in", action |-> a, given |-> given,
             todo |-> InArgs[a], data |-> Blank, req |-> id, got |-> g,
             during |-> m, host |-> NoHost, base |-> NoHost]
    BY <2>1, <2>2
  <2> QED BY <2>3 DEF g, m
<1>6. /\ c.pc = "argument" /\ c.phase = "in" /\ c.action = a /\ c.given = given
      /\ c.todo = InArgs[a] /\ c.data = Blank /\ c.req = id /\ c.during = met \cup {id}
      /\ c.got = [y \in AllArgs |-> NotRead] /\ c.host = NoHost /\ c.base = NoHost
  <2> HIDE DEF met, id, c
  <2> QED BY <1>15
<1>7. c \in Call
  <2>1. given \in SUBSET AllArgs /\ InArgs[a] \in Seq(AllArgs)
    BY ArgFacts
  <2>2. met \cup {id} \in SUBSET Requests
    BY <1>1, <1>3
  <2> HIDE DEF met, id, c
  <2> QED BY <1>1, <1>15, <2>1, <2>2 DEF Call, PCs, Storing, Datum
<1>8. ASSUME NEW u \in Threads, u # t, u \in Executing(a)
      PROVE  /\ call'[u] \in Call
             /\ call'[u].pc = call[u].pc /\ call'[u].phase = call[u].phase
             /\ call'[u].action = call[u].action /\ call'[u].todo = call[u].todo
             /\ call'[u].data = call[u].data /\ call'[u].req = call[u].req
             /\ call'[u].got = call[u].got /\ call'[u].during = call[u].during \cup {id}
             /\ call'[u].host = call[u].host /\ call'[u].base = call[u].base
  <2>1. call'[u] = [call[u] EXCEPT !.during = @ \cup {id}]
    BY <1>4, <1>8
  <2>2. call[u] \in Call /\ id \in Requests
    BY <1>1, <1>5
  <2> HIDE DEF c, met, id
  <2>3. call[u].during \cup {id} \in SUBSET Requests
    BY <2>2 DEF Call
  <2> DEFINE m == call[u].during \cup {id}
  <2>4. call'[u] = [call[u] EXCEPT !.during = m] /\ m \in SUBSET Requests
    BY <2>1, <2>3
  <2> HIDE DEF m
  <2>5. call'[u] \in Call
    BY <2>2, <2>4 DEF Call
  <2>6. /\ call'[u].pc = call[u].pc /\ call'[u].phase = call[u].phase
        /\ call'[u].action = call[u].action /\ call'[u].todo = call[u].todo
        /\ call'[u].data = call[u].data /\ call'[u].req = call[u].req
        /\ call'[u].got = call[u].got /\ call'[u].during = m
        /\ call'[u].host = call[u].host /\ call'[u].base = call[u].base
    BY <2>2, <2>4 DEF Call
  <2> QED BY <2>5, <2>6 DEF m
<1>9. ASSUME NEW u \in Threads
      PROVE  Sound(call[u])' /\ call'[u] \in Call
  <2>1. CASE u = t
    <3> HIDE DEF c, met, id
    <3>1. Shape(call[t])'
      <4>1. c.during \subseteq 1..requests'
        <5>1. requests' \in Nat /\ requests' = requests + 1 /\ requests \in Nat
          BY <1>1 DEF id
        <5>2. 1..requests \subseteq 1..requests' /\ id \in 1..requests'
          BY <5>1 DEF id
        <5> QED BY <1>3, <1>6, <5>2
      <4>2. c.todo \in Seq(PhaseArgs(c))
        BY <1>6, ArgFacts DEF PhaseArgs
      <4> QED BY <1>4, <1>6, <4>1, <4>2 DEF Shape, Busy, PhaseArgs
    <3>2. Got(call[t])'
      BY <1>4, <1>6 DEF Got
    <3>3. Holds(call[t])'
      BY <1>4, <1>6 DEF Holds
    <3>4. Written(c) = {}
      BY <1>6 DEF Written, In, ToSet
    <3> QED BY <1>4, <1>7, <2>1, <3>1, <3>2, <3>3, <3>4 DEF Sound, Written
  <2>2. CASE u # t /\ u \notin Executing(a)
    <3>1. call'[u] = call[u] /\ Sound(call[u])
      BY <1>4, <2>2 DEF IInv
    <3>2. Shape(call[u])'
      BY <1>1, <3>1 DEF Sound, Shape, Busy, PhaseArgs
    <3>3. UNCHANGED nodes
      BY <1>1
    <3> QED BY <1>5, <3>1, <3>2, <3>3 DEF Sound, Got, Holds, Replaced, Fresh, Written,
               Present, Alone, Busy, nodes
  <2>3. CASE u # t /\ u \in Executing(a)
    <3>1. Busy(call[u]) /\ Sound(call[u]) /\ id \notin call[u].during
      <4>1. Busy(call[u]) /\ Sound(call[u])
        BY <1>2, <2>3 DEF IInv
      <4> QED BY <1>1, <4>1 DEF Sound, Shape
    <3>2. ~Alone(call[u])' /\ Busy(call[u])'
      <4>1. call[u].req # id
        BY <1>2, <2>3, <3>1 DEF Sound, Shape
      <4> QED BY <1>8, <2>3, <3>1, <4>1 DEF Alone, Busy
    <3>3. Shape(call[u])'
      BY <1>1, <1>8, <2>3, <3>1 DEF Sound, Shape, Busy, PhaseArgs
    <3>4. Got(call[u])'
      BY <1>8, <2>3, <3>1, <3>2 DEF Sound, Got, Present
    <3>5. UNCHANGED nodes
      BY <1>1
    <3>6. Holds(call[u])'
      BY <1>8, <2>3, <3>1, <3>5 DEF Sound, Holds, Replaced, Present, nodes
    <3>7. Written(call[u])' = Written(call[u])
      BY <1>8, <2>3 DEF Written
    <3>8. ASSUME NEW y \in Written(call[u]) PROVE Fresh(call[u], y)'
      BY <1>8, <2>3, <3>1, <3>2, <3>5, <3>8 DEF Sound, Fresh, Present, nodes
    <3> QED BY <1>8, <2>3, <3>3, <3>4, <3>6, <3>7, <3>8 DEF Sound
  <2> QED BY <2>1, <2>2, <2>3
<1>10. TypeOK'
  <2>1. call' \in [Threads -> Call]
    BY <1>9 DEF deviceActionControlRecieved
  <2> QED BY <1>1, <2>1, BoundAssumption DEF TypeOK, IInv, nodes, description, Requests
<1>11. Acquainted'
  <2> SUFFICES ASSUME NEW u \in Threads, NEW w \in Threads, u # w,
                      Busy(call'[u]), Busy(call'[w]), call'[u].action = call'[w].action
               PROVE  call'[w].req \in call'[u].during \ {call'[u].req}
    BY DEF Acquainted
  <2> HIDE DEF c
  <2>1. CASE u = t
    <3>1. w \in Executing(a) /\ call'[w].req = call[w].req
      <4>1. call'[u].action = a /\ w # t
        BY <1>4, <1>6, <2>1
      <4>2. w \in Executing(a)
        BY <1>2, <1>4, <4>1 DEF Busy
      <4> QED BY <1>8, <4>1, <4>2
    <3>2. call[w].req \in met
      BY <3>1
    <3>3. id \notin met
      BY <1>1, <1>3
    <3>4. call'[t].req = id /\ call'[t].during = met \cup {id}
      BY <1>4, <1>6
    <3> QED BY <2>1, <3>1, <3>2, <3>3, <3>4
  <2>2. CASE w = t
    <3>1. u \in Executing(a) /\ call'[u].req = call[u].req
          /\ call'[u].during = call[u].during \cup {id}
      <4>1. call'[w].action = a /\ u # t
        BY <1>4, <1>6, <2>2
      <4>2. u \in Executing(a)
        BY <1>2, <1>4, <4>1 DEF Busy
      <4> QED BY <1>8, <4>1, <4>2
    <3>2. call[u].req \in met
      BY <3>1
    <3>3. id \notin met
      BY <1>1, <1>3
    <3>4. call'[t].req = id
      BY <1>4, <1>6
    <3> QED BY <2>2, <3>1, <3>2, <3>3, <3>4
  <2>3. CASE u # t /\ w # t
    <3>1. /\ Busy(call[u]) /\ Busy(call[w]) /\ call[u].action = call[w].action
          /\ call'[u].req = call[u].req /\ call'[w].req = call[w].req
          /\ call[u].during \subseteq call'[u].during
      BY <1>4, <1>8, <2>3 DEF Busy
    <3> QED BY <3>1 DEF IInv, Acquainted
  <2> QED BY <2>1, <2>2, <2>3
<1>12. Describing'
  <2>1. ASSUME NEW u \in Threads, call'[u].pc \in {"render", "described"}
        PROVE  /\ call'[u].pc = call[u].pc /\ call'[u].host = call[u].host
               /\ call'[u].base = call[u].base
    <3> HIDE DEF c
    <3> QED BY <1>4, <1>6, <1>8, <2>1
  <2> QED BY <1>1, <2>1 DEF Describing, IInv, description
<1> QED BY <1>9, <1>10, <1>11, <1>12 DEF IInv

-----------------------------------------------------------------------------
(* Descriptions *)

LEMMA AskStep ==
  ASSUME IInv, NEW t \in Threads, NEW h \in Hosts, updateURLBase(t, h)
  PROVE  IInv'
<1> DEFINE c == [IdleCall EXCEPT !.pc = "render", !.host = h]
<1>1. /\ call[t].pc = "idle" /\ monitor = Nobody /\ monitor' = t /\ urlBase' = h
      /\ requests' = requests + 1 /\ requests < MaxRequests
      /\ call' = [call EXCEPT ![t] = c] /\ UNCHANGED nodes
  BY DEF updateURLBase
<1>2. requests \in Nat /\ requests' \in 0..MaxRequests /\ 1..requests \subseteq 1..requests'
  BY <1>1, BoundAssumption DEF IInv, TypeOK
<1>3. c \in Call
  BY IdleIsSound DEF IInv, Call, PCs
<1>4. /\ c.pc = "render" /\ c.action = NoAction /\ c.during = {} /\ c.req = Blank
      /\ c.host = h /\ c.got = [x \in AllArgs |-> NotRead]
  BY DEF IdleCall
<1>5. \A u \in Threads : call'[u] = IF u = t THEN c ELSE call[u]
  BY <1>1 DEF IInv, TypeOK
<1>6. TypeOK'
  BY <1>1, <1>2, <1>3 DEF IInv, TypeOK, nodes
<1> HIDE DEF c
<1>7. ASSUME NEW u \in Threads PROVE Sound(call[u])'
  <2>1. CASE u = t
    BY <1>4, <1>5, <2>1, NamesAssumption DEF Sound, Shape, Busy, Got, Alone
  <2>2. CASE u # t
    <3>1. call'[u] = call[u] /\ Sound(call[u])
      BY <1>5, <2>2 DEF IInv
    <3>2. Shape(call[u])'
      BY <1>2, <3>1 DEF Sound, Shape, Busy, PhaseArgs
    <3>3. UNCHANGED nodes
      BY <1>1
    <3> QED BY <3>1, <3>2, <3>3 DEF Sound, Got, Holds, Replaced, Fresh, Written,
               Present, Alone, Busy, nodes
  <2> QED BY <2>1, <2>2
<1>8. Acquainted'
  BY <1>4, <1>5 DEF Acquainted, IInv, Busy
<1>9. Describing'
  BY <1>1, <1>4, <1>5, NamesAssumption DEF Describing, IInv
<1> QED BY <1>6, <1>7, <1>8, <1>9 DEF IInv

LEMMA RenderStep ==
  ASSUME IInv, NEW t \in Threads, renderDescription(t)
  PROVE  IInv'
<1> DEFINE c == [call[t] EXCEPT !.pc = "described", !.base = urlBase]
<1>1. /\ call[t].pc = "render" /\ monitor' = Nobody /\ call' = [call EXCEPT ![t] = c]
      /\ UNCHANGED <<nodes, requests, urlBase>>
  BY DEF renderDescription
<1>2. call[t] \in Call /\ urlBase \in Hosts \cup {NoHost} /\ Sound(call[t])
  BY DEF IInv, TypeOK
<1>3. c \in Call
  BY <1>2 DEF Call, PCs
<1>4. /\ c.pc = "described" /\ c.action = call[t].action /\ c.during = call[t].during
      /\ c.req = call[t].req /\ c.host = call[t].host /\ c.got = call[t].got
      /\ c.base = urlBase
  BY <1>2 DEF Call
<1>5. \A u \in Threads : call'[u] = IF u = t THEN c ELSE call[u]
  BY <1>1 DEF IInv, TypeOK
<1>6. TypeOK'
  BY <1>1, <1>3 DEF IInv, TypeOK, nodes
<1> HIDE DEF c
<1>7. ASSUME NEW u \in Threads PROVE Sound(call[u])'
  <2>1. CASE u = t
    BY <1>1, <1>2, <1>4, <1>5, <2>1 DEF Sound, Shape, Busy, Got, Alone, Present
  <2>2. CASE u # t
    <3>1. call'[u] = call[u] /\ Sound(call[u])
      BY <1>5, <2>2 DEF IInv
    <3>2. UNCHANGED nodes /\ UNCHANGED requests
      BY <1>1
    <3> QED BY <3>1, <3>2 DEF Sound, Shape, PhaseArgs, Got, Holds, Replaced, Fresh,
               Written, Present, Alone, Busy, nodes
  <2> QED BY <2>1, <2>2
<1>8. Acquainted'
  BY <1>4, <1>5 DEF Acquainted, IInv, Busy
<1>9. Describing'
  <2>1. monitor = t /\ urlBase = call[t].host
    BY <1>1 DEF IInv, Describing
  <2>2. \A u \in Threads \ {t} : call[u].pc # "render"
    BY <2>1 DEF IInv, Describing
  <2> QED BY <1>4, <1>5, <2>1, <2>2 DEF Describing, IInv
<1> QED BY <1>6, <1>7, <1>8, <1>9 DEF IInv

-----------------------------------------------------------------------------
(* The invariant *)

LEMMA InitIInv == Init => IInv
<1> SUFFICES ASSUME Init PROVE IInv
  OBVIOUS
<1>1. TypeOK
  <2>1. IdleCall \in Call
    BY DEF IdleCall, Call, PCs, Storing, Loading, Datum
  <2> QED BY <2>1, BoundAssumption DEF Init, TypeOK, Datum
<1>2. \A t \in Threads : call[t] = IdleCall /\ IdleCall.pc = "idle"
  BY DEF Init, IdleCall
<1>3. \A t \in Threads : Sound(call[t])
  BY <1>1, <1>2, IdleIsSound
<1>4. Acquainted /\ Describing
  BY <1>2 DEF Acquainted, Describing, Busy
<1> QED BY <1>1, <1>3, <1>4 DEF IInv

LEMMA NextIInv == IInv /\ [Next]_vars => IInv'
<1> SUFFICES ASSUME IInv, [Next]_vars PROVE IInv'
  OBVIOUS
<1>1. CASE UNCHANGED vars
  BY <1>1 DEF vars, IInv, TypeOK, Sound, Shape, PhaseArgs, Got, Holds, Replaced, Fresh,
     Written, Present, Alone, Busy, Acquainted, Describing
<1>2. ASSUME NEW t \in Threads, Arrive(t) PROVE IInv'
  BY <1>2, ReceiveStep, AskStep DEF Arrive
<1>3. ASSUME NEW t \in Threads, Continue(t) PROVE IInv'
  <2>1. CASE missingArgument(t) \/ Decline(t) \/ Reply(t) \/ SendDescription(t)
    BY <2>1, EndStep DEF missingArgument, Decline, Reply, SendDescription
  <2>2. CASE clearOutputAgumentValues(t)
    BY <2>2, GoStep DEF clearOutputAgumentValues
  <2>3. CASE actionControlReceived(t)
    BY <2>3, GoStep DEF actionControlReceived
  <2>4. CASE SetOutputs(t)
    BY <2>4, GoStep DEF SetOutputs
  <2>5. CASE createResponseNode(t)
    BY <2>5, GoStep DEF createResponseNode
  <2>6. CASE getArgumentData(t)
    BY <2>6, FetchStep
  <2>7. CASE setUserData(t)
    BY <2>7, CreateStep
  <2>8. CASE setValue(t)
    BY <2>8, StoreStep
  <2>9. CASE getValue(t)
    BY <2>9, LoadStep
  <2>10. CASE LeaveOutput(t)
    BY <2>10, LeaveStep
  <2>11. CASE renderDescription(t)
    BY <2>11, RenderStep
  <2> QED BY <1>3, <2>1, <2>2, <2>3, <2>4, <2>5, <2>6, <2>7, <2>8, <2>9, <2>10, <2>11
          DEF Continue
<1> QED BY <1>1, <1>2, <1>3 DEF Next

(* In every reachable state whoever executes an action has written the     *)
(* nodes it says it has, and knows everybody who has written them since.   *)
THEOREM Invariance == Spec => []IInv
<1>1. Init => IInv
  BY InitIInv
<1>2. IInv /\ [Next]_vars => IInv'
  BY NextIInv
<1> QED BY <1>1, <1>2, PTL DEF Spec

(* The argument nodes never hold anything but a value some request brought *)
(* or computed, and no request loses its place among the arguments.        *)
THEOREM TypeCorrect == Spec => []TypeOK
<1>1. IInv => TypeOK
  BY DEF IInv
<1> QED BY <1>1, Invariance, PTL

(* What the listener reads of its inputs is of its own time, however many  *)
(* connections invoke the action (Action.performActionListener).           *)
THEOREM InputsOfItsTime == Spec => []InputsAreCurrent
<1>1. IInv => InputsAreCurrent
  BY ArgFacts DEF IInv, Sound, Got, Present, InputsAreCurrent, Current
<1> QED BY <1>1, Invariance, PTL

(* No answer tells a result of a request that was over before: what        *)
(* clearOutputAgumentValues is for, and achieves without a lock.           *)
THEOREM RepliesOfItsTime == Spec => []RepliesAreCurrent
<1>1. IInv => RepliesAreCurrent
  BY ArgFacts DEF IInv, Sound, Got, Present, RepliesAreCurrent, Current
<1> QED BY <1>1, Invariance, PTL

(* Requests that come one at a time to an action are served exactly,       *)
(* whatever happens at the other actions and to the description.           *)
THEOREM ExactWhenAlone == Spec => []AloneIsExact
<1>1. IInv => AloneIsExact
  <2> SUFFICES ASSUME IInv, NEW t \in Threads, call[t].during = {call[t].req},
                      NEW x \in Args(call[t].action)
               PROVE  /\ x \in In(call[t].action) => call[t].got[x] \in {NotRead, call[t].req}
                      /\ x \in Out(call[t].action) =>
                            call[t].got[x] \in {NotRead, Blank, call[t].req}
    BY DEF AloneIsExact
  <2>1. Sound(call[t])
    BY DEF IInv
  <2>2. Busy(call[t])
    BY <2>1 DEF Sound, Shape
  <2>3. x \in AllArgs
    BY <2>2, BusyFacts, ArgFacts
  <2> QED BY <2>1, <2>3 DEF Sound, Got, Present, Alone
<1> QED BY <1>1, Invariance, PTL

(* Two ArgumentData created at once for one node: a request works on data  *)
(* that the node has lost only until it is done with that argument, and    *)
(* only if it executed together with the one that replaced it.             *)
THEOREM LossIsMutual == Spec => []LostAtFirstUseOnly
<1>1. IInv => LostAtFirstUseOnly
  BY DEF IInv, Sound, Holds, Replaced, Busy, Arg, LostAtFirstUseOnly
<1> QED BY <1>1, Invariance, PTL

(* A description is rendered with the address it was asked for at, since   *)
(* getDescriptionData holds the device's monitor from the one to the other.*)
THEOREM RightAddress == Spec => []DescriptionNamesItsAddress
<1>1. IInv => DescriptionNamesItsAddress
  BY DEF IInv, Describing, DescriptionNamesItsAddress
<1> QED BY <1>1, Invariance, PTL
=============================================================================
