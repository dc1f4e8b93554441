--------------------------- MODULE Eventing_proofs ---------------------------
(***************************************************************************)
(* What holds of Eventing for every number of threads and subscriptions,   *)
(* every state table and every bound.                                      *)
(***************************************************************************)
EXTENDS Eventing, SequenceTheorems, TLAPS

-----------------------------------------------------------------------------
(* The subscriber list as a sequence without repetitions *)

Unique(q) == \A i, j \in 1..Len(q) : q[i] = q[j] => i = j

(* Removing an element of a list without repetitions leaves such a list,   *)
(* with exactly that element gone.                                         *)
LEMMA WithoutUnique ==
  ASSUME NEW S, NEW q \in Seq(S), Unique(q), NEW s
  PROVE  /\ Without(q, s) \in Seq(S)
         /\ Unique(Without(q, s))
         /\ ToSet(Without(q, s)) = ToSet(q) \ {s}
<1>1. CASE s \notin ToSet(q)
  BY <1>1 DEF Without
<1>2. CASE s \in ToSet(q)
  <2> DEFINE k == FirstIndex(q, s)
             r == RemoveAt(q, k)
  <2>1. PICK i \in 1..Len(q) : q[i] = s
    BY <1>2 DEF ToSet
  <2>2. k \in 1..Len(q) /\ q[k] = s
    BY <2>1 DEF FirstIndex, Unique
  <2> HIDE DEF k
  <2> DEFINE front == SubSeq(q, 1, k-1)
             back == SubSeq(q, k+1, Len(q))
  <2>a. /\ front \in Seq(S) /\ Len(front) = k - 1
        /\ \A j \in 1..(k-1) : front[j] = q[j]
    BY <2>2
  <2>b. /\ back \in Seq(S) /\ Len(back) = Len(q) - k
        /\ \A j \in 1..(Len(q) - k) : back[j] = q[k+j]
    BY <2>2
  <2>c. r = front \o back
    BY DEF RemoveAt
  <2> HIDE DEF front, back, r
  <2>d. /\ front \o back \in Seq(S)
        /\ Len(front \o back) = Len(front) + Len(back)
        /\ \A j \in 1..(Len(front) + Len(back)) : (front \o back)[j] =
              IF j <= Len(front) THEN front[j] ELSE back[j - Len(front)]
    BY <2>a, <2>b, ConcatProperties
  <2>3. r \in Seq(S) /\ Len(r) = Len(q) - 1
    BY <2>2, <2>a, <2>b, <2>c, <2>d
  <2>4. ASSUME NEW j \in 1..Len(r)
        PROVE  r[j] = IF j < k THEN q[j] ELSE q[j+1]
    <3>1. j \in 1..(Len(front) + Len(back)) /\ k \in Int
      BY <2>2, <2>3, <2>a, <2>b
    <3>2. CASE j < k
      BY <3>1, <3>2, <2>2, <2>a, <2>c, <2>d
    <3>3. CASE ~(j < k)
      <4>1. j - (k-1) \in 1..(Len(q) - k) /\ ~(j <= Len(front))
        BY <3>1, <3>3, <2>2, <2>3, <2>a
      <4>2. r[j] = back[j - (k-1)]
        BY <3>1, <4>1, <2>a, <2>c, <2>d
      <4>3. k + (j - (k-1)) = j + 1
        BY <3>1
      <4> QED BY <3>3, <4>1, <4>2, <4>3, <2>b
    <3> QED BY <3>2, <3>3
  <2> HIDE DEF r
  <2>5. Unique(r)
    <3> SUFFICES ASSUME NEW m \in 1..Len(r), NEW n \in 1..Len(r), r[m] = r[n]
                 PROVE  m = n
      BY DEF Unique
    <3> DEFINE p == IF m < k THEN m ELSE m+1
               o == IF n < k THEN n ELSE n+1
    <3>1. k \in Int /\ m \in Int /\ n \in Int
      BY <2>2, <2>3
    <3>2. p \in 1..Len(q) /\ o \in 1..Len(q)
      BY <2>2, <2>3
    <3>3. r[m] = q[p] /\ r[n] = q[o]
      BY <2>4
    <3>4. p = o
      <4> HIDE DEF p, o
      <4> QED BY <3>2, <3>3 DEF Unique
    <3> QED BY <3>1, <3>4
  <2>6. ToSet(r) \subseteq ToSet(q) \ {s}
    BY <2>2, <2>3, <2>4 DEF Unique, ToSet
  <2>7. ASSUME NEW x \in ToSet(q), x # s PROVE x \in ToSet(r)
    <3>1. PICK j \in 1..Len(q) : q[j] = x
      BY <2>7 DEF ToSet
    <3>2. CASE j < k
      BY <3>1, <3>2, <2>2, <2>3, <2>4 DEF ToSet
    <3>3. CASE j > k
      <4>1. j-1 \in 1..Len(r) /\ r[j-1] = x
        BY <3>1, <3>3, <2>2, <2>3, <2>4
      <4> QED BY <4>1, <2>3 DEF ToSet
    <3> QED BY <3>1, <3>2, <3>3, <2>2, <2>7
  <2>8. Without(q, s) = r
    BY <1>2 DEF Without, r, k
  <2> QED BY <2>3, <2>5, <2>6, <2>7, <2>8
<1> QED BY <1>1, <1>2

(* So does appending an element that is not there yet. *)
LEMMA AppendUnique ==
  ASSUME NEW S, NEW q \in Seq(S), Unique(q), NEW s \in S, s \notin ToSet(q)
  PROVE  /\ Append(q, s) \in Seq(S)
         /\ Unique(Append(q, s))
         /\ ToSet(Append(q, s)) = ToSet(q) \cup {s}
         /\ Len(Append(q, s)) = Len(q) + 1
         /\ \A k \in 1..Len(q) : Append(q, s)[k] = q[k]
         /\ Append(q, s)[Len(q) + 1] = s
<1>1. /\ Append(q, s) \in Seq(S)
      /\ Len(Append(q, s)) = Len(q) + 1
      /\ \A k \in 1..Len(q) : Append(q, s)[k] = q[k]
      /\ Append(q, s)[Len(q) + 1] = s
  OBVIOUS
<1>2. \A k \in 1..Len(q) : q[k] # s
  BY DEF ToSet
<1>3. Unique(Append(q, s))
  BY <1>1, <1>2 DEF Unique
<1>4. ToSet(Append(q, s)) = ToSet(q) \cup {s}
  BY <1>1 DEF ToSet
<1> QED BY <1>1, <1>3, <1>4

-----------------------------------------------------------------------------
(* The inductive invariant *)

(* What a call has at hand where it is: a variable while it sets or        *)
(* notifies one, a subscriber (and the scan behind it) while it handles    *)
(* one, an issued SID while it looks one up or changes it.                 *)
WellShaped(c) ==
    /\ c.pc \in {"store", "table", "expire", "lapse", "sum", "drop", "notify",
                 "seq", "post", "count", "wrap", "plus", "increment"}
          => c.todo # <<>>
    /\ c.pc \in {"lapse", "sum", "drop", "seq", "post", "count", "wrap", "plus",
                 "increment"} => c.snap # <<>>
    /\ c.pc \in {"seq", "post", "count", "wrap", "plus", "increment"}
          => ~(c.idx <= c.size)
    /\ c.pc \in {"find", "renew", "retime", "recount", "unsubscribe"}
          => c.sid \in issued
    /\ c.pc = "find" => c.op \in {"renew", "unsubscribe"}

(* A scan no removal disturbed: the copy of a notify round is the list's   *)
(* beginning; the SID a lookup is after lies ahead of it or nowhere.       *)
ExactScan(c) ==
    /\ (c.pc = "notify" /\ c.idx <= c.size /\ ~c.disturbed) =>
          /\ c.size <= Len(subscriberList)
          /\ c.snap = SubSeq(subscriberList, 1, c.idx - 1)
    /\ (c.pc = "find" /\ ~c.disturbed) =>
          \A k \in 1..Len(subscriberList) :
              subscriberList[k] = c.sid => c.idx <= k /\ k <= c.size

SharedOK ==
    /\ value \in [Vars -> Values]
    /\ subscriberList \in Seq(Subs)
    /\ timeOut \in [Subs -> Timeouts \cup {0}]
    /\ subscriptionTime \in [Subs -> Nat]
    /\ notifyCount \in [Subs -> Longs]
    /\ issued \in SUBSET Subs
    /\ clock \in Nat
    /\ writes \in Nat
    /\ received \in [Subs -> [events: 0..MaxCount, seq: Longs]]
    /\ owed \in SUBSET (Subs \X Evented)

IInv ==
    /\ SharedOK
    /\ ListWellFormed
    /\ call \in [Threads -> Call]
    /\ \A t \in Threads : WellShaped(call[t]) /\ ExactScan(call[t])

LEMMA LongFacts ==
  /\ MaxCount \in Nat \ {0} /\ Longs \subseteq Int
  /\ 0 \in Longs /\ 1 \in Longs /\ -1 \in Longs /\ 0 \in 0..MaxCount
  /\ \A n \in Longs : PlusOne(n) \in Longs
  /\ \A n \in 0..MaxCount : n # MaxCount => n + 1 \in 0..MaxCount
BY BoundsAssumption DEF Longs, PlusOne

LEMMA IdleCallGood ==
  /\ IdleCall \in Call
  /\ WellShaped(IdleCall)
  /\ ExactScan(IdleCall)
<1>1. /\ "idle" \in PCs /\ <<>> \in Seq(Vars) /\ <<>> \in Seq(Subs)
      /\ InitValue \in Values
  BY ValuesAssumption DEF PCs
<1>2. IdleCall \in Call
  BY <1>1, LongFacts DEF IdleCall, Call
<1>3. WellShaped(IdleCall) /\ ExactScan(IdleCall)
  BY DEF IdleCall, WellShaped, ExactScan
<1> QED BY <1>2, <1>3

LEMMA PendingGood ==
  ASSUME NEW todo \in Seq(Vars)
  PROVE  /\ Pending(todo) \in Call
         /\ WellShaped(Pending(todo))
         /\ ExactScan(Pending(todo))
<1>1. CASE todo = <<>>
  BY <1>1, IdleCallGood DEF Pending
<1>2. CASE todo # <<>>
  <2> DEFINE c == [IdleCall EXCEPT !.pc = "table", !.todo = todo]
  <2>1. c \in Call
    BY IdleCallGood DEF Call, PCs
  <2>2. c.pc = "table" /\ c.todo = todo
    BY DEF IdleCall
  <2> HIDE DEF c
  <2>3. WellShaped(c) /\ ExactScan(c)
    BY <1>2, <2>2 DEF WellShaped, ExactScan
  <2>4. Pending(todo) = c
    BY <1>2 DEF Pending, c
  <2> QED BY <2>1, <2>3, <2>4
<1> QED BY <1>1, <1>2

LEMMA InitIInv == Init => IInv
<1> SUFFICES ASSUME Init PROVE IInv
  OBVIOUS
<1>1. SharedOK
  BY ValuesAssumption, LongFacts DEF Init, SharedOK
<1>2. ListWellFormed
  BY DEF Init, ListWellFormed, ToSet
<1>3. /\ call \in [Threads -> Call]
      /\ \A t \in Threads : WellShaped(call[t]) /\ ExactScan(call[t])
  BY IdleCallGood DEF Init
<1> QED BY <1>1, <1>2, <1>3 DEF IInv

-----------------------------------------------------------------------------
(* Steps *)

(* The other calls stay good when the list and the issued SIDs do, and the *)
(* calling thread gets a good call.                                        *)
LEMMA LocalStep ==
  ASSUME IInv, NEW t \in Threads, NEW c \in Call,
         call' = [call EXCEPT ![t] = c],
         WellShaped(c), ExactScan(c),
         UNCHANGED <<subscriberList, issued>>,
         SharedOK'
  PROVE  IInv'
<1>1. ListWellFormed'
  BY DEF IInv, ListWellFormed
<1>2. call' \in [Threads -> Call]
  BY DEF IInv
<1>3. \A u \in Threads : call'[u] = IF u = t THEN c ELSE call[u]
  BY DEF IInv
<1>4. ASSUME NEW d PROVE (WellShaped(d) <=> WellShaped(d)') /\ (ExactScan(d) <=> ExactScan(d)')
  BY DEF WellShaped, ExactScan
<1> QED BY <1>1, <1>2, <1>3, <1>4 DEF IInv

LEMMA SharedUnchanged ==
  ASSUME IInv, UNCHANGED <<value, lists, notifyCount, clock, received, owed>>,
         writes' \in Nat
  PROVE  SharedOK' /\ UNCHANGED <<subscriberList, issued>>
BY DEF IInv, SharedOK, lists

(* setValue and the steps of a notify round that leave the list alone.     *)
LEMMA RoundStep ==
  ASSUME IInv, NEW t \in Threads,
         \/ \E v \in Vars, x \in Values : SetValue(t, v, x)
         \/ Store(t) \/ SkipVariable(t) \/ BeginRound(t)
         \/ ExpireCopy(t) \/ ExpireTest(t) \/ ExpireTime(t) \/ ExpireSum(t)
         \/ NotifyStart(t) \/ ReadValue(t) \/ EndRound(t)
  PROVE  IInv'
<1> USE DEF IInv, lists
<1>0. /\ call[t] \in Call /\ WellShaped(call[t]) /\ ExactScan(call[t])
      /\ Len(subscriberList) \in Nat
  BY DEF SharedOK
<1>1. CASE \E v \in Vars, x \in Values : SetValue(t, v, x)
  <2> PICK v \in Vars, x \in Values : SetValue(t, v, x)
    BY <1>1
  <2> DEFINE c == [IdleCall EXCEPT !.pc = "store", !.todo = <<v>>, !.val = x]
  <2>0. <<v>> \in Seq(Vars) /\ "store" \in PCs
    BY DEF PCs
  <2>1. c \in Call
    BY <2>0, IdleCallGood DEF Call
  <2>2. c.pc = "store" /\ c.todo = <<v>>
    BY DEF IdleCall
  <2>3. WellShaped(c) /\ ExactScan(c)
    <3> HIDE DEF c
    <3> QED BY <2>2 DEF WellShaped, ExactScan
  <2>4. SharedOK' /\ UNCHANGED <<subscriberList, issued>>
    <3>1. writes' = writes + 1 /\ writes \in Nat
      BY DEF SetValue, SharedOK
    <3>2. UNCHANGED <<value, lists, notifyCount, clock, received, owed>>
      BY DEF SetValue
    <3> QED BY <3>1, <3>2, SharedUnchanged
  <2>4a. call' = [call EXCEPT ![t] = c]
    BY DEF SetValue
  <2> QED BY <2>1, <2>3, <2>4, <2>4a, LocalStep
<1>2. CASE Store(t)
  <2>1. call[t].todo \in Seq(Vars) /\ call[t].todo # <<>> /\ call[t].val \in Values
    BY <1>0, <1>2 DEF Store, WellShaped, Call
  <2>2. Var(t) \in Vars
    BY <2>1 DEF Var
  <2>3. ToSet(subscriberList) \subseteq Subs
    BY DEF SharedOK, ToSet
  <2>4. SharedOK' /\ UNCHANGED <<subscriberList, issued>>
    BY <1>2, <2>1, <2>2, <2>3 DEF Store, SharedOK
  <2>5. CASE Var(t) \in Evented
    <3>1. call' = [call EXCEPT ![t] = Pending(call[t].todo)]
      BY <1>2, <2>5 DEF Store
    <3> QED BY <2>1, <2>4, <3>1, PendingGood, LocalStep
  <2>6. CASE Var(t) \notin Evented
    <3>1. call' = [call EXCEPT ![t] = IdleCall]
      BY <1>2, <2>6 DEF Store
    <3> QED BY <2>4, <3>1, IdleCallGood, LocalStep
  <2> QED BY <2>5, <2>6
<1>3. CASE SkipVariable(t) \/ EndRound(t)
  <2>1. call[t].todo \in Seq(Vars) /\ call[t].todo # <<>>
    BY <1>0, <1>3 DEF SkipVariable, EndRound, WellShaped, Call
  <2>2. Tail(call[t].todo) \in Seq(Vars)
    BY <2>1
  <2>3. /\ SharedOK' /\ UNCHANGED <<subscriberList, issued>>
        /\ call' = [call EXCEPT ![t] = Pending(Tail(call[t].todo))]
    BY <1>3 DEF SkipVariable, EndRound, SharedOK
  <2> QED BY <2>2, <2>3, PendingGood, LocalStep
<1>4. CASE BeginRound(t)
  <2> DEFINE c == [StartScan(call[t], "expire") EXCEPT !.began = clock]
  <2>0. "expire" \in PCs /\ clock \in Nat /\ 1 \in Nat \ {0} /\ <<>> \in Seq(Subs)
    BY DEF PCs, SharedOK
  <2>1. c \in Call
    BY <1>0, <2>0 DEF StartScan, Call
  <2>2. c.pc = "expire" /\ c.todo = call[t].todo
    BY <1>0 DEF StartScan, Call
  <2>3. WellShaped(c) /\ ExactScan(c)
    <3> HIDE DEF c
    <3> QED BY <1>0, <1>4, <2>2 DEF BeginRound, WellShaped, ExactScan
  <2>4. SharedOK' /\ UNCHANGED <<subscriberList, issued>>
    BY <1>4, SharedUnchanged DEF BeginRound, SharedOK
  <2>4a. call' = [call EXCEPT ![t] = c]
    BY <1>4 DEF BeginRound
  <2> QED BY <2>1, <2>3, <2>4, <2>4a, LocalStep
<1>5. CASE ExpireCopy(t)
  <2> DEFINE c == [call[t] EXCEPT !.snap = Copied(t), !.idx = @ + 1]
  <2>1. call[t].idx \in Nat \ {0} /\ call[t].snap \in Seq(Subs) /\ call[t].pc = "expire"
    BY <1>0, <1>5 DEF Call, ExpireCopy
  <2>2. Copied(t) \in Seq(Subs)
    BY <2>1 DEF Copied, SharedOK
  <2>3. c \in Call /\ c.pc = "expire" /\ c.todo = call[t].todo
    <3>1. call[t].idx + 1 \in Nat \ {0}
      BY <2>1
    <3> QED BY <1>0, <2>1, <2>2, <3>1 DEF Call
  <2>4. WellShaped(c) /\ ExactScan(c)
    <3> HIDE DEF c
    <3> QED BY <1>0, <2>1, <2>3 DEF WellShaped, ExactScan
  <2>5. SharedOK' /\ UNCHANGED <<subscriberList, issued>>
    BY <1>5, SharedUnchanged DEF ExpireCopy, SharedOK
  <2>5a. call' = [call EXCEPT ![t] = c]
    BY <1>5 DEF ExpireCopy, CopyNext
  <2> QED BY <2>3, <2>4, <2>5, <2>5a, LocalStep
<1>6. CASE ExpireTest(t)
  <2> DEFINE c == IF IsFinite(Sub(t))
                  THEN [call[t] EXCEPT !.pc = "lapse", !.now = clock]
                  ELSE [call[t] EXCEPT !.snap = Tail(call[t].snap)]
  <2>1. call[t].snap \in Seq(Subs) /\ call[t].snap # <<>> /\ call[t].pc = "expire"
    BY <1>0, <1>6 DEF Call, ExpireTest
  <2>2. c \in Call /\ c.todo = call[t].todo /\ c.pc \in {"lapse", "expire"}
    <3>1. Tail(call[t].snap) \in Seq(Subs) /\ "lapse" \in PCs /\ clock \in Nat
      BY <2>1 DEF PCs, SharedOK
    <3> QED BY <1>0, <2>1, <3>1 DEF Call
  <2>3. c.pc = "lapse" => c.snap # <<>>
    BY <1>0, <2>1 DEF Call
  <2>4. WellShaped(c) /\ ExactScan(c)
    <3> HIDE DEF c
    <3> QED BY <1>0, <2>1, <2>2, <2>3 DEF WellShaped, ExactScan
  <2>5. SharedOK' /\ UNCHANGED <<subscriberList, issued>>
    BY <1>6, SharedUnchanged DEF ExpireTest, ExpireSum, SharedOK
  <2>5a. call' = [call EXCEPT ![t] = c]
    BY <1>6 DEF ExpireTest
  <2> QED BY <2>2, <2>4, <2>5, <2>5a, LocalStep
<1>6b. CASE ExpireTime(t)
  <2> DEFINE c == [call[t] EXCEPT !.pc = "sum", !.at = subscriptionTime[Sub(t)]]
  <2>1. call[t].snap \in Seq(Subs) /\ call[t].snap # <<>> /\ call[t].pc = "lapse"
    BY <1>0, <1>6b DEF Call, ExpireTime, WellShaped
  <2>1a. Sub(t) \in Subs
    BY <2>1 DEF Sub
  <2>2. c \in Call /\ c.todo = call[t].todo /\ c.pc = "sum" /\ c.snap = call[t].snap
    <3>1. subscriptionTime[Sub(t)] \in Nat /\ "sum" \in PCs
      BY <2>1a DEF PCs, SharedOK
    <3> QED BY <1>0, <3>1 DEF Call
  <2>4. WellShaped(c) /\ ExactScan(c)
    <3> HIDE DEF c
    <3> QED BY <1>0, <2>1, <2>2 DEF WellShaped, ExactScan
  <2>5. SharedOK' /\ UNCHANGED <<subscriberList, issued>>
    BY <1>6b, SharedUnchanged DEF ExpireTime, SharedOK
  <2>5a. call' = [call EXCEPT ![t] = c]
    BY <1>6b DEF ExpireTime
  <2> QED BY <2>2, <2>4, <2>5, <2>5a, LocalStep
<1>6a. CASE ExpireSum(t)
  <2> DEFINE c == IF Lapsed(call[t].at, timeOut[Sub(t)], call[t].now)
                  THEN [call[t] EXCEPT !.pc = "drop", !.now = 0, !.at = 0]
                  ELSE [call[t] EXCEPT !.pc = "expire", !.now = 0, !.at = 0,
                                       !.snap = Tail(call[t].snap)]
  <2>1. call[t].snap \in Seq(Subs) /\ call[t].snap # <<>> /\ call[t].pc = "sum"
    BY <1>0, <1>6a DEF Call, ExpireSum, WellShaped
  <2>2. c \in Call /\ c.todo = call[t].todo /\ c.pc \in {"drop", "expire"}
    <3>1. Tail(call[t].snap) \in Seq(Subs) /\ {"drop", "expire"} \subseteq PCs
      BY <2>1 DEF PCs
    <3> QED BY <1>0, <2>1, <3>1 DEF Call
  <2>3. c.pc = "drop" => c.snap # <<>>
    BY <1>0, <2>1 DEF Call
  <2>4. WellShaped(c) /\ ExactScan(c)
    <3> HIDE DEF c
    <3> QED BY <1>0, <2>1, <2>2, <2>3 DEF WellShaped, ExactScan
  <2>5. SharedOK' /\ UNCHANGED <<subscriberList, issued>>
    BY <1>6a, SharedUnchanged DEF ExpireSum, SharedOK
  <2>5a. call' = [call EXCEPT ![t] = c]
    BY <1>6a DEF ExpireSum
  <2> QED BY <2>2, <2>4, <2>5, <2>5a, LocalStep
<1>7. CASE NotifyStart(t)
  <2> DEFINE c == StartScan(call[t], "notify")
  <2>0. "notify" \in PCs /\ 1 \in Nat \ {0} /\ <<>> \in Seq(Subs)
    BY DEF PCs
  <2>1. c \in Call
    BY <1>0, <2>0 DEF StartScan, Call
  <2>2. /\ c.pc = "notify" /\ c.todo = call[t].todo /\ c.idx = 1
        /\ c.size = Len(subscriberList) /\ c.snap = <<>>
    BY <1>0 DEF StartScan, Call
  <2>3. SubSeq(subscriberList, 1, 0) = <<>>
    BY DEF SharedOK
  <2>4. WellShaped(c) /\ ExactScan(c)
    <3> HIDE DEF c
    <3> QED BY <1>0, <1>7, <2>2, <2>3 DEF NotifyStart, WellShaped, ExactScan
  <2>5. SharedOK' /\ UNCHANGED <<subscriberList, issued>>
    BY <1>7, SharedUnchanged DEF NotifyStart, SharedOK
  <2>5a. call' = [call EXCEPT ![t] = c]
    BY <1>7 DEF NotifyStart
  <2> QED BY <2>1, <2>4, <2>5, <2>5a, LocalStep
<1>8. CASE ReadValue(t)
  <2> DEFINE c == [call[t] EXCEPT !.pc = "seq", !.val = value[Var(t)],
                                  !.size = 0, !.idx = 1, !.disturbed = FALSE]
  <2>1. /\ call[t].todo \in Seq(Vars) /\ call[t].todo # <<>>
        /\ call[t].snap # <<>> /\ ~(call[t].idx <= call[t].size)
    BY <1>0, <1>8 DEF ReadValue, WellShaped, Call, Scanned, Scanning
  <2>2. value[Var(t)] \in Values
    BY <2>1 DEF Var, SharedOK
  <2>3. /\ c \in Call /\ c.pc = "seq" /\ c.todo = call[t].todo
        /\ c.snap = call[t].snap /\ c.idx = 1 /\ c.size = 0
    <3>1. 0 \in Nat /\ 1 \in Nat \ {0} /\ FALSE \in BOOLEAN /\ "seq" \in PCs
      BY DEF PCs
    <3> QED BY <1>0, <2>2, <3>1 DEF Call
  <2>4. WellShaped(c) /\ ExactScan(c)
    <3> HIDE DEF c
    <3> QED BY <2>1, <2>3 DEF WellShaped, ExactScan
  <2>5. SharedOK' /\ UNCHANGED <<subscriberList, issued>>
    BY <1>8, SharedUnchanged DEF ReadValue, SharedOK
  <2>5a. call' = [call EXCEPT ![t] = c]
    BY <1>8 DEF ReadValue
  <2> QED BY <2>3, <2>4, <2>5, <2>5a, LocalStep
<1> QED BY <1>1, <1>2, <1>3, <1>4, <1>5, <1>6, <1>6a, <1>6b, <1>7, <1>8

(* The copy made for the notify loop stays the beginning of the list.      *)
LEMMA NotifyCopyStep ==
  ASSUME IInv, NEW t \in Threads, NotifyCopy(t)
  PROVE  IInv'
<1> DEFINE k == call[t].idx
           c == [call[t] EXCEPT !.snap = Copied(t), !.idx = @ + 1]
<1>0. /\ call[t] \in Call /\ WellShaped(call[t]) /\ ExactScan(call[t])
      /\ subscriberList \in Seq(Subs) /\ Len(subscriberList) \in Nat
  BY DEF IInv, SharedOK
<1>1. /\ k \in Nat \ {0} /\ call[t].size \in Nat /\ k <= call[t].size
      /\ call[t].snap \in Seq(Subs) /\ call[t].pc = "notify"
      /\ k + 1 \in Nat \ {0} /\ (k + 1) - 1 = k
  <2>1. k \in Nat \ {0} /\ call[t].size \in Nat /\ call[t].snap \in Seq(Subs)
    BY <1>0 DEF Call
  <2>2. k <= call[t].size /\ call[t].pc = "notify"
    BY DEF NotifyCopy, Scanning
  <2>3. k + 1 \in Nat \ {0} /\ (k + 1) - 1 = k
    BY <2>1
  <2> QED BY <2>1, <2>2, <2>3
<1>2. Copied(t) \in Seq(Subs)
  BY <1>0, <1>1 DEF Copied
<1>3. /\ c \in Call /\ c.pc = "notify" /\ c.todo = call[t].todo
      /\ c.size = call[t].size /\ c.disturbed = call[t].disturbed
      /\ c.idx = k + 1 /\ c.snap = Copied(t)
  BY <1>0, <1>1, <1>2 DEF Call
<1>4. WellShaped(c)
  <2> HIDE DEF c
  <2> QED BY <1>0, <1>1, <1>3 DEF WellShaped
<1>5. ExactScan(c)
  <2> HIDE DEF c
  <2> SUFFICES ASSUME c.idx <= c.size, ~c.disturbed
               PROVE  /\ c.size <= Len(subscriberList)
                      /\ c.snap = SubSeq(subscriberList, 1, c.idx - 1)
    BY <1>3 DEF ExactScan
  <2>1. /\ call[t].size <= Len(subscriberList)
        /\ call[t].snap = SubSeq(subscriberList, 1, k - 1)
    BY <1>0, <1>1, <1>3 DEF ExactScan
  <2>2. k \in 1..Len(subscriberList)
    BY <1>0, <1>1, <2>1
  <2>3. Copied(t) = Append(SubSeq(subscriberList, 1, k - 1), subscriberList[k])
    BY <2>1, <2>2 DEF Copied
  <2>4. SubSeq(subscriberList, 1, k)
          = Append(SubSeq(subscriberList, 1, k - 1), subscriberList[k])
    BY <1>0, <2>2
  <2> QED BY <1>1, <1>3, <2>1, <2>3, <2>4
<1>6. SharedOK' /\ UNCHANGED <<subscriberList, issued>>
  <2>1. owed' \subseteq owed
    BY DEF NotifyCopy
  <2> QED BY <2>1 DEF IInv, SharedOK, NotifyCopy, lists
<1>7. call' = [call EXCEPT ![t] = c]
  BY DEF NotifyCopy, CopyNext, IInv
<1> QED BY <1>3, <1>4, <1>5, <1>6, <1>7, LocalStep

(* Delivering an event and counting it.                                    *)
LEMMA DeliveryStep ==
  ASSUME IInv, NEW t \in Threads,
         \/ ReadSeq(t) \/ \E outcome \in Outcomes : Post(t, outcome)
         \/ PostThrows(t) \/ TestCount(t) \/ ReadCount(t)
         \/ incrementNotifyCount(t)
  PROVE  IInv'
<1>0. /\ call[t] \in Call /\ WellShaped(call[t]) /\ ExactScan(call[t])
      /\ call[t].pc \in {"seq", "post", "count", "wrap", "plus", "increment"}
  BY DEF IInv, ReadSeq, Post, PostThrows, TestCount, ReadCount, incrementNotifyCount
<1>1. /\ call[t].snap \in Seq(Subs) /\ call[t].snap # <<>>
      /\ call[t].todo \in Seq(Vars) /\ call[t].todo # <<>>
      /\ call[t].seq \in Longs /\ InitValue \in Values
  BY <1>0, ValuesAssumption DEF Call, WellShaped
<1>2. Sub(t) \in Subs /\ Tail(call[t].snap) \in Seq(Subs)
  BY <1>1 DEF Sub
<1>3. notifyCount[Sub(t)] \in Longs
  BY <1>2 DEF IInv, SharedOK
<1> DEFINE next == [call[t] EXCEPT !.pc = "notify", !.snap = Tail(@),
                                   !.val = InitValue, !.seq = 0]
<1>4. /\ next \in Call /\ next.pc = "notify" /\ next.todo = call[t].todo
      /\ next.idx = call[t].idx /\ next.size = call[t].size
  <2>1. "notify" \in PCs /\ 0 \in Longs
    BY LongFacts DEF PCs
  <2> QED BY <1>0, <1>1, <1>2, <2>1 DEF Call
<1>5. WellShaped(next) /\ ExactScan(next)
  <2> HIDE DEF next
  <2> QED BY <1>0, <1>1, <1>4 DEF WellShaped, ExactScan
<1>6. ASSUME NEW p \in {"post", "count", "wrap", "plus", "increment"},
             NEW n \in Longs, NEW x \in Values
      PROVE  LET c == [call[t] EXCEPT !.pc = p, !.seq = n, !.val = x]
             IN  c \in Call /\ WellShaped(c) /\ ExactScan(c)
  <2> DEFINE c == [call[t] EXCEPT !.pc = p, !.seq = n, !.val = x]
  <2>1. p \in PCs
    BY DEF PCs
  <2>2. /\ c \in Call /\ c.pc = p /\ c.todo = call[t].todo
        /\ c.snap = call[t].snap /\ c.idx = call[t].idx /\ c.size = call[t].size
    BY <1>0, <2>1 DEF Call
  <2> HIDE DEF c
  <2>3. WellShaped(c) /\ ExactScan(c)
    BY <1>0, <1>1, <2>2 DEF WellShaped, ExactScan
  <2> QED BY <2>2, <2>3 DEF c
<1>6a. ASSUME NEW n, NEW p
       PROVE  /\ [call[t] EXCEPT !.pc = p, !.seq = n]
                   = [call[t] EXCEPT !.pc = p, !.seq = n, !.val = call[t].val]
              /\ [call[t] EXCEPT !.pc = p]
                   = [call[t] EXCEPT !.pc = p, !.seq = call[t].seq, !.val = call[t].val]
              /\ call[t].val \in Values /\ call \in [Threads -> Call]
  BY <1>0 DEF Call, IInv
<1>7. CASE ReadSeq(t) \/ ReadCount(t)
  <2>1. SharedOK' /\ UNCHANGED <<subscriberList, issued>>
    <3>1. writes' \in Nat
      BY <1>7 DEF ReadSeq, ReadCount, IInv, SharedOK
    <3> QED BY <1>7, <3>1, SharedUnchanged DEF ReadSeq, ReadCount
  <2>2. PICK p \in {"post", "increment"} :
          call' = [call EXCEPT ![t] = [call[t] EXCEPT !.pc = p,
                                                      !.seq = notifyCount[Sub(t)]]]
    BY <1>7 DEF ReadSeq, ReadCount, IInv
  <2> DEFINE c == [call[t] EXCEPT !.pc = p, !.seq = notifyCount[Sub(t)],
                                  !.val = call[t].val]
  <2>3. c \in Call /\ WellShaped(c) /\ ExactScan(c)
    BY <1>3, <1>6, <1>6a
  <2>4. call' = [call EXCEPT ![t] = c]
    BY <1>6a, <2>2
  <2> HIDE DEF c
  <2> QED BY <2>1, <2>3, <2>4, LocalStep
<1>7a. CASE TestCount(t)
  <2>1. SharedOK' /\ UNCHANGED <<subscriberList, issued>>
    <3>1. writes' \in Nat
      BY <1>7a DEF TestCount, IInv, SharedOK
    <3> QED BY <1>7a, <3>1, SharedUnchanged DEF TestCount
  <2>2. PICK p \in {"wrap", "plus"} :
          call' = [call EXCEPT ![t] = [call[t] EXCEPT !.pc = p]]
    BY <1>7a DEF TestCount, IInv
  <2> DEFINE c == [call[t] EXCEPT !.pc = p, !.seq = call[t].seq, !.val = call[t].val]
  <2>3. c \in Call /\ WellShaped(c) /\ ExactScan(c)
    BY <1>1, <1>6, <1>6a
  <2>4. call' = [call EXCEPT ![t] = c]
    BY <1>6a, <2>2
  <2> HIDE DEF c
  <2> QED BY <2>1, <2>3, <2>4, LocalStep
<1>7b. CASE PostThrows(t)
  <2>1. SharedOK' /\ UNCHANGED <<subscriberList, issued>>
    <3>1. writes' \in Nat
      BY <1>7b DEF PostThrows, IInv, SharedOK
    <3> QED BY <1>7b, <3>1, SharedUnchanged DEF PostThrows
  <2>2. call' = [call EXCEPT ![t] = IdleCall]
    BY <1>7b DEF PostThrows
  <2> QED BY <2>1, <2>2, IdleCallGood, LocalStep
<1>8. CASE \E outcome \in Outcomes : Post(t, outcome)
  <2> PICK outcome \in Outcomes : Post(t, outcome)
    BY <1>8
  <2>1. received' \in [Subs -> [events: 0..MaxCount, seq: Longs]]
    <3> DEFINE n == received[Sub(t)].events
               e == IF n = MaxCount THEN MaxCount ELSE n + 1
    <3>1. n \in 0..MaxCount
      BY <1>2 DEF IInv, SharedOK
    <3>2. e \in 0..MaxCount
      BY <3>1, LongFacts
    <3>3. \/ received' = received
          \/ received' = [received EXCEPT ![Sub(t)] = [events |-> e, seq |-> call[t].seq]]
      BY DEF Post
    <3>4. received \in [Subs -> [events: 0..MaxCount, seq: Longs]]
      BY DEF IInv, SharedOK
    <3> HIDE DEF e
    <3>5. [events |-> e, seq |-> call[t].seq] \in [events: 0..MaxCount, seq: Longs]
      BY <1>1, <3>2
    <3>6. CASE received' = received
      BY <3>4, <3>6
    <3>7. CASE received' = [received EXCEPT ![Sub(t)] = [events |-> e, seq |-> call[t].seq]]
      BY <1>2, <3>4, <3>5, <3>7
    <3> QED BY <3>3, <3>6, <3>7
  <2>2. owed' \in SUBSET (Subs \X Evented)
    <3>1. owed' \subseteq owed
      BY DEF Post
    <3> QED BY <3>1 DEF IInv, SharedOK
  <2>3. SharedOK' /\ UNCHANGED <<subscriberList, issued>>
    BY <2>1, <2>2 DEF Post, IInv, SharedOK, lists
  <2>4. CASE outcome = "answered"
    <3>1. call' = [call EXCEPT ![t] = [call[t] EXCEPT !.pc = "count", !.seq = 0,
                                                      !.val = InitValue]]
      <4>1. call' = ToCount(t)
        BY <2>4 DEF Post, AfterPost
      <4>2. [call[t] EXCEPT !.pc = "count", !.val = InitValue, !.seq = 0]
              = [call[t] EXCEPT !.pc = "count", !.seq = 0, !.val = InitValue]
        BY <1>0 DEF Call
      <4> QED BY <4>1, <4>2 DEF IInv, ToCount
    <3> QED BY <1>1, <1>6, <2>3, <3>1, LongFacts, LocalStep
  <2>5. CASE outcome # "answered"
    <3>1. call' = [call EXCEPT ![t] = next]
      BY <2>5 DEF Post, AfterPost, NextSubscriber, IInv
    <3> QED BY <1>4, <1>5, <2>3, <3>1, LocalStep
  <2> QED BY <2>4, <2>5
<1>9. CASE incrementNotifyCount(t)
  <2>1. PlusOne(call[t].seq) \in Longs /\ 1 \in Longs
    BY <1>1, LongFacts
  <2>2. notifyCount' \in [Subs -> Longs]
    BY <1>9, <1>2, <2>1 DEF incrementNotifyCount, IInv, SharedOK
  <2>3. SharedOK' /\ UNCHANGED <<subscriberList, issued>>
    BY <1>9, <2>2 DEF incrementNotifyCount, IInv, SharedOK, lists
  <2>4. call' = [call EXCEPT ![t] = next]
    BY <1>9 DEF incrementNotifyCount, NextSubscriber, IInv
  <2> QED BY <1>4, <1>5, <2>3, <2>4, LocalStep
<1> QED BY <1>7, <1>7a, <1>7b, <1>8, <1>9

(* A removal disturbs every other call it could mislead.                   *)
LEMMA RemoveStep ==
  ASSUME IInv, NEW t \in Threads, NEW s \in Subs, NEW c \in Call,
         removeSubscriber(t, s, c),
         WellShaped(c), c.pc \in {"idle", "expire"}
  PROVE  IInv'
<1> DEFINE list == subscriberList
<1>1. /\ list' \in Seq(Subs) /\ Unique(list')
      /\ ToSet(list') = ToSet(list) \ {s}
  <2>1. list \in Seq(Subs) /\ Unique(list)
    BY DEF IInv, SharedOK, ListWellFormed, Unique
  <2>2. list' = Without(list, s)
    BY DEF removeSubscriber
  <2> QED BY <2>1, <2>2, WithoutUnique
<1>2. ListWellFormed'
  <2>1. ToSet(list') \subseteq issued'
    BY <1>1 DEF removeSubscriber, IInv, ListWellFormed
  <2> QED BY <1>1, <2>1 DEF ListWellFormed, Unique
<1>3. SharedOK'
  <2>1. owed' \subseteq owed
    BY DEF removeSubscriber
  <2> QED BY <1>1, <2>1 DEF removeSubscriber, IInv, SharedOK
<1>4. ASSUME NEW u \in Threads
      PROVE  call'[u] \in Call /\ WellShaped(call[u])' /\ ExactScan(call[u])'
  <2>0. call[u] \in Call /\ WellShaped(call[u]) /\ ExactScan(call[u])
    BY DEF IInv
  <2>1. CASE u = t
    <3>1. call'[u] = c
      BY <2>1 DEF removeSubscriber
    <3> QED BY <3>1 DEF removeSubscriber, WellShaped, ExactScan
  <2>2. CASE u # t /\ Walking(u) /\ s \in ToSet(list)
    <3> DEFINE d == [call[u] EXCEPT !.disturbed = TRUE]
    <3>1. call'[u] = d
      BY <2>2 DEF removeSubscriber
    <3>2. /\ d \in Call /\ d.disturbed = TRUE /\ d.pc = call[u].pc
          /\ d.todo = call[u].todo /\ d.snap = call[u].snap /\ d.sid = call[u].sid
          /\ d.op = call[u].op /\ d.idx = call[u].idx /\ d.size = call[u].size
      BY <2>0 DEF Call
    <3> HIDE DEF d
    <3>3. d.disturbed /\ issued' = issued
      BY <3>2 DEF removeSubscriber
    <3>4. WellShaped(call[u])'
      BY <2>0, <3>1, <3>2, <3>3 DEF WellShaped
    <3>5. ExactScan(call[u])'
      BY <3>1, <3>3 DEF ExactScan
    <3> QED BY <3>1, <3>2, <3>4, <3>5
  <2>3. CASE u # t /\ ~Walking(u)
    <3>1. call'[u] = call[u]
      BY <2>3 DEF removeSubscriber
    <3> QED BY <2>0, <2>3, <3>1
            DEF Walking, Scanning, removeSubscriber, WellShaped, ExactScan
  <2>4. CASE u # t /\ s \notin ToSet(list)
    <3>1. call'[u] = call[u] /\ list' = list
      BY <2>4 DEF removeSubscriber, Without
    <3> QED BY <2>0, <3>1 DEF removeSubscriber, WellShaped, ExactScan
  <2> QED BY <2>1, <2>2, <2>3, <2>4
<1>5. call' \in [Threads -> Call]
  BY <1>4 DEF removeSubscriber
<1> QED BY <1>2, <1>3, <1>4, <1>5 DEF IInv

LEMMA DropStep ==
  ASSUME IInv, NEW t \in Threads, ExpireDrop(t) \/ Unsubscribe(t)
  PROVE  IInv'
<1>0. call[t] \in Call /\ WellShaped(call[t])
  BY DEF IInv
<1>1. CASE ExpireDrop(t)
  <2> DEFINE c == [call[t] EXCEPT !.pc = "expire", !.snap = Tail(@)]
  <2>1. /\ call[t].snap \in Seq(Subs) /\ call[t].snap # <<>> /\ call[t].todo # <<>>
    BY <1>0, <1>1 DEF Call, WellShaped, ExpireDrop
  <2>2. Sub(t) \in Subs /\ Tail(call[t].snap) \in Seq(Subs) /\ "expire" \in PCs
    BY <2>1 DEF Sub, PCs
  <2>3. c \in Call /\ c.pc = "expire" /\ c.todo = call[t].todo
    BY <1>0, <2>2 DEF Call
  <2>4. WellShaped(c)
    <3> HIDE DEF c
    <3> QED BY <2>1, <2>3 DEF WellShaped
  <2>5. removeSubscriber(t, Sub(t), c)
    BY <1>1 DEF ExpireDrop
  <2> QED BY <2>2, <2>3, <2>4, <2>5, RemoveStep
<1>2. CASE Unsubscribe(t)
  <2>1. call[t].sid \in Subs
    BY <1>0, <1>2 DEF WellShaped, Unsubscribe, IInv, SharedOK
  <2>2. removeSubscriber(t, call[t].sid, IdleCall) /\ IdleCall.pc = "idle"
    BY <1>2 DEF Unsubscribe, IdleCall
  <2> QED BY <2>1, <2>2, IdleCallGood, RemoveStep
<1> QED BY <1>1, <1>2

(* A new subscription goes to the end of the list, behind every scan.      *)
LEMMA SubscribeStep ==
  ASSUME IInv, NEW t \in Threads, NEW s \in Subs, NEW secs \in Timeouts,
         Subscribe(t, s, secs)
  PROVE  IInv'
<1> DEFINE list == subscriberList
<1>1. /\ list \in Seq(Subs) /\ Unique(list) /\ s \notin ToSet(list)
      /\ Len(list) \in Nat
  BY DEF Subscribe, createSID, IInv, SharedOK, ListWellFormed, Unique
<1>2. /\ list' \in Seq(Subs) /\ Unique(list')
      /\ ToSet(list') = ToSet(list) \cup {s}
      /\ Len(list') = Len(list) + 1
      /\ \A k \in 1..Len(list) : list'[k] = list[k]
      /\ list'[Len(list) + 1] = s
  BY <1>1, AppendUnique DEF Subscribe
<1>3. ListWellFormed'
  <2>1. ToSet(list') \subseteq issued'
    BY <1>2 DEF Subscribe, IInv, ListWellFormed
  <2> QED BY <1>2, <2>1 DEF ListWellFormed, Unique
<1>4. SharedOK'
  <2>1. owed' \in SUBSET (Subs \X Evented)
    BY DEF Subscribe, IInv, SharedOK
  <2>2. notifyCount' \in [Subs -> Longs]
    BY LongFacts DEF Subscribe, IInv, SharedOK
  <2> QED BY <1>2, <2>1, <2>2 DEF Subscribe, IInv, SharedOK
<1>5. Pending(StateTable) \in Call /\ WellShaped(Pending(StateTable))
  BY TableAssumption, PendingGood
<1>6. Pending(StateTable).pc = "table"
  BY TableAssumption DEF Pending, IdleCall
<1>7. call' \in [Threads -> Call]
  BY <1>5 DEF Subscribe, IInv
<1>8. ASSUME NEW u \in Threads
      PROVE  WellShaped(call[u])' /\ ExactScan(call[u])'
  <2>1. CASE u = t
    <3>1. call'[u] = Pending(StateTable)
      BY <2>1 DEF Subscribe, IInv
    <3> QED BY <1>5, <1>6, <3>1 DEF WellShaped, ExactScan
  <2>2. CASE u # t
    <3>1. /\ call'[u] = call[u] /\ call[u] \in Call
          /\ WellShaped(call[u]) /\ ExactScan(call[u])
      BY <2>2 DEF Subscribe, IInv
    <3>2. WellShaped(call[u])'
      BY <3>1, <2>2 DEF WellShaped, Subscribe, IInv
    <3>3. ExactScan(call[u])'
      <4> DEFINE c == call[u]
      <4>0. c \in Call /\ WellShaped(c) /\ ExactScan(c)
        BY <3>1
      <4>1. /\ c.idx \in Nat \ {0} /\ c.size \in Nat
        BY <4>0 DEF Call
      <4>2. ASSUME c.pc = "notify", c.idx <= c.size, ~c.disturbed
            PROVE  c.size <= Len(list') /\ c.snap = SubSeq(list', 1, c.idx - 1)
        <5>1. c.size <= Len(list) /\ c.snap = SubSeq(list, 1, c.idx - 1)
          BY <4>0, <4>2 DEF ExactScan
        <5>2. SubSeq(list', 1, c.idx - 1) = SubSeq(list, 1, c.idx - 1)
          BY <1>1, <1>2, <4>1, <4>2, <5>1
        <5> QED BY <1>1, <1>2, <4>1, <5>1, <5>2
      <4>3. ASSUME c.pc = "find", ~c.disturbed, NEW k \in 1..Len(list'),
                   list'[k] = c.sid
            PROVE  c.idx <= k /\ k <= c.size
        <5>1. c.sid \in issued
          BY <4>0, <4>3 DEF WellShaped
        <5>2. c.sid # s
          BY <5>1 DEF Subscribe, createSID
        <5>3. k \in 1..Len(list)
          BY <1>1, <1>2, <4>3, <5>2
        <5> QED BY <1>2, <4>0, <4>3, <5>3 DEF ExactScan
      <4> QED BY <3>1, <4>2, <4>3 DEF ExactScan
    <3> QED BY <3>1, <3>2, <3>3
  <2> QED BY <2>1, <2>2
<1> QED BY <1>3, <1>4, <1>7, <1>8 DEF IInv

LEMMA RequestStep ==
  ASSUME IInv, NEW t \in Threads,
         \/ \E s \in Subs, secs \in Timeouts : Lookup(t, s, "renew", secs)
         \/ \E s \in Subs : Lookup(t, s, "unsubscribe", 0)
         \/ Find(t) \/ NotFound(t)
         \/ RenewTimeOut(t) \/ RenewTime(t) \/ RenewCount(t)
  PROVE  IInv'
<1>0. /\ call[t] \in Call /\ WellShaped(call[t]) /\ ExactScan(call[t])
      /\ Len(subscriberList) \in Nat
  BY DEF IInv, SharedOK
<1>1. ASSUME NEW s \in Subs, NEW secs \in Timeouts \cup {0},
             NEW op \in {"renew", "unsubscribe"}, Lookup(t, s, op, secs)
      PROVE  IInv'
  <2> DEFINE c == [StartScan(IdleCall, "find") EXCEPT
                     !.op = op, !.sid = s, !.secs = secs]
  <2>0. "find" \in PCs /\ 1 \in Nat \ {0} /\ <<>> \in Seq(Subs)
    BY DEF PCs
  <2>1. c \in Call
    BY <1>0, <2>0, IdleCallGood DEF StartScan, Call
  <2>2. /\ c.pc = "find" /\ c.sid = s /\ c.op = op /\ c.idx = 1
        /\ c.size = Len(subscriberList)
    BY DEF StartScan, IdleCall
  <2>3. WellShaped(c) /\ ExactScan(c)
    <3> HIDE DEF c
    <3>1. s \in issued
      BY <1>1 DEF Lookup
    <3>2. \A k \in 1..Len(subscriberList) : 1 <= k /\ k <= Len(subscriberList)
      BY <1>0
    <3> QED BY <2>2, <3>1, <3>2 DEF WellShaped, ExactScan
  <2>4. SharedOK' /\ UNCHANGED <<subscriberList, issued>>
    BY <1>1, SharedUnchanged DEF Lookup, IInv, SharedOK
  <2>5. call' = [call EXCEPT ![t] = c]
    BY <1>1 DEF Lookup
  <2> QED BY <2>1, <2>3, <2>4, <2>5, LocalStep
<1>2. CASE Find(t) /\ IsHere(t)
  <2> DEFINE c == [IdleCall EXCEPT !.pc = call[t].op, !.sid = call[t].sid,
                                   !.secs = call[t].secs]
  <2>1. /\ call[t].op \in {"renew", "unsubscribe"} /\ call[t].sid \in issued
    BY <1>0, <1>2 DEF Find, WellShaped
  <2>2. c \in Call /\ c.pc = call[t].op /\ c.sid = call[t].sid
    <3>1. call[t].op \in PCs /\ call[t].sid \in Subs \cup {NoSub}
          /\ call[t].secs \in Timeouts \cup {0}
      BY <1>0, <2>1 DEF PCs, Call
    <3>2. c \in Call
      BY <3>1, IdleCallGood DEF Call
    <3> QED BY <3>2 DEF IdleCall
  <2>3. WellShaped(c) /\ ExactScan(c)
    <3> HIDE DEF c
    <3> QED BY <2>1, <2>2 DEF WellShaped, ExactScan
  <2>4. SharedOK' /\ UNCHANGED <<subscriberList, issued>>
    BY <1>2, SharedUnchanged DEF Find, IInv, SharedOK
  <2>5. call' = [call EXCEPT ![t] = c]
    BY <1>2 DEF Find, Found
  <2> QED BY <2>2, <2>3, <2>4, <2>5, LocalStep
<1>3. CASE Find(t) /\ ~IsHere(t)
  <2> DEFINE c == [call[t] EXCEPT !.idx = @ + 1]
  <2>1. /\ call[t].idx \in Nat \ {0} /\ call[t].idx + 1 \in Nat \ {0}
        /\ call[t].pc = "find"
    BY <1>0, <1>3 DEF Call, Find
  <2>2. /\ c \in Call /\ c.pc = "find" /\ c.sid = call[t].sid /\ c.op = call[t].op
        /\ c.size = call[t].size /\ c.disturbed = call[t].disturbed
        /\ c.idx = call[t].idx + 1
    BY <1>0, <2>1 DEF Call
  <2>3. WellShaped(c)
    <3> HIDE DEF c
    <3> QED BY <1>0, <2>1, <2>2 DEF WellShaped
  <2>4. ExactScan(c)
    <3> HIDE DEF c
    <3> SUFFICES ASSUME ~c.disturbed, NEW k \in 1..Len(subscriberList),
                        subscriberList[k] = c.sid
                 PROVE  c.idx <= k /\ k <= c.size
      BY <2>2 DEF ExactScan
    <3>1. call[t].idx <= k /\ k <= call[t].size
      BY <1>0, <2>1, <2>2 DEF ExactScan
    <3>2. call[t].idx # k
      BY <1>0, <1>3, <2>2 DEF IsHere
    <3> QED BY <1>0, <2>1, <2>2, <3>1, <3>2
  <2>5. SharedOK' /\ UNCHANGED <<subscriberList, issued>>
    BY <1>3, SharedUnchanged DEF Find, IInv, SharedOK
  <2>6. call' = [call EXCEPT ![t] = c]
    BY <1>3 DEF Find, IInv
  <2> QED BY <2>2, <2>3, <2>4, <2>5, <2>6, LocalStep
<1>4. CASE NotFound(t)
  <2>1. SharedOK' /\ UNCHANGED <<subscriberList, issued>>
    BY <1>4, SharedUnchanged DEF NotFound, IInv, SharedOK
  <2>2. call' = [call EXCEPT ![t] = IdleCall]
    BY <1>4 DEF NotFound
  <2> QED BY <2>1, <2>2, IdleCallGood, LocalStep
<1>5. CASE RenewTimeOut(t)
  <2> DEFINE c == [call[t] EXCEPT !.pc = "retime"]
  <2>1. /\ call[t].pc = "renew" /\ call[t].sid \in issued /\ call[t].sid \in Subs
        /\ call[t].secs \in Timeouts \cup {0} /\ "retime" \in PCs
    BY <1>0, <1>5 DEF RenewTimeOut, WellShaped, IInv, SharedOK, Call, PCs
  <2>2. c \in Call /\ c.pc = "retime" /\ c.sid = call[t].sid
    BY <1>0, <2>1 DEF Call
  <2>3. WellShaped(c) /\ ExactScan(c)
    <3> HIDE DEF c
    <3> QED BY <2>1, <2>2 DEF WellShaped, ExactScan
  <2>4. SharedOK' /\ UNCHANGED <<subscriberList, issued>>
    BY <1>5, <2>1 DEF RenewTimeOut, IInv, SharedOK
  <2>5. call' = [call EXCEPT ![t] = c]
    BY <1>5 DEF RenewTimeOut, IInv
  <2> QED BY <2>2, <2>3, <2>4, <2>5, LocalStep
<1>6. CASE RenewTime(t)
  <2> DEFINE c == [call[t] EXCEPT !.pc = "recount"]
  <2>1. /\ call[t].pc = "retime" /\ call[t].sid \in issued /\ call[t].sid \in Subs
        /\ clock \in Nat /\ "recount" \in PCs
    BY <1>0, <1>6 DEF RenewTime, WellShaped, IInv, SharedOK, Call, PCs
  <2>2. c \in Call /\ c.pc = "recount" /\ c.sid = call[t].sid
    BY <1>0, <2>1 DEF Call
  <2>3. WellShaped(c) /\ ExactScan(c)
    <3> HIDE DEF c
    <3> QED BY <2>1, <2>2 DEF WellShaped, ExactScan
  <2>4. SharedOK' /\ UNCHANGED <<subscriberList, issued>>
    BY <1>6, <2>1 DEF RenewTime, IInv, SharedOK
  <2>5. call' = [call EXCEPT ![t] = c]
    BY <1>6 DEF RenewTime, IInv
  <2> QED BY <2>2, <2>3, <2>4, <2>5, LocalStep
<1>6a. CASE RenewCount(t)
  <2>1. call[t].sid \in Subs
    BY <1>0, <1>6a DEF RenewCount, WellShaped, IInv, SharedOK
  <2>2. /\ notifyCount' \in [Subs -> Longs]
        /\ received' \in [Subs -> [events: 0..MaxCount, seq: Longs]]
    BY <1>6a, <2>1, LongFacts DEF RenewCount, IInv, SharedOK
  <2>3. SharedOK' /\ UNCHANGED <<subscriberList, issued>>
    BY <1>6a, <2>2 DEF RenewCount, IInv, SharedOK, lists
  <2>4. call' = [call EXCEPT ![t] = IdleCall]
    BY <1>6a DEF RenewCount
  <2> QED BY <2>3, <2>4, IdleCallGood, LocalStep
<1>7. CASE \E s \in Subs, secs \in Timeouts : Lookup(t, s, "renew", secs)
  BY <1>1, <1>7
<1>8. CASE \E s \in Subs : Lookup(t, s, "unsubscribe", 0)
  BY <1>1, <1>8
<1> QED BY <1>2, <1>3, <1>4, <1>5, <1>6, <1>6a, <1>7, <1>8

LEMMA UnchangedStep ==
  ASSUME IInv, UNCHANGED <<subscriberList, issued, call>>, SharedOK'
  PROVE  IInv'
BY DEF IInv, ListWellFormed, WellShaped, ExactScan

LEMMA NextIInv == IInv /\ [Next]_vars => IInv'
<1> SUFFICES ASSUME IInv, [Next]_vars PROVE IInv'
  OBVIOUS
<1>1. CASE UNCHANGED vars
  BY <1>1, UnchangedStep DEF vars, lists, IInv, SharedOK
<1>2. CASE Tick
  <2>1. UNCHANGED <<subscriberList, issued, call>>
    BY <1>2 DEF Tick, lists
  <2>2. SharedOK'
    <3>1. clock' = clock + 1 /\ clock \in Nat
      BY <1>2 DEF Tick, IInv, SharedOK
    <3> QED BY <1>2, <3>1 DEF Tick, lists, IInv, SharedOK
  <2> QED BY <2>1, <2>2, UnchangedStep
<1>3. ASSUME NEW t \in Threads, Enter(t)
      PROVE  IInv'
  BY <1>3, RoundStep, SubscribeStep, RequestStep DEF Enter
<1>4. ASSUME NEW t \in Threads, Continue(t)
      PROVE  IInv'
  BY <1>4, RoundStep, NotifyCopyStep, DeliveryStep, DropStep, RequestStep
     DEF Continue
<1> QED BY <1>1, <1>2, <1>3, <1>4 DEF Next

THEOREM InductiveInvariant == Spec => []IInv
BY InitIInv, NextIInv, PTL DEF Spec

-----------------------------------------------------------------------------
(* What the properties of Eventing are worth for every instance *)

(* Every variable keeps its type.                                          *)
THEOREM TypeCorrect == Spec => []TypeOK
<1>1. IInv => TypeOK
  BY DEF IInv, SharedOK, TypeOK
<1> QED BY <1>1, InductiveInvariant, PTL

(* No subscription is ever listed twice, or without an SID handed out.     *)
THEOREM ListAlwaysWellFormed == Spec => []ListWellFormed
<1>1. IInv => ListWellFormed
  BY DEF IInv
<1> QED BY <1>1, InductiveInvariant, PTL

(* The copy of an undisturbed notify round is exact.                       *)
THEOREM CopyIsExact == Spec => []ExactCopy
<1>1. IInv => ExactCopy
  BY DEF IInv, ExactCopy, ExactScan, Scanning
<1> QED BY <1>1, InductiveInvariant, PTL

(* The list only ever gains a subscription whose SID is new.               *)
LEMMA ListGrowsByNewOnly ==
  ASSUME IInv, [Next]_vars, NEW s \in ToSet(subscriberList'),
         s \notin ToSet(subscriberList)
  PROVE  s \notin issued
<1>1. CASE UNCHANGED subscriberList
  BY <1>1
<1>2. CASE \E t \in Threads, r \in Subs, secs \in Timeouts : Subscribe(t, r, secs)
  <2> PICK t \in Threads, r \in Subs, secs \in Timeouts : Subscribe(t, r, secs)
    BY <1>2
  <2>1. /\ subscriberList \in Seq(Subs) /\ Unique(subscriberList)
        /\ r \notin ToSet(subscriberList) /\ r \notin issued
    BY DEF Subscribe, createSID, IInv, SharedOK, ListWellFormed, Unique
  <2>2. ToSet(subscriberList') = ToSet(subscriberList) \cup {r}
    BY <2>1, AppendUnique DEF Subscribe
  <2> QED BY <2>1, <2>2
<1>3. CASE \E r : subscriberList' = Without(subscriberList, r)
  <2> PICK r : subscriberList' = Without(subscriberList, r)
    BY <1>3
  <2>1. subscriberList \in Seq(Subs) /\ Unique(subscriberList)
    BY DEF IInv, SharedOK, ListWellFormed, Unique
  <2>2. ToSet(subscriberList') = ToSet(subscriberList) \ {r}
    BY <2>1, WithoutUnique
  <2> QED BY <2>2
<1>4. \/ UNCHANGED subscriberList
      \/ \E t \in Threads, r \in Subs, secs \in Timeouts : Subscribe(t, r, secs)
      \/ \E r : subscriberList' = Without(subscriberList, r)
  BY DEF Next, vars, lists, Tick, Enter, Continue, SetValue, Lookup, Store,
         SkipVariable, BeginRound, ExpireCopy, ExpireTest, ExpireTime, ExpireSum, ExpireDrop,
         NotifyStart, NotifyCopy, ReadValue, ReadSeq, Post, PostThrows,
         TestCount, ReadCount, incrementNotifyCount, EndRound, Find, NotFound,
         RenewTimeOut, RenewTime, RenewCount, Unsubscribe, removeSubscriber
<1> QED BY <1>1, <1>2, <1>3, <1>4

(* A thread moves only its own call, though a removal marks others.        *)
SameButDisturbed(t) ==
    /\ call'[t].pc = call[t].pc /\ call'[t].sid = call[t].sid
    /\ call'[t].snap = call[t].snap /\ call'[t].now = call[t].now
    /\ call'[t].at = call[t].at /\ call'[t].began = call[t].began

LEMMA OthersStayPut ==
  ASSUME IInv, NEW t \in Threads, NEW u \in Threads \ {t},
         Enter(u) \/ Continue(u)
  PROVE  SameButDisturbed(t)
<1>0. call \in [Threads -> Call]
  BY DEF IInv
<1>1. ASSUME NEW c, call' = [call EXCEPT ![u] = c]
      PROVE  SameButDisturbed(t)
  BY <1>0, <1>1 DEF SameButDisturbed
<1>2. ASSUME NEW s, NEW c, removeSubscriber(u, s, c)
      PROVE  SameButDisturbed(t)
  <2>1. /\ call[t] \in Call
        /\ call'[t] \in {call[t], [call[t] EXCEPT !.disturbed = TRUE]}
    BY <1>0, <1>2 DEF removeSubscriber
  <2> QED BY <2>1 DEF Call, SameButDisturbed
<1>3. CASE Enter(u)
  <2>1. PICK c : call' = [call EXCEPT ![u] = c]
    BY <1>3 DEF Enter, SetValue, Subscribe, Lookup
  <2> QED BY <1>1, <2>1
<1>4. CASE ExpireDrop(u) \/ Unsubscribe(u)
  BY <1>2, <1>4 DEF ExpireDrop, Unsubscribe
<1>5. CASE Store(u) \/ SkipVariable(u) \/ BeginRound(u) \/ ExpireCopy(u)
           \/ NotifyStart(u) \/ NotifyCopy(u) \/ ReadValue(u) \/ ReadSeq(u)
  <2>1. PICK c : call' = [call EXCEPT ![u] = c]
    BY <1>5 DEF Store, SkipVariable, BeginRound, ExpireCopy, NotifyStart,
       NotifyCopy, CopyNext, ReadValue, ReadSeq
  <2> QED BY <1>1, <2>1
<1>5a. CASE ExpireTest(u)
  <2>1. PICK c : call' = [call EXCEPT ![u] = c]
    BY <1>5a DEF ExpireTest
  <2> QED BY <1>1, <2>1
<1>5b. CASE ExpireTime(u) \/ ExpireSum(u)
  <2>1. PICK c : call' = [call EXCEPT ![u] = c]
    BY <1>5b DEF ExpireTime, ExpireSum
  <2> QED BY <1>1, <2>1
<1>6. CASE (\E outcome \in Outcomes : Post(u, outcome)) \/ PostThrows(u)
           \/ TestCount(u) \/ ReadCount(u) \/ incrementNotifyCount(u)
  <2>1. PICK c : call' = [call EXCEPT ![u] = c]
    BY <1>6 DEF Post, AfterPost, ToCount, NextSubscriber, PostThrows, TestCount,
       ReadCount, incrementNotifyCount
  <2> QED BY <1>1, <2>1
<1>7. CASE EndRound(u) \/ Find(u) \/ NotFound(u)
           \/ RenewTimeOut(u) \/ RenewTime(u) \/ RenewCount(u)
  <2>1. PICK c : call' = [call EXCEPT ![u] = c]
    BY <1>7 DEF EndRound, Find, Found, NotFound,
       RenewTimeOut, RenewTime, RenewCount
  <2> QED BY <1>1, <2>1
<1> QED BY <1>3, <1>4, <1>5, <1>5a, <1>5b, <1>6, <1>7 DEF Continue

(* A lookup misses a listed subscription only after a removal shifted the  *)
(* list under it.                                                          *)
THEOREM RefusalIsJustified == Spec => RefusedOnlyIfGone
<1> DEFINE Refused(t) ==
      call[t].pc = "find" /\ call'[t].pc = "idle" /\ ~call[t].disturbed
<1>1. ASSUME IInv, [Next]_vars, NEW t \in Threads, Refused(t)
      PROVE  call[t].sid \notin ToSet(subscriberList)
  <2>0. /\ call[t] \in Call /\ WellShaped(call[t]) /\ ExactScan(call[t])
        /\ call \in [Threads -> Call] /\ call'[t].pc # call[t].pc
    BY <1>1 DEF IInv
  <2>1. Enter(t) \/ Continue(t)
    <3>1. ~UNCHANGED call
      BY <2>0
    <3>2. PICK u \in Threads : Enter(u) \/ Continue(u)
      BY <1>1, <3>1 DEF Next, vars, Tick
    <3> QED BY <1>1, <2>0, <3>2, OthersStayPut DEF SameButDisturbed
  <2>2. Find(t) \/ NotFound(t)
    BY <1>1, <2>1
       DEF Enter, SetValue, Subscribe, Lookup, Continue, Store, SkipVariable,
           BeginRound, ExpireCopy, ExpireTest, ExpireTime, ExpireSum, ExpireDrop,
           NotifyStart, NotifyCopy, ReadValue, ReadSeq, Post, PostThrows,
           TestCount, ReadCount, incrementNotifyCount, EndRound,
           RenewTimeOut, RenewTime, RenewCount, Unsubscribe
  <2>3. ~Find(t)
    <3> SUFFICES ASSUME Find(t) PROVE FALSE
      OBVIOUS
    <3>1. call[t].op # "idle"
      BY <1>1, <2>0 DEF WellShaped
    <3>2. \/ call' = Found(t)
          \/ call' = [call EXCEPT ![t].idx = @ + 1]
      BY DEF Find
    <3>3. call'[t].pc \in {call[t].op, call[t].pc}
      <4>1. CASE call' = Found(t)
        <5>1. call'[t] = [IdleCall EXCEPT !.pc = call[t].op, !.sid = call[t].sid,
                                          !.secs = call[t].secs]
          BY <2>0, <4>1 DEF Found
        <5> QED BY <5>1 DEF IdleCall
      <4>2. CASE call' = [call EXCEPT ![t].idx = @ + 1]
        BY <2>0, <4>2 DEF Call
      <4> QED BY <3>2, <4>1, <4>2
    <3> QED BY <1>1, <3>1, <3>3
  <2>4. NotFound(t)
    BY <2>2, <2>3
  <2>5. subscriberList \in Seq(Subs) /\ Len(subscriberList) \in Nat
    BY <1>1 DEF IInv, SharedOK
  <2>6. ASSUME NEW k \in 1..Len(subscriberList),
               subscriberList[k] = call[t].sid
        PROVE  FALSE
    <3>1. k \in Nat /\ call[t].idx \in Nat /\ call[t].size \in Nat
      BY <2>0, <2>5 DEF Call
    <3>2. ~(call[t].idx <= call[t].size)
      BY <2>4 DEF NotFound, Scanned, Scanning
    <3>3. call[t].idx <= k /\ k <= call[t].size
      BY <1>1, <2>0, <2>6 DEF ExactScan
    <3> QED BY <3>1, <3>2, <3>3
  <2> QED BY <2>5, <2>6 DEF ToSet
<1>2. IInv /\ [Next]_vars =>
        [\A t \in Threads : Refused(t)
            => call[t].sid \notin ToSet(subscriberList)]_vars
  BY <1>1
<1> QED BY <1>2, InductiveInvariant, PTL DEF Spec, RefusedOnlyIfGone

-----------------------------------------------------------------------------
(***************************************************************************)
(* The service implements the abstract channel's safety part, whatever the *)
(* number of threads: every step of Eventing is a step of EventChannel or  *)
(* leaves its variables alone.                                             *)
(***************************************************************************)

Listed == ToSet(subscriberList)
Gone == issued \ Listed

(* Nothing is owed to who is not listed, and a call was disturbed only if  *)
(* somebody is gone.                                                       *)
ChannelInv ==
    /\ owed \subseteq Listed \X Evented
    /\ \A t \in Threads : call[t].disturbed => Gone # {}

LEMMA ListFacts ==
  ASSUME IInv
  PROVE  /\ subscriberList \in Seq(Subs) /\ Unique(subscriberList)
         /\ Listed \subseteq issued /\ issued \subseteq Subs
         /\ call \in [Threads -> Call]
         /\ Evented \subseteq Vars
BY EventedAssumption DEF IInv, SharedOK, ListWellFormed, Unique, Listed

(* A removal, seen from the channel.                                       *)
LEMMA RemovalDrops ==
  ASSUME IInv, ChannelInv, NEW t \in Threads, NEW s \in Subs, NEW c,
         removeSubscriber(t, s, c), c.disturbed => call[t].disturbed
  PROVE  /\ ChannelInv'
         /\ Channel!Drop(s) \/ UNCHANGED Channel!vars
<1>1. Listed' = Listed \ {s} /\ issued' = issued /\ owed' = owed \ ({s} \X Vars)
  BY ListFacts, WithoutUnique DEF removeSubscriber, Listed
<1>2. owed' \subseteq Listed' \X Evented
  BY <1>1, ListFacts DEF ChannelInv
<1>3. CASE s \in Listed
  <2>1. s \in Gone' /\ Gone' = Gone \cup {s}
    BY <1>1, <1>3, ListFacts DEF Gone
  <2>2. Channel!Drop(s)
    BY <1>1, <1>3, <2>1 DEF Channel!Drop, Gone, Listed
  <2> QED BY <1>2, <2>1, <2>2 DEF ChannelInv
<1>4. CASE s \notin Listed
  <2>1. owed' = owed /\ Listed' = Listed
    BY <1>1, <1>4 DEF ChannelInv
  <2>2. \A u \in Threads : call'[u].disturbed => call[u].disturbed
    BY <1>4 DEF removeSubscriber, Listed
  <2> QED BY <1>1, <1>2, <2>1, <2>2 DEF ChannelInv, Gone, Listed, Channel!vars
<1> QED BY <1>3, <1>4

(* No call becomes disturbed except by a removal.                          *)
CallsStayCalm ==
    \A u \in Threads : call'[u].disturbed => call[u].disturbed

LEMMA CalmSteps ==
  ASSUME IInv, NEW t \in Threads,
         Enter(t) \/ Continue(t), ~ExpireDrop(t), ~Unsubscribe(t)
  PROVE  CallsStayCalm
<1>0. call \in [Threads -> Call] /\ call[t] \in Call
  BY DEF IInv
<1>1. ~IdleCall.disturbed /\ \A todo : ~Pending(todo).disturbed
  BY DEF Pending, IdleCall
<1>2. ASSUME NEW c, call' = [call EXCEPT ![t] = c], c.disturbed => call[t].disturbed
      PROVE  CallsStayCalm
  BY <1>0, <1>2 DEF CallsStayCalm
<1>3. CASE Enter(t)
  <2>1. ASSUME NEW v, NEW x, SetValue(t, v, x) PROVE CallsStayCalm
    <3> DEFINE c == [IdleCall EXCEPT !.pc = "store", !.todo = <<v>>, !.val = x]
    <3>1. ~c.disturbed
      BY DEF IdleCall
    <3> QED BY <1>2, <2>1, <3>1 DEF SetValue
  <2>2. ASSUME NEW r, NEW secs, Subscribe(t, r, secs) PROVE CallsStayCalm
    BY <1>1, <1>2, <2>2 DEF Subscribe
  <2>3. ASSUME NEW r, NEW op, NEW secs, Lookup(t, r, op, secs) PROVE CallsStayCalm
    <3> DEFINE c == [StartScan(IdleCall, "find") EXCEPT
                       !.op = op, !.sid = r, !.secs = secs]
    <3>1. ~c.disturbed
      BY DEF StartScan, IdleCall
    <3> QED BY <1>2, <2>3, <3>1 DEF Lookup
  <2> QED BY <1>3, <2>1, <2>2, <2>3 DEF Enter
<1>4. CASE Store(t) \/ SkipVariable(t) \/ EndRound(t) \/ NotFound(t) \/ RenewCount(t)
  <2>1. PICK c : call' = [call EXCEPT ![t] = c] /\ ~c.disturbed
    BY <1>1, <1>4 DEF Store, SkipVariable, EndRound, NotFound, RenewCount
  <2> QED BY <1>2, <2>1
<1>5. CASE BeginRound(t) \/ NotifyStart(t)
  <2>1. ASSUME NEW pc, NEW x
        PROVE  /\ StartScan(call[t], pc).disturbed = FALSE
               /\ [StartScan(call[t], pc) EXCEPT !.began = x].disturbed = FALSE
    BY <1>0 DEF StartScan, Call
  <2>2. CASE BeginRound(t)
    BY <1>2, <2>1, <2>2 DEF BeginRound
  <2>3. CASE NotifyStart(t)
    BY <1>2, <2>1, <2>3 DEF NotifyStart
  <2> QED BY <1>5, <2>2, <2>3
<1>6. CASE ExpireCopy(t) \/ NotifyCopy(t) \/ ReadValue(t) \/ ReadSeq(t)
           \/ ReadCount(t) \/ RenewTimeOut(t) \/ RenewTime(t)
  <2>1. CASE call' = CopyNext(t)
    BY <1>0, <2>1 DEF CopyNext, Call, CallsStayCalm
  <2>2. CASE ReadValue(t)
    BY <1>0, <2>2 DEF ReadValue, Call, CallsStayCalm
  <2>3. ASSUME NEW p, NEW n, call' = [call EXCEPT ![t].pc = p, ![t].seq = n]
        PROVE  CallsStayCalm
    BY <1>0, <2>3 DEF Call, CallsStayCalm
  <2>4. ASSUME NEW p, call' = [call EXCEPT ![t].pc = p]
        PROVE  CallsStayCalm
    BY <1>0, <2>4 DEF Call, CallsStayCalm
  <2> QED BY <1>6, <2>1, <2>2, <2>3, <2>4
          DEF ExpireCopy, NotifyCopy, ReadSeq, ReadCount, RenewTimeOut, RenewTime
<1>7. CASE ExpireTest(t)
  BY <1>0, <1>7 DEF ExpireTest, Call, CallsStayCalm
<1>8. CASE ExpireTime(t) \/ ExpireSum(t)
  <2>1. CASE ExpireTime(t)
    BY <1>0, <2>1 DEF ExpireTime, Call, CallsStayCalm
  <2>2. CASE ExpireSum(t)
    BY <1>0, <2>2 DEF ExpireSum, Call, CallsStayCalm
  <2> QED BY <1>8, <2>1, <2>2
<1>9. CASE Find(t)
  <2>1. CASE call' = Found(t)
    <3> DEFINE c == [IdleCall EXCEPT !.pc = call[t].op, !.sid = call[t].sid,
                                     !.secs = call[t].secs]
    <3>1. ~c.disturbed
      BY DEF IdleCall
    <3> QED BY <1>2, <2>1, <3>1 DEF Found
  <2>2. CASE call' = [call EXCEPT ![t].idx = @ + 1]
    BY <1>0, <2>2 DEF Call, CallsStayCalm
  <2> QED BY <1>9, <2>1, <2>2 DEF Find
<1>10. CASE \/ \E outcome \in Outcomes : Post(t, outcome)
            \/ PostThrows(t) \/ TestCount(t) \/ incrementNotifyCount(t)
  <2>1. \/ call' = ToCount(t)
        \/ call' = [call EXCEPT ![t] = IdleCall]
        \/ \E p : call' = [call EXCEPT ![t].pc = p]
        \/ call' = NextSubscriber(t)
    BY <1>10 DEF Post, AfterPost, PostThrows, TestCount, incrementNotifyCount
  <2>2. CASE call' = ToCount(t)
    <3> DEFINE c == [call[t] EXCEPT !.pc = "count", !.val = InitValue, !.seq = 0]
    <3>1. c.disturbed = call[t].disturbed
      BY <1>0 DEF Call
    <3>2. call' = [call EXCEPT ![t] = c]
      BY <1>0, <2>2 DEF ToCount
    <3> QED BY <1>2, <3>1, <3>2
  <2>2b. ASSUME NEW p, call' = [call EXCEPT ![t].pc = p] PROVE CallsStayCalm
    BY <1>0, <2>2b DEF Call, CallsStayCalm
  <2>2a. CASE call' = [call EXCEPT ![t] = IdleCall]
    BY <1>1, <1>2, <2>2a
  <2>3. CASE call' = NextSubscriber(t)
    <3> DEFINE c == [call[t] EXCEPT !.pc = "notify", !.snap = Tail(@),
                                    !.val = InitValue, !.seq = 0]
    <3>1. c.disturbed = call[t].disturbed
      BY <1>0 DEF Call
    <3> QED BY <1>2, <2>3, <3>1 DEF NextSubscriber
  <2> QED BY <2>1, <2>2, <2>2a, <2>2b, <2>3
<1> QED BY <1>3, <1>4, <1>5, <1>6, <1>7, <1>8, <1>9, <1>10 DEF Continue

(* A step without removal keeps the invariant if what it adds to the debts *)
(* is owed to who is listed afterwards.                                    *)
LEMMA CalmKeepsInv ==
  ASSUME IInv, ChannelInv, [Next]_vars, CallsStayCalm, issued \subseteq issued',
         owed' \subseteq Listed' \X Evented
  PROVE  ChannelInv'
<1>1. Gone \subseteq Gone'
  BY ListGrowsByNewOnly DEF Gone, Listed
<1> QED BY <1>1 DEF ChannelInv, CallsStayCalm

-----------------------------------------------------------------------------
(* Each kind of step *)

LEMMA Subscribing ==
  ASSUME IInv, ChannelInv, NEW t \in Threads, NEW s \in Subs, NEW secs,
         Subscribe(t, s, secs)
  PROVE  /\ issued \subseteq issued' /\ owed' \subseteq Listed' \X Evented
         /\ Channel!Subscribe(s)
<1>1. /\ s \notin Listed /\ s \notin issued
      /\ issued' = issued \cup {s} /\ owed' = owed \cup ({s} \X Evented)
  BY ListFacts DEF Subscribe, createSID
<1>2. Listed' = Listed \cup {s}
  BY <1>1, ListFacts, AppendUnique DEF Subscribe, Listed
<1>3. Gone' = Gone
  BY <1>1, <1>2 DEF Gone
<1> QED BY <1>1, <1>2, <1>3 DEF ChannelInv, Channel!Subscribe, Gone, Listed

LEMMA Storing ==
  ASSUME IInv, ChannelInv, NEW t \in Threads, Store(t)
  PROVE  /\ UNCHANGED <<subscriberList, issued>>
         /\ owed' \subseteq Listed' \X Evented
         /\ (\E v \in Vars : Channel!Publish(v)) \/ UNCHANGED owed
<1>1. UNCHANGED <<subscriberList, issued>> /\ Listed' = Listed
  BY DEF Store, lists, Listed
<1>2. CASE Var(t) \in Evented
  <2>1. owed' = owed \cup (Listed \X {Var(t)}) \/ UNCHANGED owed
    BY <1>2 DEF Store, Listed
  <2>2. owed' = owed \cup (Listed \X {Var(t)}) => Channel!Publish(Var(t))
    BY <1>1, <1>2 DEF Channel!Publish, Listed
  <2> QED BY <1>1, <1>2, <2>1, <2>2, ListFacts DEF ChannelInv
<1>3. CASE Var(t) \notin Evented
  BY <1>1, <1>3 DEF Store, ChannelInv
<1> QED BY <1>2, <1>3

(* Who is missing from a disturbed copy is skipped.                        *)
LEMMA Copying ==
  ASSUME IInv, ChannelInv, NEW t \in Threads, NotifyCopy(t)
  PROVE  /\ UNCHANGED <<subscriberList, issued>>
         /\ owed' \subseteq owed
         /\ (\E v \in Vars : Channel!Skip(v)) \/ UNCHANGED owed
<1>1. UNCHANGED <<subscriberList, issued>> /\ owed' \subseteq owed
  BY DEF NotifyCopy, lists
<1>2. Var(t) \in Vars
  <2>1. call[t].todo \in Seq(Vars) /\ call[t].todo # <<>>
    BY DEF IInv, WellShaped, NotifyCopy, Call
  <2> QED BY <2>1 DEF Var
<1>3. CASE call[t].idx = call[t].size /\ call[t].disturbed
  <2> DEFINE S == Listed \ ToSet(Copied(t))
  <2>1. Gone # {} /\ S \in SUBSET Listed /\ owed' = owed \ (S \X {Var(t)})
    BY <1>3 DEF NotifyCopy, ChannelInv, Listed
  <2>2. Channel!Skip(Var(t))
    BY <1>1, <2>1 DEF Channel!Skip, Gone, Listed
  <2> QED BY <1>1, <1>2, <2>2
<1>4. CASE ~(call[t].idx = call[t].size /\ call[t].disturbed)
  BY <1>1, <1>4 DEF NotifyCopy
<1> QED BY <1>3, <1>4

LEMMA Posting ==
  ASSUME IInv, ChannelInv, NEW t \in Threads, NEW outcome, Post(t, outcome)
  PROVE  /\ UNCHANGED <<subscriberList, issued>>
         /\ owed' \subseteq owed
         /\ (\E s \in Subs, v \in Vars : Channel!Tell(s, v)) \/ UNCHANGED owed
<1>1. UNCHANGED <<subscriberList, issued>> /\ owed' \subseteq owed
  BY DEF Post, lists
<1>2. Var(t) \in Vars /\ Sub(t) \in Subs
  <2>1. /\ call[t].todo \in Seq(Vars) /\ call[t].todo # <<>>
        /\ call[t].snap \in Seq(Subs) /\ call[t].snap # <<>>
    BY DEF IInv, WellShaped, Post, Call
  <2> QED BY <2>1 DEF Var, Sub
<1>3. CASE owed' = owed \ {<<Sub(t), Var(t)>>}
  <2>1. Channel!Tell(Sub(t), Var(t))
    BY <1>1, <1>3 DEF Channel!Tell
  <2> QED BY <1>1, <1>2, <2>1
<1>4. CASE UNCHANGED owed
  BY <1>1, <1>4
<1> QED BY <1>3, <1>4 DEF Post

LEMMA Removing ==
  ASSUME IInv, ChannelInv, NEW t \in Threads, ExpireDrop(t) \/ Unsubscribe(t)
  PROVE  /\ ChannelInv'
         /\ (\E s \in Subs : Channel!Drop(s)) \/ UNCHANGED Channel!vars
<1>0. call[t] \in Call /\ WellShaped(call[t]) /\ issued \subseteq Subs
  BY DEF IInv, SharedOK
<1>1. CASE ExpireDrop(t)
  <2>1. Sub(t) \in Subs
    <3>1. call[t].snap \in Seq(Subs) /\ call[t].snap # <<>>
      BY <1>0, <1>1 DEF ExpireDrop, WellShaped, Call
    <3> QED BY <3>1 DEF Sub
  <2>2. [call[t] EXCEPT !.pc = "expire", !.snap = Tail(@)].disturbed = call[t].disturbed
    BY <1>0 DEF Call
  <2> QED BY <1>1, <2>1, <2>2, RemovalDrops DEF ExpireDrop
<1>2. CASE Unsubscribe(t)
  <2>1. call[t].sid \in Subs /\ ~IdleCall.disturbed
    BY <1>0, <1>2 DEF Unsubscribe, WellShaped, IdleCall
  <2> QED BY <1>2, <2>1, RemovalDrops DEF Unsubscribe
<1> QED BY <1>1, <1>2

-----------------------------------------------------------------------------

LEMMA ChannelStep ==
  ASSUME IInv, ChannelInv, [Next]_vars
  PROVE  ChannelInv' /\ [Channel!Next]_(Channel!vars)
<1>1. CASE UNCHANGED vars \/ Tick
  <2>1. UNCHANGED <<subscriberList, issued, owed, call>>
    BY <1>1 DEF vars, lists, Tick
  <2> QED BY <2>1 DEF ChannelInv, Listed, Gone, Channel!vars
<1>2. ASSUME NEW t \in Threads, Enter(t) \/ Continue(t)
      PROVE  ChannelInv' /\ [Channel!Next]_(Channel!vars)
  <2>0. owed \subseteq Listed \X Evented
    BY DEF ChannelInv
  <2>1. CASE ExpireDrop(t) \/ Unsubscribe(t)
    BY <2>1, Removing DEF Channel!Next
  <2>2. CASE ~ExpireDrop(t) /\ ~Unsubscribe(t)
    <3>1. CallsStayCalm
      BY <1>2, <2>2, CalmSteps
    <3>2. ASSUME NEW s \in Subs, NEW secs \in Timeouts, Subscribe(t, s, secs)
          PROVE  ChannelInv' /\ [Channel!Next]_(Channel!vars)
      BY <3>1, <3>2, Subscribing, CalmKeepsInv DEF Channel!Next
    <3>3. ASSUME UNCHANGED <<subscriberList, issued>>, owed' \subseteq Listed' \X Evented,
                 \/ \E v \in Vars : Channel!Publish(v) \/ Channel!Skip(v)
                 \/ \E s \in Subs, v \in Vars : Channel!Tell(s, v)
                 \/ UNCHANGED owed
          PROVE  ChannelInv' /\ [Channel!Next]_(Channel!vars)
      <4>1. ChannelInv'
        BY <3>1, <3>3, CalmKeepsInv
      <4>2. CASE UNCHANGED owed
        BY <3>3, <4>1, <4>2 DEF Channel!vars
      <4> QED BY <3>3, <4>1, <4>2 DEF Channel!Next
    <3>4. CASE Store(t)
      BY <3>3, <3>4, Storing
    <3>5. CASE NotifyCopy(t)
      <4>1. UNCHANGED <<subscriberList, issued>> /\ owed' \subseteq Listed' \X Evented
        BY <2>0, <3>5, Copying DEF Listed
      <4> QED BY <3>3, <3>5, <4>1, Copying
    <3>6. CASE \E outcome \in Outcomes : Post(t, outcome)
      <4>1. UNCHANGED <<subscriberList, issued>> /\ owed' \subseteq Listed' \X Evented
        BY <2>0, <3>6, Posting DEF Listed
      <4> QED BY <3>3, <3>6, <4>1, Posting
    <3>7. CASE UNCHANGED <<subscriberList, issued, owed>>
      BY <2>0, <3>3, <3>7 DEF Listed
    <3>8. \/ \E s \in Subs, secs \in Timeouts : Subscribe(t, s, secs)
          \/ Store(t) \/ NotifyCopy(t) \/ \E outcome \in Outcomes : Post(t, outcome)
          \/ UNCHANGED <<subscriberList, issued, owed>>
      BY <1>2, <2>2 DEF Enter, Continue, SetValue, Lookup, SkipVariable,
         BeginRound, ExpireCopy, ExpireTest, ExpireTime, ExpireSum, NotifyStart,
         ReadValue, ReadSeq, PostThrows, TestCount, ReadCount,
         incrementNotifyCount, EndRound, Find, NotFound,
         RenewTimeOut, RenewTime, RenewCount, lists
    <3> QED BY <3>2, <3>4, <3>5, <3>6, <3>7, <3>8
  <2> QED BY <2>1, <2>2
<1> QED BY <1>1, <1>2 DEF Next

LEMMA ChannelInit == Init => ChannelInv /\ Channel!Init
<1> SUFFICES ASSUME Init PROVE ChannelInv /\ Channel!Init
  OBVIOUS
<1>1. /\ subscriberList = <<>> /\ issued = {} /\ owed = {}
      /\ \A t \in Threads : ~call[t].disturbed
  BY DEF Init, IdleCall
<1>2. ToSet(subscriberList) = {}
  BY <1>1 DEF ToSet
<1> QED BY <1>1, <1>2 DEF ChannelInv, Channel!Init

(* Every behaviour of the service is one of the channel's, its liveness    *)
(* aside: who is told, who is owed and who may be skipped is as promised.  *)
THEOREM ServiceIsChannel == Spec => Channel!SafeSpec
<1>1. Spec => [](IInv /\ ChannelInv)
  <2>1. IInv /\ ChannelInv /\ [Next]_vars => ChannelInv'
    BY ChannelStep
  <2> QED BY <2>1, ChannelInit, InductiveInvariant, PTL DEF Spec
<1>2. IInv /\ ChannelInv /\ [Next]_vars => [Channel!Next]_(Channel!vars)
  BY ChannelStep
<1> QED BY <1>1, <1>2, ChannelInit, PTL DEF Spec, Channel!SafeSpec
=============================================================================
