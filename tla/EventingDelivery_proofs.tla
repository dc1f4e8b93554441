---------------------- MODULE EventingDelivery_proofs -----------------------
(***************************************************************************)
(* To whom events go, with which SEQ, and who is dropped.  For any number  *)
(* of threads, the SEQ of a subscription never runs ahead of the events it *)
(* received, and a round drops only who has lapsed or is being renewed;    *)
(* with a single thread, SEQs are consecutive and nobody is told whose     *)
(* lease had run out when the round began.                                 *)
(***************************************************************************)
EXTENDS Eventing_proofs, FiniteSetTheorems

-----------------------------------------------------------------------------
(***************************************************************************)
(* Any number of threads.  Every answered event that is not counted yet is *)
(* a credit: the thread that holds it will write 1 or at most one more     *)
(* than it reads of the count.  So neither 0, nor the count, nor what such *)
(* a thread has read of it, plus all the credits, ever exceeds the events  *)
(* received (until these, which are a history, saturate at MaxCount, from  *)
(* where on the count may wrap and overflow).                              *)
(***************************************************************************)

Counting == {"count", "wrap", "plus", "increment"}

Credits(s) == {t \in Threads : call[t].pc \in Counting /\ Sub(t) = s}

Covered(s, k) == k + Cardinality(Credits(s)) <= received[s].events

SeqInv ==
    /\ \A s \in Subs : \/ received[s].events = MaxCount
                       \/ Covered(s, 0) /\ Covered(s, notifyCount[s])
    /\ \A t \in Threads : call[t].pc = "increment" =>
          received[Sub(t)].events = MaxCount \/ Covered(Sub(t), call[t].seq)

LEMMA CreditsFinite ==
  ASSUME NEW s
  PROVE  IsFiniteSet(Credits(s)) /\ Cardinality(Credits(s)) \in Nat
BY ThreadsAssumption, FS_Subset, FS_CardinalityType DEF Credits

(* What IInv says of the variables in play, in the forms used below.       *)
LEMMA Shapes ==
  ASSUME IInv, NEW t \in Threads
  PROVE  /\ call \in [Threads -> Call] /\ call[t] \in Call
         /\ call[t].seq \in Int
         /\ call[t].pc \in Counting \cup {"post"} => Sub(t) \in Subs
         /\ \A s \in Subs : /\ notifyCount[s] \in Int /\ notifyCount[s] <= MaxCount
                            /\ received[s].events \in Nat
         /\ MaxCount \in Nat \ {0}
<1>1. call[t] \in Call /\ call[t].snap \in Seq(Subs)
  BY DEF IInv, Call
<1>2. call[t].pc \in Counting \cup {"post"} => call[t].snap # <<>>
  BY DEF IInv, WellShaped, Counting
<1>3. call[t].seq \in Int
  BY <1>1, LongFacts DEF Call
<1>4. ASSUME NEW s \in Subs
      PROVE  /\ notifyCount[s] \in Int /\ notifyCount[s] <= MaxCount
             /\ received[s].events \in Nat
  <2>1. notifyCount[s] \in Longs /\ received[s].events \in 0..MaxCount
    BY DEF IInv, SharedOK
  <2> QED BY <2>1, BoundsAssumption DEF Longs
<1> QED BY <1>1, <1>2, <1>3, <1>4, BoundsAssumption DEF IInv, Sub

-----------------------------------------------------------------------------
(* Steps that deliver and count nothing *)

(* No thread begins or ends to count, changes whom, or reads a count.      *)
SameCounting ==
    \A u \in Threads :
        /\ call'[u].pc \in Counting <=> call[u].pc \in Counting
        /\ call[u].pc \in Counting => call'[u].snap = call[u].snap
        /\ call'[u].pc = "increment" => /\ call[u].pc = "increment"
                                        /\ call'[u].seq = call[u].seq

(* Counts stay or start again from 0, and no event is received.            *)
SameCounts ==
    \A s \in Subs : /\ notifyCount'[s] \in {notifyCount[s], 0}
                    /\ received'[s].events = received[s].events

LEMMA QuietStep ==
  ASSUME IInv, SeqInv, SameCounting, SameCounts
  PROVE  SeqInv'
<1>1. ASSUME NEW s PROVE Credits(s)' = Credits(s)
  BY DEF SameCounting, Credits, Sub
<1>2. ASSUME NEW s \in Subs
      PROVE  \/ received'[s].events = MaxCount
             \/ Covered(s, 0)' /\ Covered(s, notifyCount[s])'
  <2>2. /\ notifyCount'[s] \in {notifyCount[s], 0}
        /\ received'[s].events = received[s].events
    BY DEF SameCounts
  <2>3. \/ received[s].events = MaxCount
        \/ Covered(s, 0) /\ Covered(s, notifyCount[s])
    BY DEF SeqInv
  <2> QED BY <1>1, <2>2, <2>3 DEF Covered
<1>3. ASSUME NEW t \in Threads, (call[t].pc = "increment")'
      PROVE  received'[Sub(t)'].events = MaxCount \/ Covered(Sub(t), call[t].seq)'
  <2>1. /\ call[t].pc = "increment" /\ call'[t].seq = call[t].seq
        /\ Sub(t)' = Sub(t)
    BY <1>3 DEF SameCounting, Counting, Sub
  <2>2. Sub(t) \in Subs
    BY <2>1, Shapes DEF Counting
  <2>3. received'[Sub(t)].events = received[Sub(t)].events
    BY <2>2 DEF SameCounts
  <2>4. received[Sub(t)].events = MaxCount \/ Covered(Sub(t), call[t].seq)
    BY <2>1 DEF SeqInv
  <2> QED BY <1>1, <2>1, <2>3, <2>4 DEF Covered
<1> QED BY <1>2, <1>3 DEF SeqInv

(* A thread that is not counting goes elsewhere.                           *)
LEMMA ElsewhereStep ==
  ASSUME IInv, NEW t \in Threads, NEW c,
         call[t].pc \notin Counting, c.pc \notin Counting,
         call' = [call EXCEPT ![t] = c]
  PROVE  SameCounting
BY DEF SameCounting, Counting, IInv

LEMMA RemovalCountsNothing ==
  ASSUME IInv, NEW t \in Threads, NEW s, NEW c,
         call[t].pc \notin Counting, c.pc \notin Counting,
         removeSubscriber(t, s, c)
  PROVE  SameCounting /\ SameCounts
<1>1. ASSUME NEW u \in Threads
      PROVE  LET d == [call[u] EXCEPT !.disturbed = TRUE]
             IN  d.pc = call[u].pc /\ d.snap = call[u].snap /\ d.seq = call[u].seq
  BY DEF IInv, Call
<1>2. SameCounting
  BY <1>1 DEF SameCounting, Counting, removeSubscriber
<1>3. SameCounts
  BY DEF SameCounts, removeSubscriber
<1> QED BY <1>2, <1>3

(* Requests and setters, and all of a round but the delivery.              *)
LEMMA OtherSteps ==
  ASSUME IInv, NEW t \in Threads,
         \/ Enter(t)
         \/ Store(t) \/ SkipVariable(t) \/ BeginRound(t) \/ ExpireCopy(t)
         \/ ExpireTest(t) \/ ExpireTime(t) \/ ExpireSum(t) \/ ExpireDrop(t)
         \/ NotifyStart(t) \/ NotifyCopy(t) \/ ReadValue(t) \/ ReadSeq(t)
         \/ PostThrows(t) \/ TestCount(t) \/ EndRound(t)
         \/ Find(t) \/ NotFound(t) \/ Unsubscribe(t)
         \/ RenewTimeOut(t) \/ RenewTime(t) \/ RenewCount(t)
  PROVE  SameCounting /\ SameCounts
<1>0. /\ call \in [Threads -> Call] /\ call[t] \in Call
      /\ call[t].pc = "find" => call[t].op \in {"renew", "unsubscribe"}
  BY Shapes DEF IInv, WellShaped
<1>1. ASSUME NEW todo PROVE Pending(todo).pc \in {"idle", "table"}
  BY DEF Pending, IdleCall
<1>2. IdleCall.pc = "idle"
  BY DEF IdleCall
<1>3. SameCounts
  <2>1. CASE \E s \in Subs, secs \in Timeouts : Subscribe(t, s, secs)
    BY <2>1 DEF Subscribe, SameCounts, IInv, SharedOK
  <2>2. CASE RenewCount(t)
    BY <2>2 DEF RenewCount, SameCounts, IInv, SharedOK
  <2>3. CASE UNCHANGED <<notifyCount, received>>
    BY <2>3 DEF SameCounts
  <2> QED BY <2>1, <2>2, <2>3
     DEF Enter, SetValue, Lookup, Store, SkipVariable, BeginRound, ExpireCopy,
         ExpireTest, ExpireTime, ExpireSum, ExpireDrop, NotifyStart, NotifyCopy,
         ReadValue, ReadSeq, PostThrows, TestCount, EndRound, Find, NotFound, Unsubscribe, RenewTimeOut, RenewTime,
         removeSubscriber
<1>4. CASE Enter(t)
  <2>1. CASE \E v \in Vars, x \in Values : SetValue(t, v, x)
    <3> PICK v \in Vars, x \in Values : SetValue(t, v, x)
      BY <2>1
    <3> DEFINE c == [IdleCall EXCEPT !.pc = "store", !.todo = <<v>>, !.val = x]
    <3>1. c.pc \notin Counting
      BY DEF IdleCall, Counting
    <3> QED BY <1>3, <3>1, ElsewhereStep DEF SetValue, Counting
  <2>2. CASE \E r \in Subs, secs \in Timeouts : Subscribe(t, r, secs)
    BY <1>1, <1>3, <2>2, ElsewhereStep DEF Subscribe, Counting
  <2>3. ASSUME NEW r, NEW op, NEW secs, Lookup(t, r, op, secs)
        PROVE  SameCounting /\ SameCounts
    <3> DEFINE c == [StartScan(IdleCall, "find") EXCEPT
                       !.op = op, !.sid = r, !.secs = secs]
    <3>1. c.pc \notin Counting
      BY DEF StartScan, IdleCall, Counting
    <3> QED BY <1>3, <2>3, <3>1, ElsewhereStep DEF Lookup, Counting
  <2> QED BY <1>4, <2>1, <2>2, <2>3 DEF Enter
<1>5. CASE ExpireDrop(t)
  <2>1. [call[t] EXCEPT !.pc = "expire", !.snap = Tail(@)].pc = "expire"
    BY <1>0 DEF Call
  <2> QED BY <1>5, <2>1, RemovalCountsNothing DEF ExpireDrop, Counting
<1>6. CASE Unsubscribe(t)
  BY <1>2, <1>6, RemovalCountsNothing DEF Unsubscribe, Counting
<1>7. CASE Store(t) \/ SkipVariable(t) \/ EndRound(t)
  <2>1. PICK c : call' = [call EXCEPT ![t] = c] /\ c.pc \notin Counting
    BY <1>1, <1>2, <1>7 DEF Store, SkipVariable, EndRound, Counting
  <2>2. call[t].pc \notin Counting
    BY <1>7 DEF Store, SkipVariable, EndRound, Counting
  <2> QED BY <1>3, <2>1, <2>2, ElsewhereStep
<1>8. CASE NotFound(t) \/ RenewCount(t) \/ PostThrows(t)
  BY <1>2, <1>3, <1>8, ElsewhereStep DEF NotFound, RenewCount, PostThrows, Counting
<1>8a. CASE TestCount(t)
  <2>1. call[t].pc = "count" /\ \A u \in Threads \ {t} : call'[u] = call[u]
    BY <1>0, <1>8a DEF TestCount
  <2>2. call'[t].pc \in {"wrap", "plus"} /\ call'[t].snap = call[t].snap
    BY <1>0, <1>8a DEF TestCount, Call
  <2> QED BY <1>3, <2>1, <2>2 DEF SameCounting, Counting
<1>9. CASE \/ BeginRound(t) \/ ExpireCopy(t) \/ ExpireTest(t) \/ ExpireTime(t)
           \/ ExpireSum(t) \/ NotifyStart(t) \/ NotifyCopy(t) \/ ReadValue(t) \/ ReadSeq(t)
           \/ Find(t) \/ RenewTimeOut(t) \/ RenewTime(t)
  <2>1. call[t].pc \notin Counting
    BY <1>9 DEF BeginRound, ExpireCopy, ExpireTest, ExpireTime, ExpireSum,
       NotifyStart, NotifyCopy, ReadValue, ReadSeq, Find, RenewTimeOut, RenewTime, Counting
  <2>2. call'[t].pc \notin Counting
    <3>1. CASE BeginRound(t) \/ NotifyStart(t)
      <4>1. ASSUME NEW pc, NEW x
            PROVE  /\ StartScan(call[t], pc).pc = pc
                   /\ [StartScan(call[t], pc) EXCEPT !.began = x].pc = pc
        BY <1>0 DEF StartScan, Call
      <4>2. CASE BeginRound(t)
        BY <1>0, <4>1, <4>2 DEF BeginRound, Counting
      <4>3. CASE NotifyStart(t)
        BY <1>0, <4>1, <4>3 DEF NotifyStart, Counting
      <4> QED BY <3>1, <4>2, <4>3
    <3>2. CASE ExpireCopy(t) \/ NotifyCopy(t)
      BY <1>0, <3>2, <2>1 DEF ExpireCopy, NotifyCopy, CopyNext, Call
    <3>3. CASE ExpireTest(t)
      BY <1>0, <3>3, <2>1 DEF ExpireTest, Counting, Call
    <3>4. CASE ExpireTime(t) \/ ExpireSum(t)
      BY <1>0, <3>4 DEF ExpireTime, ExpireSum, Counting, Call
    <3>5. CASE Find(t)
      <4>1. CASE call' = Found(t)
        <5>1. call'[t] = [IdleCall EXCEPT !.pc = call[t].op, !.sid = call[t].sid,
                                          !.secs = call[t].secs]
          BY <1>0, <4>1 DEF Found
        <5>2. call'[t].pc = call[t].op
          BY <5>1 DEF IdleCall
        <5>3. call[t].pc = "find"
          BY <3>5 DEF Find
        <5> QED BY <1>0, <5>2, <5>3 DEF Counting
      <4>2. CASE call' = [call EXCEPT ![t].idx = @ + 1]
        BY <1>0, <2>1, <4>2 DEF Call
      <4> QED BY <3>5, <4>1, <4>2 DEF Find
    <3>6. CASE ReadValue(t) \/ ReadSeq(t) \/ RenewTimeOut(t) \/ RenewTime(t)
      BY <1>0, <3>6 DEF ReadValue, ReadSeq, RenewTimeOut, RenewTime, Counting, Call
    <3> QED BY <1>9, <3>1, <3>2, <3>3, <3>4, <3>5, <3>6
  <2>3. \A u \in Threads \ {t} : call'[u] = call[u]
    BY <1>0, <1>9 DEF BeginRound, ExpireCopy, ExpireTest, ExpireTime, ExpireSum,
       NotifyStart, NotifyCopy, CopyNext, ReadValue, ReadSeq, Find, Found,
       RenewTimeOut, RenewTime
  <2> QED BY <1>3, <2>1, <2>2, <2>3 DEF SameCounting, Counting
<1> QED BY <1>4, <1>5, <1>6, <1>7, <1>8, <1>8a, <1>9

-----------------------------------------------------------------------------
(* Steps that deliver or count *)

(* An event that arrives is a credit if it was answered.                   *)
LEMMA PostStep ==
  ASSUME IInv, SeqInv, NEW t \in Threads, NEW outcome \in Outcomes,
         Post(t, outcome), NEW s, s = Sub(t)
  PROVE  SeqInv'
<1>1. /\ call[t] \in Call /\ call \in [Threads -> Call] /\ s \in Subs
      /\ call[t].pc = "post" /\ notifyCount' = notifyCount
      /\ \A u \in Threads \ {t} : call'[u] = call[u]
  BY Shapes DEF Post, AfterPost, ToCount, NextSubscriber
<1>2. /\ call'[t].pc \in {"count", "notify"}
      /\ call'[t].pc = "count" => call'[t].snap = call[t].snap
                                  /\ outcome = "answered"
  BY <1>1 DEF Post, AfterPost, ToCount, NextSubscriber, Call
<1>3. /\ \A r \in Subs \ {s} : received'[r] = received[r]
      /\ received'[s].events =
            IF outcome = "failed" \/ received[s].events = MaxCount
            THEN received[s].events ELSE received[s].events + 1
  BY <1>1 DEF Post, IInv, SharedOK
<1>4. \A r \in Subs \ {s} : Credits(r)' = Credits(r)
  BY <1>1, <1>2 DEF Credits, Sub, Counting
<1>5. /\ Credits(s)' = Credits(s) \/ (Credits(s)' = Credits(s) \cup {t}
                                      /\ outcome = "answered")
      /\ t \notin Credits(s)
  <2>1. t \notin Credits(s)
    BY <1>1 DEF Credits, Counting
  <2>2. CASE call'[t].pc = "count"
    BY <1>1, <1>2, <2>2 DEF Credits, Sub, Counting
  <2>3. CASE call'[t].pc = "notify"
    BY <1>1, <2>3 DEF Credits, Sub, Counting
  <2> QED BY <1>2, <2>1, <2>2, <2>3
<1>6. ASSUME NEW r \in Subs, NEW k \in Int,
             received[r].events = MaxCount \/ Covered(r, k)
      PROVE  received'[r].events = MaxCount \/ Covered(r, k)'
  <2>1. received[r].events \in Nat /\ Cardinality(Credits(r)) \in Nat /\ MaxCount \in Nat
    BY Shapes, CreditsFinite
  <2>2. CASE r # s
    BY <1>3, <1>4, <1>6, <2>2 DEF Covered
  <2>3. CASE r = s
    <3>1. \/ Cardinality(Credits(s)') = Cardinality(Credits(s))
          \/ /\ Cardinality(Credits(s)') = Cardinality(Credits(s)) + 1
             /\ outcome = "answered"
      BY <1>5, CreditsFinite, FS_AddElement
    <3> QED BY <1>3, <1>6, <2>1, <2>3, <3>1 DEF Covered
  <2> QED BY <2>2, <2>3
<1>7. ASSUME NEW r \in Subs
      PROVE  \/ received'[r].events = MaxCount
             \/ Covered(r, 0)' /\ Covered(r, notifyCount[r])'
  <2>1. notifyCount[r] \in Int /\ 0 \in Int /\ notifyCount'[r] = notifyCount[r]
    BY <1>1, Shapes
  <2>2. \/ received[r].events = MaxCount
        \/ Covered(r, 0) /\ Covered(r, notifyCount[r])
    BY DEF SeqInv
  <2>3. received'[r].events = MaxCount \/ Covered(r, 0)'
    BY <1>6, <2>1, <2>2
  <2>4. received'[r].events = MaxCount \/ Covered(r, notifyCount[r])'
    BY <1>6, <2>1, <2>2 DEF Covered
  <2> QED BY <2>3, <2>4
<1>8. ASSUME NEW u \in Threads, (call[u].pc = "increment")'
      PROVE  received'[Sub(u)'].events = MaxCount \/ Covered(Sub(u), call[u].seq)'
  <2>1. u # t /\ call'[u] = call[u] /\ call[u].pc = "increment"
    BY <1>1, <1>2, <1>8
  <2>2. Sub(u) \in Subs /\ call[u].seq \in Int /\ Sub(u)' = Sub(u)
    BY <2>1, Shapes DEF Counting, Sub
  <2> QED BY <1>6, <2>1, <2>2 DEF SeqInv, Covered
<1> QED BY <1>7, <1>8 DEF SeqInv

LEMMA CountStep ==
  ASSUME IInv, SeqInv, NEW t \in Threads, NEW s, s = Sub(t),
         ReadCount(t) \/ incrementNotifyCount(t)
  PROVE  SeqInv'
<1>0. /\ call[t] \in Call /\ call \in [Threads -> Call] /\ s \in Subs
      /\ call[t].pc \in Counting /\ received' = received
      /\ notifyCount[s] \in Int /\ notifyCount[s] <= MaxCount
      /\ MaxCount \in Nat \ {0}
  BY Shapes DEF ReadCount, incrementNotifyCount, Counting
<1>1. CASE ReadCount(t)
  <2>1. /\ notifyCount' = notifyCount /\ call[t].pc = "plus"
        /\ \A u \in Threads \ {t} : call'[u] = call[u]
        /\ call'[t].pc = "increment" /\ call'[t].snap = call[t].snap
        /\ call'[t].seq = notifyCount[s]
    BY <1>0, <1>1 DEF ReadCount, Call
  <2>2. ASSUME NEW r PROVE Credits(r)' = Credits(r)
    BY <1>0, <2>1 DEF Credits, Sub, Counting
  <2>3. ASSUME NEW r \in Subs
        PROVE  \/ received'[r].events = MaxCount
               \/ Covered(r, 0)' /\ Covered(r, notifyCount[r])'
    BY <1>0, <2>1, <2>2 DEF SeqInv, Covered
  <2>4. ASSUME NEW u \in Threads, (call[u].pc = "increment")'
        PROVE  received'[Sub(u)'].events = MaxCount \/ Covered(Sub(u), call[u].seq)'
    <3>1. CASE u = t
      <4>1. Sub(u)' = s /\ call'[u].seq = notifyCount[s]
        BY <2>1, <3>1 DEF Sub
      <4> QED BY <1>0, <2>1, <2>2, <4>1 DEF SeqInv, Covered
    <3>2. CASE u # t
      <4>1. /\ call'[u] = call[u] /\ call[u].pc = "increment" /\ Sub(u)' = Sub(u)
        BY <2>1, <2>4, <3>2 DEF Sub
      <4> QED BY <1>0, <2>2, <4>1 DEF SeqInv, Covered
    <3> QED BY <3>1, <3>2
  <2> QED BY <2>3, <2>4 DEF SeqInv
<1>2. CASE incrementNotifyCount(t)
  <2>0. PlusOne(call[t].seq) <= call[t].seq + 1 /\ PlusOne(call[t].seq) \in Int
    BY <1>0, Shapes DEF PlusOne
  <2>1. /\ \/ notifyCount'[s] = 1
           \/ call[t].pc = "increment" /\ notifyCount'[s] = PlusOne(call[t].seq)
        /\ \A r \in Subs \ {s} : notifyCount'[r] = notifyCount[r]
        /\ \A u \in Threads \ {t} : call'[u] = call[u]
        /\ call'[t].pc = "notify"
    BY <1>0, <1>2 DEF incrementNotifyCount, NextSubscriber, Call, IInv, SharedOK
  <2>2. ASSUME NEW r, r # s PROVE Credits(r)' = Credits(r)
    BY <1>0, <2>1, <2>2 DEF Credits, Sub, Counting
  <2>3. Credits(s)' = Credits(s) \ {t} /\ t \in Credits(s)
    BY <1>0, <2>1 DEF Credits, Sub, Counting
  <2>4. /\ Cardinality(Credits(s)') = Cardinality(Credits(s)) - 1
        /\ Cardinality(Credits(s)) \in Nat
    BY <2>3, CreditsFinite, FS_RemoveElement
  <2>5. /\ call[t].seq \in Int /\ received[s].events \in Nat
        /\ received[s].events = MaxCount \/ Covered(s, 0)
        /\ call[t].pc = "increment" =>
              received[s].events = MaxCount \/ Covered(s, call[t].seq)
    BY <1>0, Shapes DEF SeqInv
  <2>6. received[s].events = MaxCount \/ Covered(s, notifyCount[s])'
    <3>1. CASE notifyCount'[s] = 1
      BY <1>0, <2>4, <2>5, <3>1 DEF Covered
    <3>2. CASE call[t].pc = "increment" /\ notifyCount'[s] = PlusOne(call[t].seq)
      BY <1>0, <2>0, <2>4, <2>5, <3>2 DEF Covered
    <3> QED BY <2>1, <3>1, <3>2
  <2>6a. received[s].events = MaxCount \/ Covered(s, 0)'
    BY <1>0, <2>4, <2>5 DEF Covered
  <2>7. ASSUME NEW r \in Subs
        PROVE  \/ received'[r].events = MaxCount
               \/ Covered(r, 0)' /\ Covered(r, notifyCount[r])'
    <3>1. CASE r = s
      BY <1>0, <2>6, <2>6a, <3>1
    <3>2. CASE r # s
      BY <1>0, <2>1, <2>2, <3>2 DEF SeqInv, Covered
    <3> QED BY <3>1, <3>2
  <2>8. ASSUME NEW u \in Threads, (call[u].pc = "increment")', NEW r, r = Sub(u)
        PROVE  received'[Sub(u)'].events = MaxCount \/ Covered(Sub(u), call[u].seq)'
    <3>1. /\ call'[u] = call[u] /\ call[u].pc = "increment" /\ Sub(u)' = r
          /\ r \in Subs /\ call[u].seq \in Int /\ received[r].events \in Nat
      BY <2>1, <2>8, Shapes DEF Sub, Counting
    <3>2. received[r].events = MaxCount \/ Covered(r, call[u].seq)
      BY <2>8, <3>1 DEF SeqInv
    <3>3. CASE r = s
      BY <1>0, <2>4, <3>1, <3>2, <3>3 DEF Covered
    <3>4. CASE r # s
      BY <1>0, <2>2, <3>1, <3>2, <3>4 DEF Covered
    <3> QED BY <3>3, <3>4
  <2> QED BY <2>7, <2>8 DEF SeqInv
<1> QED BY <1>1, <1>2

-----------------------------------------------------------------------------

LEMMA InitSeqInv == Init => SeqInv
<1> SUFFICES ASSUME Init PROVE SeqInv
  OBVIOUS
<1>1. \A t \in Threads : call[t].pc = "idle"
  BY DEF Init, IdleCall
<1>2. \A s : Credits(s) = {}
  BY <1>1 DEF Credits, Counting
<1>3. ASSUME NEW s \in Subs
      PROVE  notifyCount[s] = 0 /\ received[s].events = 0
  BY DEF Init
<1>4. Cardinality({}) = 0
  BY FS_EmptySet
<1> QED BY <1>1, <1>2, <1>3, <1>4 DEF SeqInv, Covered

LEMMA NextSeqInv == IInv /\ SeqInv /\ [Next]_vars => SeqInv'
<1> SUFFICES ASSUME IInv, SeqInv, [Next]_vars PROVE SeqInv'
  OBVIOUS
<1>1. CASE UNCHANGED vars \/ Tick
  BY <1>1, QuietStep DEF vars, lists, Tick, SameCounting, SameCounts
<1>2. ASSUME NEW t \in Threads, Enter(t) \/ Continue(t)
      PROVE  SeqInv'
  <2>1. CASE \E outcome \in Outcomes : Post(t, outcome)
    BY <2>1, PostStep
  <2>2. CASE ReadCount(t) \/ incrementNotifyCount(t)
    BY <2>2, CountStep
  <2> QED BY <1>2, <2>1, <2>2, OtherSteps, QuietStep DEF Continue
<1> QED BY <1>1, <1>2 DEF Next

(* The SEQ of a subscription is at most the number of events it received.  *)
THEOREM SeqIsCovered == Spec => []SeqNeverOvertakes
<1>1. IInv /\ SeqInv => SeqNeverOvertakes
  <2> SUFFICES ASSUME IInv, SeqInv, NEW s \in Subs
               PROVE  notifyCount[s] <= received[s].events
    BY DEF SeqNeverOvertakes
  <2>1. /\ notifyCount[s] \in Longs /\ received[s].events \in 0..MaxCount
        /\ Cardinality(Credits(s)) \in Nat /\ MaxCount \in Nat
    BY CreditsFinite, BoundsAssumption DEF IInv, SharedOK
  <2>2. received[s].events = MaxCount \/ Covered(s, notifyCount[s])
    BY DEF SeqInv
  <2> QED BY <2>1, <2>2 DEF Covered, Longs
<1>2. Spec => []SeqInv
  BY InitSeqInv, NextSeqInv, InductiveInvariant, PTL DEF Spec
<1> QED BY <1>1, <1>2, InductiveInvariant, PTL

-----------------------------------------------------------------------------
(***************************************************************************)
(* With a single thread nothing overlaps: a round sees the counts and the  *)
(* list that its own steps left.                                           *)
(***************************************************************************)

(* What a sequence holds behind its head and after a copy.                 *)
LEMMA TailHolds ==
  ASSUME NEW S, NEW q \in Seq(S), q # <<>>
  PROVE  /\ Head(q) \in ToSet(q) /\ Tail(q) \in Seq(S)
         /\ ToSet(Tail(q)) \subseteq ToSet(q)
         /\ ToSet(q) \subseteq {Head(q)} \cup ToSet(Tail(q))
<1>1. /\ Len(q) \in Nat \ {0} /\ Head(q) = q[1] /\ Tail(q) \in Seq(S)
      /\ Len(Tail(q)) = Len(q) - 1
      /\ \A k \in 1..(Len(q) - 1) : Tail(q)[k] = q[k + 1]
  OBVIOUS
<1>2. Head(q) \in ToSet(q)
  BY <1>1 DEF ToSet
<1>3. ASSUME NEW x \in ToSet(Tail(q)) PROVE x \in ToSet(q)
  <2>1. PICK k \in 1..(Len(q) - 1) : Tail(q)[k] = x
    BY <1>1 DEF ToSet
  <2>2. k + 1 \in 1..Len(q) /\ q[k + 1] = x
    BY <1>1, <2>1
  <2> QED BY <2>2 DEF ToSet
<1>4. ASSUME NEW x \in ToSet(q), x # Head(q) PROVE x \in ToSet(Tail(q))
  <2>1. PICK k \in 1..Len(q) : q[k] = x
    BY DEF ToSet
  <2>2. k - 1 \in 1..(Len(q) - 1) /\ (k - 1) + 1 = k
    BY <1>1, <1>4, <2>1
  <2>3. PICK j \in 1..Len(Tail(q)) : Tail(q)[j] = x
    BY <1>1, <2>1, <2>2
  <2>4. DOMAIN Tail(q) = 1..Len(Tail(q))
    BY <1>1
  <2> QED BY <2>3, <2>4 DEF ToSet
<1> QED BY <1>1, <1>2, <1>3, <1>4

LEMMA CopiedHolds ==
  ASSUME IInv, NEW t \in Threads
  PROVE  /\ ToSet(call[t].snap) \subseteq ToSet(Copied(t))
         /\ ToSet(Copied(t)) \subseteq ToSet(call[t].snap) \cup Listed
         /\ call[t].idx <= Len(subscriberList) =>
               subscriberList[call[t].idx] \in ToSet(Copied(t))
<1> DEFINE q == call[t].snap
           k == call[t].idx
<1>1. q \in Seq(Subs) /\ k \in Nat \ {0} /\ subscriberList \in Seq(Subs)
  BY DEF IInv, SharedOK, Call
<1>2. CASE k <= Len(subscriberList)
  <2>1. k \in 1..Len(subscriberList)
    BY <1>1, <1>2
  <2>2. PICK x \in Subs : x = subscriberList[k] /\ x \in Listed
    BY <1>1, <2>1 DEF Listed, ToSet
  <2>3. Copied(t) = Append(q, x)
    BY <1>2, <2>2 DEF Copied
  <2>4. ToSet(Append(q, x)) = ToSet(q) \cup {x}
    <3>1. /\ Len(Append(q, x)) = Len(q) + 1 /\ Len(q) \in Nat
          /\ \A j \in 1..Len(q) : Append(q, x)[j] = q[j]
          /\ Append(q, x)[Len(q) + 1] = x
      BY <1>1
    <3> QED BY <3>1 DEF ToSet
  <2> QED BY <2>2, <2>3, <2>4
<1>3. CASE ~(k <= Len(subscriberList))
  BY <1>3 DEF Copied
<1> QED BY <1>2, <1>3

(* What a call without a copy, or outside a round, satisfies anyway.       *)
LEMMA RestingCalls ==
  /\ IdleCall.pc = "idle" /\ IdleCall.snap = <<>> /\ IdleCall.began = 0
  /\ \A todo : /\ Pending(todo).pc \in {"idle", "table"}
                /\ Pending(todo).snap = <<>> /\ Pending(todo).began = 0
  /\ ToSet(<<>>) = {}
<1>1. ToSet(<<>>) = {}
  BY DEF ToSet
<1> QED BY <1>1 DEF Pending, IdleCall

(* The steps of a call outside a round.                                    *)
Outside(t) ==
    \/ Enter(t) \/ Store(t) \/ SkipVariable(t) \/ EndRound(t)
    \/ Find(t) \/ NotFound(t) \/ Unsubscribe(t)
    \/ RenewTimeOut(t) \/ RenewTime(t) \/ RenewCount(t) \/ PostThrows(t)

Telling == {"notify", "seq", "post", "count", "wrap", "plus", "increment"}
Round == {"expire", "lapse", "sum", "drop"} \cup Telling

LEMMA OutsideStep ==
  ASSUME IInv, NEW t \in Threads, Outside(t)
  PROVE  /\ call'[t].pc \notin Round
         /\ call'[t].snap = <<>> \/ call'[t].snap = call[t].snap
         /\ call'[t].began = 0 \/ call'[t].began = call[t].began
<1>0. /\ call \in [Threads -> Call] /\ call[t] \in Call
      /\ call[t].pc = "find" => call[t].op \in {"renew", "unsubscribe"}
  BY DEF IInv, WellShaped
<1> USE DEF Round, Telling
<1>1. CASE Enter(t)
  <2>1. ASSUME NEW v, NEW x, SetValue(t, v, x)
        PROVE  call'[t].pc = "store" /\ call'[t].snap = <<>> /\ call'[t].began = 0
    BY <1>0, <2>1 DEF SetValue, IdleCall
  <2>2. ASSUME NEW s, NEW secs, Subscribe(t, s, secs)
        PROVE  /\ call'[t].pc \in {"idle", "table"}
               /\ call'[t].snap = <<>> /\ call'[t].began = 0
    BY <1>0, <2>2, RestingCalls DEF Subscribe
  <2>3. ASSUME NEW s, NEW op, NEW secs, Lookup(t, s, op, secs)
        PROVE  call'[t].pc = "find" /\ call'[t].snap = <<>> /\ call'[t].began = 0
    <3>1. call'[t] = [StartScan(IdleCall, "find") EXCEPT
                        !.op = op, !.sid = s, !.secs = secs]
      BY <1>0, <2>3 DEF Lookup
    <3> QED BY <3>1 DEF StartScan, IdleCall
  <2> QED BY <1>1, <2>1, <2>2, <2>3 DEF Enter
<1>2. CASE Store(t) \/ SkipVariable(t) \/ EndRound(t) \/ NotFound(t)
           \/ RenewCount(t) \/ Unsubscribe(t) \/ PostThrows(t)
  <2>1. call'[t] = IdleCall \/ \E todo : call'[t] = Pending(todo)
    BY <1>0, <1>2 DEF Store, SkipVariable, EndRound, NotFound, RenewCount,
       Unsubscribe, removeSubscriber, PostThrows
  <2> QED BY <2>1, RestingCalls
<1>3. CASE Find(t)
  <2>1. CASE IsHere(t)
    <3>1. call'[t] = [IdleCall EXCEPT !.pc = call[t].op, !.sid = call[t].sid,
                                      !.secs = call[t].secs]
      BY <1>0, <1>3, <2>1 DEF Find, Found
    <3>2. /\ call'[t].pc = call[t].op
          /\ call'[t].snap = <<>> /\ call'[t].began = 0
      BY <3>1 DEF IdleCall
    <3>3. call[t].pc = "find"
      BY <1>3 DEF Find
    <3> QED BY <1>0, <3>2, <3>3
  <2>2. CASE ~IsHere(t)
    BY <1>0, <1>3, <2>2 DEF Find, Call
  <2> QED BY <2>1, <2>2
<1>4. CASE RenewTimeOut(t) \/ RenewTime(t)
  BY <1>0, <1>4 DEF RenewTimeOut, RenewTime, Call
<1> QED BY <1>1, <1>2, <1>3, <1>4 DEF Outside

-----------------------------------------------------------------------------
(***************************************************************************)
(* Any number of threads.  Whom a round drops has lapsed, or was renewed   *)
(* since the round began: the round read an unlimited timeout, an old time *)
(* or an old timeout only if a renewal came after it.                      *)
(***************************************************************************)

Renewed(s, began) ==
    \/ subscriptionTime[s] >= began
    \/ \E u \in Threads : call[u].pc = "retime" /\ call[u].sid = s

Over(s) == timeOut[s] # INFINITE /\ subscriptionTime[s] + timeOut[s] < clock

LeaseGood(c) ==
    LET s == Head(c.snap)
    IN  /\ c.began <= clock
        /\ c.pc \in {"lapse", "sum"} =>
              /\ c.now <= clock
              /\ timeOut[s] # INFINITE \/ Renewed(s, c.began)
        /\ c.pc = "sum" => c.at = subscriptionTime[s] \/ Renewed(s, c.began)
        /\ c.pc = "drop" => Over(s) \/ Renewed(s, c.began)

LeaseInv == \A t \in Threads : LeaseGood(call[t])

LEMMA LeaseFacts ==
  ASSUME IInv, NEW t \in Threads
  PROVE  /\ call \in [Threads -> Call] /\ call[t] \in Call /\ WellShaped(call[t])
         /\ clock \in Nat /\ call[t].began \in Nat /\ call[t].now \in Nat
         /\ call[t].snap \in Seq(Subs)
         /\ subscriptionTime \in [Subs -> Nat]
         /\ \A s \in Subs : subscriptionTime[s] \in Nat /\ timeOut[s] \in Int
<1>1. call \in [Threads -> Call] /\ call[t] \in Call /\ WellShaped(call[t])
  BY DEF IInv
<1>2. /\ call[t].began \in Nat /\ call[t].now \in Nat
      /\ call[t].snap \in Seq(Subs)
  BY <1>1 DEF Call
<1>3. ASSUME NEW s \in Subs PROVE timeOut[s] \in Int
  <2>1. timeOut[s] \in Timeouts \cup {0} /\ Timeouts \subseteq Nat \cup {-1}
    BY TimeoutsAssumption DEF IInv, SharedOK, INFINITE
  <2>2. timeOut[s] \in Nat \/ timeOut[s] = -1 \/ timeOut[s] = 0
    BY <2>1, Zenon
  <2> QED BY <2>2
<1> QED BY <1>1, <1>2, <1>3 DEF IInv, SharedOK

(* A lease changes only through a renewal or a new subscription, and who   *)
(* is being renewed will have been.                                        *)
LEMMA LeaseChanges ==
  ASSUME IInv, [Next]_vars, NEW s \in Subs, NEW began \in Nat, began <= clock
  PROVE  /\ clock' \in Nat /\ clock <= clock'
         /\ Renewed(s, began) => Renewed(s, began)'
         /\ \/ Renewed(s, began)'
            \/ timeOut'[s] = timeOut[s] /\ subscriptionTime'[s] = subscriptionTime[s]
<1>0. /\ call \in [Threads -> Call] /\ clock \in Nat
      /\ subscriptionTime \in [Subs -> Nat] /\ timeOut \in [Subs -> Timeouts \cup {0}]
  BY DEF IInv, SharedOK
<1>1. CASE UNCHANGED vars \/ Tick
  <2>1. /\ UNCHANGED <<timeOut, subscriptionTime, call>>
        /\ clock' = clock \/ clock' = clock + 1
    BY <1>1 DEF vars, lists, Tick
  <2> QED BY <1>0, <2>1 DEF Renewed
<1>2. ASSUME NEW t \in Threads, Enter(t) \/ Continue(t)
      PROVE  /\ clock' \in Nat /\ clock <= clock'
             /\ Renewed(s, began) => Renewed(s, began)'
             /\ \/ Renewed(s, began)'
                \/ timeOut'[s] = timeOut[s] /\ subscriptionTime'[s] = subscriptionTime[s]
  <2>0. clock' = clock
    BY <1>2 DEF Enter, Continue, SetValue, Subscribe, Lookup, Store,
       SkipVariable, BeginRound, ExpireCopy, ExpireTest, ExpireTime, ExpireSum,
       ExpireDrop, NotifyStart, NotifyCopy, ReadValue, ReadSeq, Post, PostThrows,
       TestCount, ReadCount, incrementNotifyCount, EndRound, Find, NotFound,
       RenewTimeOut, RenewTime, RenewCount, Unsubscribe, removeSubscriber
  <2>1. clock' = clock /\ clock <= clock
    BY <1>0, <2>0
  <2>2. ASSUME NEW u \in Threads \ {t}, call[u].pc = "retime", call[u].sid = s
        PROVE  call'[u].pc = "retime" /\ call'[u].sid = s
    BY <1>2, <2>2, OthersStayPut DEF SameButDisturbed
  <2>3. CASE RenewTime(t)
    <3>1. subscriptionTime' = [subscriptionTime EXCEPT ![call[t].sid] = clock]
          /\ timeOut' = timeOut
      BY <2>3 DEF RenewTime
    <3>2. CASE call[t].sid = s
      <4>1. subscriptionTime'[s] = clock
        BY <1>0, <3>1, <3>2
      <4> QED BY <1>0, <2>1, <4>1 DEF Renewed
    <3>3. CASE call[t].sid # s
      <4>1. subscriptionTime'[s] = subscriptionTime[s] /\ timeOut'[s] = timeOut[s]
        BY <1>0, <3>1, <3>3
      <4> QED BY <1>0, <2>1, <2>2, <3>3, <4>1 DEF Renewed
    <3> QED BY <3>2, <3>3
  <2>4. CASE RenewTimeOut(t)
    <3>1. /\ call[t].pc = "renew" /\ call' = [call EXCEPT ![t].pc = "retime"]
          /\ timeOut' = [timeOut EXCEPT ![call[t].sid] = call[t].secs]
          /\ subscriptionTime' = subscriptionTime
      BY <2>4 DEF RenewTimeOut
    <3>2. call[t] \in Call
      BY <1>0
    <3>3. call'[t].pc = "retime" /\ call'[t].sid = call[t].sid
      BY <1>0, <3>1, <3>2 DEF Call
    <3>4. CASE call[t].sid = s
      <4>1. Renewed(s, began)'
        BY <3>3, <3>4 DEF Renewed
      <4> QED BY <1>0, <2>1, <4>1
    <3>5. CASE call[t].sid # s
      <4>1. timeOut'[s] = timeOut[s] /\ subscriptionTime'[s] = subscriptionTime[s]
        BY <1>0, <3>1, <3>5
      <4>2. Renewed(s, began) => Renewed(s, began)'
        BY <2>2, <3>1, <3>5 DEF Renewed
      <4> QED BY <1>0, <2>1, <4>1, <4>2
    <3> QED BY <3>4, <3>5
  <2>5. CASE \E r \in Subs, secs \in Timeouts : Subscribe(t, r, secs)
    <3>1. PICK r \in Subs, secs \in Timeouts : Subscribe(t, r, secs)
      BY <2>5
    <3>2. /\ timeOut' = [timeOut EXCEPT ![r] = secs] /\ call[t].pc = "idle"
          /\ subscriptionTime' = [subscriptionTime EXCEPT ![r] = clock]
      BY <3>1 DEF Subscribe
    <3>3. CASE r = s
      <4>1. subscriptionTime'[s] = clock
        BY <1>0, <3>2, <3>3
      <4> QED BY <1>0, <2>1, <4>1 DEF Renewed
    <3>4. CASE r # s
      <4>1. timeOut'[s] = timeOut[s] /\ subscriptionTime'[s] = subscriptionTime[s]
        BY <1>0, <3>2, <3>4
      <4> QED BY <1>0, <2>1, <2>2, <3>2, <4>1 DEF Renewed
    <3> QED BY <3>3, <3>4
  <2>6. CASE UNCHANGED <<timeOut, subscriptionTime>> /\ call[t].pc # "retime"
    BY <1>0, <2>1, <2>2, <2>6 DEF Renewed
  <2> QED BY <1>2, <2>3, <2>4, <2>5, <2>6
     DEF Enter, Continue, SetValue, Lookup, Store,
       SkipVariable, BeginRound, ExpireCopy, ExpireTest, ExpireTime, ExpireSum,
       ExpireDrop, NotifyStart, NotifyCopy, ReadValue, ReadSeq, Post, PostThrows,
       TestCount, ReadCount, incrementNotifyCount, EndRound, Find, NotFound,
       RenewCount, Unsubscribe, removeSubscriber, lists
<1> QED BY <1>1, <1>2 DEF Next

(* A call that does not move stays good.                                   *)
LEMMA LeaseStays ==
  ASSUME IInv, LeaseInv, [Next]_vars, NEW t \in Threads, SameButDisturbed(t)
  PROVE  LeaseGood(call[t])'
<1> DEFINE s == Head(call[t].snap)
<1>1. LeaseGood(call[t]) /\ call[t].began <= clock
  BY DEF LeaseInv, LeaseGood
<1>2. CASE call[t].pc \in {"lapse", "sum", "drop"}
  <2>1. s \in Subs
    BY <1>2, LeaseFacts DEF WellShaped
  <2>2. /\ clock' \in Nat /\ clock <= clock'
        /\ Renewed(s, call[t].began) => Renewed(s, call[t].began)'
        /\ \/ Renewed(s, call[t].began)'
           \/ timeOut'[s] = timeOut[s] /\ subscriptionTime'[s] = subscriptionTime[s]
    <3>1. \A began \in Nat : Renewed(s, began)' <=>
            \/ subscriptionTime'[s] >= began
            \/ \E u \in Threads : call'[u].pc = "retime" /\ call'[u].sid = s'
      BY DEF Renewed, SameButDisturbed
    <3>2. s' = s /\ call'[t].began = call[t].began
      BY DEF SameButDisturbed
    <3> HIDE DEF s
    <3>3. PICK b \in Nat, r \in Subs : b = call[t].began /\ r = s
      BY <2>1, LeaseFacts
    <3>4. /\ clock' \in Nat /\ clock <= clock'
          /\ Renewed(r, b) => Renewed(r, b)'
          /\ \/ Renewed(r, b)'
             \/ timeOut'[r] = timeOut[r] /\ subscriptionTime'[r] = subscriptionTime[r]
      BY <1>1, <3>3, LeaseChanges
    <3> QED BY <3>2, <3>3, <3>4 DEF Renewed
  <2>3. Over(s) /\ ~Renewed(s, call[t].began)' => Over(s)'
    <3>1. s' = s
      BY DEF SameButDisturbed
    <3>2. clock \in Nat /\ subscriptionTime[s] \in Nat /\ timeOut[s] \in Int
      BY <2>1, LeaseFacts
    <3> QED BY <2>2, <3>1, <3>2 DEF Over
  <2>4. call[t].now \in Nat /\ call[t].began \in Nat /\ clock \in Nat
    BY LeaseFacts
  <2>5. /\ call'[t].began = call[t].began /\ call'[t].pc = call[t].pc
        /\ call'[t].now = call[t].now /\ call'[t].at = call[t].at /\ s' = s
    BY DEF SameButDisturbed
  <2>6. /\ call[t].began <= clock'
        /\ call[t].now <= clock => call[t].now <= clock'
    BY <1>1, <2>2, <2>4
  <2> QED BY <1>1, <2>2, <2>3, <2>5, <2>6 DEF LeaseGood
<1>3. CASE call[t].pc \notin {"lapse", "sum", "drop"}
  <2>1. call[t].began \in Nat /\ clock \in Nat /\ clock' \in Nat /\ clock <= clock'
    <3>1. clock \in Nat /\ call[t].began \in Nat
      BY LeaseFacts
    <3>2. clock' = clock \/ clock' = clock + 1
      BY DEF Next, vars, Tick, Enter, Continue, SetValue, Subscribe, Lookup, Store,
       SkipVariable, BeginRound, ExpireCopy, ExpireTest, ExpireTime, ExpireSum,
       ExpireDrop, NotifyStart, NotifyCopy, ReadValue, ReadSeq, Post, PostThrows,
       TestCount, ReadCount, incrementNotifyCount, EndRound, Find, NotFound,
       RenewTimeOut, RenewTime, RenewCount, Unsubscribe, removeSubscriber
    <3> QED BY <3>1, <3>2
  <2>2. call'[t].began <= clock' /\ call'[t].pc \notin {"lapse", "sum", "drop"}
    BY <1>1, <1>3, <2>1 DEF SameButDisturbed
  <2> QED BY <2>2 DEF LeaseGood
<1> QED BY <1>2, <1>3

(* What a call finds out about a lease.                                    *)
LEMMA LeaseRead ==
  ASSUME IInv, LeaseInv, NEW t \in Threads,
         ExpireTest(t) \/ ExpireTime(t) \/ ExpireSum(t)
  PROVE  LeaseGood(call[t])'
<1> DEFINE s == Head(call[t].snap)
<1>1. /\ call[t].snap # <<>> /\ s \in Subs /\ s = Sub(t) /\ LeaseGood(call[t])
      /\ UNCHANGED <<timeOut, subscriptionTime, clock>>
      /\ call[t].began <= clock
  BY LeaseFacts DEF WellShaped, LeaseInv, LeaseGood, ExpireTest, ExpireTime,
     ExpireSum, lists, Sub
<1>2. \A r, b : Renewed(r, b) => Renewed(r, b)'
  <2>1. ASSUME NEW u \in Threads, call[u].pc = "retime"
        PROVE  call'[u] = call[u]
    BY <2>1, LeaseFacts DEF ExpireTest, ExpireTime, ExpireSum
  <2> QED BY <1>1, <2>1 DEF Renewed
<1>3. CASE ExpireTest(t)
  <2>1. \/ /\ call'[t].pc = "lapse" /\ call'[t].snap = call[t].snap
           /\ call'[t].now = clock /\ call'[t].began = call[t].began
           /\ timeOut[s] # INFINITE
        \/ call'[t].pc = "expire" /\ call'[t].began = call[t].began
    BY <1>1, <1>3, LeaseFacts DEF ExpireTest, IsFinite, Call
  <2>2. clock <= clock
    BY LeaseFacts
  <2> QED BY <1>1, <2>1, <2>2 DEF LeaseGood
<1>4. CASE ExpireTime(t)
  <2>1. /\ call'[t].pc = "sum" /\ call'[t].snap = call[t].snap
        /\ call'[t].at = subscriptionTime[s] /\ call[t].pc = "lapse"
        /\ call'[t].now = call[t].now /\ call'[t].began = call[t].began
    BY <1>1, <1>4, LeaseFacts DEF ExpireTime, Call
  <2> QED BY <1>1, <1>2, <2>1 DEF LeaseGood
<1>5. CASE ExpireSum(t)
  <2>1. /\ call[t].pc = "sum"
        /\ \/ /\ call'[t].pc = "drop" /\ call'[t].snap = call[t].snap
              /\ call'[t].began = call[t].began
              /\ call[t].at + timeOut[s] < call[t].now
           \/ call'[t].pc = "expire" /\ call'[t].began = call[t].began
    BY <1>1, <1>5, LeaseFacts DEF ExpireSum, Lapsed, Call
  <2>2. /\ subscriptionTime[s] \in Nat /\ timeOut[s] \in Int
        /\ call[t].now \in Nat /\ clock \in Nat
    BY <1>1, LeaseFacts
  <2>3. /\ call[t].now <= clock
        /\ timeOut[s] # INFINITE \/ Renewed(s, call[t].began)
        /\ call[t].at = subscriptionTime[s] \/ Renewed(s, call[t].began)
    BY <1>1, <2>1 DEF LeaseGood
  <2>4. CASE call'[t].pc = "drop"
    <3>1. Over(s) \/ Renewed(s, call[t].began)
      BY <2>1, <2>2, <2>3, <2>4 DEF Over
    <3>2. Over(s)' = Over(s) /\ s' = s
      BY <1>1, <2>1, <2>4 DEF Over
    <3>3. Over(s)' \/ Renewed(s, call[t].began)'
      BY <1>2, <2>1, <2>4, <3>1, <3>2 DEF Renewed
    <3> QED BY <1>1, <2>1, <2>4, <3>3 DEF LeaseGood
  <2>5. CASE call'[t].pc # "drop"
    BY <1>1, <2>1, <2>5 DEF LeaseGood
  <2> QED BY <2>4, <2>5
<1> QED BY <1>3, <1>4, <1>5

LEMMA LeaseStep ==
  ASSUME IInv, LeaseInv, NEW t \in Threads, Enter(t) \/ Continue(t)
  PROVE  LeaseGood(call[t])'
<1>0. /\ call \in [Threads -> Call] /\ call[t] \in Call
      /\ clock \in Nat /\ call[t].began \in Nat /\ call[t].began <= clock
  BY LeaseFacts DEF LeaseInv, LeaseGood
<1>1. ASSUME call'[t].pc \notin {"lapse", "sum", "drop"}, clock' = clock,
             call'[t].began \in {0, call[t].began, clock}
      PROVE  LeaseGood(call[t])'
  BY <1>0, <1>1 DEF LeaseGood
<1>2. CASE Outside(t)
  <2>1. clock' = clock
    BY <1>2 DEF Outside, Enter, SetValue, Subscribe, Lookup, Store, SkipVariable,
       EndRound, Find, NotFound, Unsubscribe, removeSubscriber, RenewTimeOut,
       RenewTime, RenewCount, PostThrows
  <2> QED BY <1>1, <1>2, <2>1, OutsideStep DEF Round
<1>3. CASE BeginRound(t) \/ NotifyStart(t)
  <2>1. CASE BeginRound(t)
    <3>1. call'[t] = [StartScan(call[t], "expire") EXCEPT !.began = clock]
          /\ clock' = clock
      BY <1>0, <2>1 DEF BeginRound
    <3>2. call'[t].pc = "expire" /\ call'[t].began = clock
      BY <1>0, <3>1 DEF StartScan, Call
    <3> QED BY <1>1, <3>1, <3>2
  <2>2. CASE NotifyStart(t)
    <3>1. call'[t] = StartScan(call[t], "notify") /\ clock' = clock
      BY <1>0, <2>2 DEF NotifyStart
    <3>2. call'[t].pc = "notify" /\ call'[t].began = call[t].began
      BY <1>0, <3>1 DEF StartScan, Call
    <3> QED BY <1>1, <3>1, <3>2
  <2> QED BY <1>3, <2>1, <2>2
<1>4. CASE ExpireCopy(t) \/ NotifyCopy(t) \/ ExpireDrop(t)
  <2>1. CASE ExpireCopy(t) \/ NotifyCopy(t)
    <3>1. /\ call'[t].pc = call[t].pc /\ call[t].pc \in {"expire", "notify"}
          /\ call'[t].began = call[t].began /\ clock' = clock
      BY <1>0, <2>1 DEF ExpireCopy, NotifyCopy, CopyNext, Call
    <3> QED BY <1>1, <3>1
  <2>2. CASE ExpireDrop(t)
    <3>1. /\ call'[t].pc = "expire" /\ call'[t].began = call[t].began
          /\ clock' = clock
      BY <1>0, <2>2 DEF ExpireDrop, removeSubscriber, Call
    <3> QED BY <1>1, <3>1
  <2> QED BY <1>4, <2>1, <2>2
<1>5. CASE ReadValue(t) \/ ReadSeq(t) \/ TestCount(t) \/ ReadCount(t)
  <2>1. /\ call'[t].pc \in Telling /\ call'[t].began = call[t].began
        /\ clock' = clock
    BY <1>0, <1>5 DEF ReadValue, ReadSeq, TestCount, ReadCount, Call, Telling
  <2> QED BY <1>1, <2>1 DEF Telling
<1>6. CASE (\E outcome \in Outcomes : Post(t, outcome)) \/ incrementNotifyCount(t)
  <2>1. clock' = clock /\ (call' = ToCount(t) \/ call' = NextSubscriber(t))
    BY <1>6 DEF Post, AfterPost, incrementNotifyCount
  <2>2. call'[t].pc \in {"count", "notify"} /\ call'[t].began = call[t].began
    <3>1. CASE call' = ToCount(t)
      BY <1>0, <3>1 DEF ToCount, Call
    <3>2. CASE call' = NextSubscriber(t)
      BY <1>0, <3>2 DEF NextSubscriber, Call
    <3> QED BY <2>1, <3>1, <3>2
  <2> QED BY <1>1, <2>1, <2>2
<1> QED BY <1>2, <1>3, <1>4, <1>5, <1>6, LeaseRead DEF Continue, Outside

(* A round drops from the list only who has lapsed, unless a renewal came  *)
(* after the round began.                                                  *)
THEOREM OnlyLapsedAreDropped == Spec => []DroppedOnlyIfLapsed
<1>1. Init => LeaseInv
  <2> SUFFICES ASSUME Init, NEW t \in Threads PROVE LeaseGood(call[t])
    BY DEF LeaseInv
  <2>1. call[t] = IdleCall /\ clock = 0 /\ 0 <= 0
    BY DEF Init
  <2> QED BY <2>1, RestingCalls DEF LeaseGood
<1>2. IInv /\ LeaseInv /\ [Next]_vars => LeaseInv'
  <2> SUFFICES ASSUME IInv, LeaseInv, [Next]_vars, NEW t \in Threads
               PROVE  LeaseGood(call[t])'
    BY DEF LeaseInv
  <2>1. CASE UNCHANGED vars \/ Tick
    <3>1. SameButDisturbed(t)
      BY <2>1 DEF vars, Tick, SameButDisturbed
    <3> QED BY <3>1, LeaseStays
  <2>2. ASSUME NEW u \in Threads, Enter(u) \/ Continue(u)
        PROVE  LeaseGood(call[t])'
    BY <2>2, OthersStayPut, LeaseStays, LeaseStep
  <2> QED BY <2>1, <2>2 DEF Next
<1>3. IInv /\ LeaseInv => DroppedOnlyIfLapsed
  <2> SUFFICES ASSUME IInv, LeaseInv, NEW t \in Threads, call[t].pc = "drop"
               PROVE  Over(Sub(t)) \/ Renewed(Sub(t), call[t].began)
    BY DEF DroppedOnlyIfLapsed, Over, Renewed
  <2> QED BY DEF LeaseInv, LeaseGood, Sub
<1> QED BY <1>1, <1>2, <1>3, InductiveInvariant, PTL DEF Spec

-----------------------------------------------------------------------------
(* The count of a subscription is the SEQ it received last, or the next    *)
(* one; what the thread has read of it is still so when it is used.        *)

Settled(s) ==
    /\ notifyCount[s] \in Nat
    /\ IF received[s].seq = -1 THEN notifyCount[s] = 0
       ELSE notifyCount[s] \in {received[s].seq, NextCount(received[s].seq)}

CountGood(c) ==
    LET s == Head(c.snap)
    IN  /\ ToSet(c.snap) \subseteq issued
        /\ c.pc = "post" => c.seq = notifyCount[s]
        /\ c.pc \in {"count", "wrap", "plus"} => received[s].seq = notifyCount[s]
        /\ c.pc = "wrap" => notifyCount[s] = MaxCount
        /\ c.pc = "plus" => notifyCount[s] # MaxCount
        /\ c.pc = "increment" => /\ received[s].seq = c.seq
                                 /\ c.seq \in Nat /\ c.seq # MaxCount

CountInv ==
    /\ \A s \in Subs : Settled(s) /\ (s \notin issued => received[s].seq = -1)
    /\ \A t \in Threads : CountGood(call[t])

(* A step that counts and delivers nothing.                                *)
LEMMA UncountedStep ==
  ASSUME CountInv, NEW t, Threads = {t}, UNCHANGED <<notifyCount, received, issued>>,
         ToSet(call'[t].snap) \subseteq issued,
         call'[t].pc \notin {"post", "count", "wrap", "plus", "increment"}
  PROVE  CountInv'
BY DEF CountInv, CountGood, Settled

LEMMA CopyingIssuesNothing ==
  ASSUME IInv, CountInv, NEW t, Threads = {t},
         \/ BeginRound(t) \/ ExpireCopy(t) \/ ExpireTest(t) \/ ExpireTime(t)
         \/ ExpireSum(t) \/ ExpireDrop(t) \/ NotifyStart(t) \/ NotifyCopy(t)
         \/ ReadValue(t)
  PROVE  CountInv'
<1>0. /\ t \in Threads /\ call \in [Threads -> Call] /\ call[t] \in Call
      /\ ToSet(call[t].snap) \subseteq issued
  BY DEF IInv, CountInv, CountGood
<1>1. ASSUME call[t].snap # <<>>
      PROVE  ToSet(Tail(call[t].snap)) \subseteq issued
  BY <1>0, <1>1, TailHolds DEF Call
<1>2. CASE BeginRound(t) \/ NotifyStart(t)
  <2>1. ASSUME NEW pc, NEW x
        PROVE  /\ StartScan(call[t], pc).pc = pc
               /\ StartScan(call[t], pc).snap = <<>>
               /\ [StartScan(call[t], pc) EXCEPT !.began = x].pc = pc
               /\ [StartScan(call[t], pc) EXCEPT !.began = x].snap = <<>>
    BY <1>0 DEF StartScan, Call
  <2>2. CASE BeginRound(t)
    <3>1. call'[t].pc = "expire" /\ call'[t].snap = <<>>
      BY <1>0, <2>1, <2>2 DEF BeginRound
    <3>2. UNCHANGED <<notifyCount, received, issued>>
      BY <2>2 DEF BeginRound, lists
    <3> QED BY <3>1, <3>2, RestingCalls, UncountedStep
  <2>3. CASE NotifyStart(t)
    <3>1. call'[t].pc = "notify" /\ call'[t].snap = <<>>
      BY <1>0, <2>1, <2>3 DEF NotifyStart
    <3>2. UNCHANGED <<notifyCount, received, issued>>
      BY <2>3 DEF NotifyStart, lists
    <3> QED BY <3>1, <3>2, RestingCalls, UncountedStep
  <2> QED BY <1>2, <2>2, <2>3
<1>3. CASE ExpireCopy(t) \/ NotifyCopy(t)
  <2>1. call'[t].pc \in {"expire", "notify"} /\ call'[t].snap = Copied(t)
    BY <1>0, <1>3 DEF ExpireCopy, NotifyCopy, CopyNext, Call
  <2>2. ToSet(Copied(t)) \subseteq issued
    BY <1>0, CopiedHolds, ListFacts
  <2>3. UNCHANGED <<notifyCount, received, issued>>
    BY <1>3 DEF ExpireCopy, NotifyCopy, lists
  <2> QED BY <2>1, <2>2, <2>3, UncountedStep
<1>4. CASE ExpireTest(t)
  <2>1. /\ call[t].snap # <<>> /\ call'[t].pc \in {"expire", "lapse"}
        /\ call'[t].snap \in {call[t].snap, Tail(call[t].snap)}
    BY <1>0, <1>4 DEF ExpireTest, Call
  <2>2. UNCHANGED <<notifyCount, received, issued>>
    BY <1>4 DEF ExpireTest, lists
  <2> QED BY <1>0, <1>1, <2>1, <2>2, UncountedStep
<1>4a. CASE ExpireTime(t)
  <2>1. call'[t].pc = "sum" /\ call'[t].snap = call[t].snap
    BY <1>0, <1>4a DEF ExpireTime, Call
  <2>2. UNCHANGED <<notifyCount, received, issued>>
    BY <1>4a DEF ExpireTime, lists
  <2> QED BY <1>0, <2>1, <2>2, UncountedStep
<1>5. CASE ExpireSum(t)
  <2>1. /\ call'[t].pc \in {"expire", "drop"}
        /\ call'[t].snap \in {call[t].snap, Tail(call[t].snap)}
    BY <1>0, <1>5 DEF ExpireSum, Call
  <2>2. UNCHANGED <<notifyCount, received, issued>> /\ call[t].snap # <<>>
    BY <1>0, <1>5 DEF ExpireSum, lists, IInv, WellShaped
  <2> QED BY <1>0, <1>1, <2>1, <2>2, UncountedStep
<1>6. CASE ExpireDrop(t)
  <2>1. call'[t].pc = "expire" /\ call'[t].snap = Tail(call[t].snap)
    BY <1>0, <1>6 DEF ExpireDrop, removeSubscriber, Call
  <2>2. UNCHANGED <<notifyCount, received, issued>> /\ call[t].snap # <<>>
    BY <1>0, <1>6 DEF ExpireDrop, removeSubscriber, IInv, WellShaped
  <2> QED BY <1>1, <2>1, <2>2, UncountedStep
<1>7. CASE ReadValue(t)
  <2>1. call'[t].pc = "seq" /\ call'[t].snap = call[t].snap
    BY <1>0, <1>7 DEF ReadValue, Call
  <2>2. UNCHANGED <<notifyCount, received, issued>>
    BY <1>7 DEF ReadValue, lists
  <2> QED BY <1>0, <2>1, <2>2, UncountedStep
<1> QED BY <1>2, <1>3, <1>4, <1>4a, <1>5, <1>6, <1>7

LEMMA OutsideCounts ==
  ASSUME IInv, CountInv, NEW t, Threads = {t}, Outside(t)
  PROVE  CountInv'
<1>0. /\ t \in Threads /\ call[t] \in Call /\ issued \subseteq Subs
      /\ ToSet(call[t].snap) \subseteq issued
      /\ notifyCount \in [Subs -> Longs]
      /\ received \in [Subs -> [events: 0..MaxCount, seq: Longs]]
  BY DEF IInv, SharedOK, CountInv, CountGood
<1>1. /\ call'[t].pc \notin {"post", "count", "wrap", "plus", "increment"}
      /\ ToSet(call'[t].snap) \subseteq issued
  BY <1>0, OutsideStep, RestingCalls DEF Round, Telling
<1>2. CASE \E s \in Subs, secs \in Timeouts : Subscribe(t, s, secs)
  <2> PICK s \in Subs, secs \in Timeouts : Subscribe(t, s, secs)
    BY <1>2
  <2>1. /\ s \notin issued /\ issued' = issued \cup {s} /\ received' = received
        /\ notifyCount'[s] = 0
        /\ \A r \in Subs \ {s} : notifyCount'[r] = notifyCount[r]
    BY <1>0 DEF Subscribe, createSID
  <2>2. ASSUME NEW r \in Subs
        PROVE  Settled(r)' /\ (r \notin issued' => received'[r].seq = -1)
    BY <2>1 DEF CountInv, Settled
  <2>3. CountGood(call[t])'
    BY <1>1, <2>1 DEF CountGood
  <2> QED BY <2>2, <2>3 DEF CountInv
<1>3. CASE RenewCount(t)
  <2>1. call[t].sid \in Subs
    BY <1>0, <1>3 DEF RenewCount, IInv, WellShaped
  <2> DEFINE s == call[t].sid
  <2>2. /\ notifyCount'[s] = 0 /\ received'[s].seq = -1 /\ issued' = issued
        /\ \A r \in Subs \ {s} : /\ notifyCount'[r] = notifyCount[r]
                                 /\ received'[r] = received[r]
    BY <1>0, <1>3, <2>1 DEF RenewCount, lists
  <2>3. ASSUME NEW r \in Subs
        PROVE  Settled(r)' /\ (r \notin issued' => received'[r].seq = -1)
    BY <2>2 DEF CountInv, Settled
  <2>4. CountGood(call[t])'
    BY <1>1, <2>2 DEF CountGood
  <2> QED BY <2>3, <2>4 DEF CountInv
<1>4. CASE UNCHANGED <<notifyCount, received, issued>>
  BY <1>1, <1>4, UncountedStep
<1> QED BY <1>2, <1>3, <1>4
   DEF Outside, Enter, SetValue, Lookup, Store, SkipVariable, EndRound, Find,
       NotFound, Unsubscribe, removeSubscriber, RenewTimeOut, RenewTime,
       PostThrows, lists

(* The event carries the count, which is what it was when it was read.     *)
LEMMA Delivered ==
  ASSUME IInv, CountInv, NEW t, Threads = {t}, NEW s, s = Sub(t),
         NEW outcome \in Outcomes, Post(t, outcome)
  PROVE  /\ s \in Subs /\ s \in issued /\ Settled(s) /\ call[t].seq = notifyCount[s]
         /\ notifyCount' = notifyCount /\ issued' = issued
         /\ \A r \in Subs \ {s} : received'[r] = received[r]
         /\ received'[s].seq \in {received[s].seq, notifyCount[s]}
         /\ outcome = "answered" => received'[s].seq = notifyCount[s]
         /\ notifyCount[s] \in Nat
<1>0. /\ t \in Threads /\ call[t] \in Call /\ issued \subseteq Subs
      /\ notifyCount \in [Subs -> Longs]
      /\ received \in [Subs -> [events: 0..MaxCount, seq: Longs]]
      /\ call[t].snap # <<>> /\ call[t].pc = "post" /\ CountGood(call[t])
  BY DEF IInv, SharedOK, CountInv, WellShaped, Post
<1>1. s \in issued /\ s \in Subs
  BY <1>0, TailHolds DEF Sub, Call, CountGood
<1>2. Settled(s) /\ call[t].seq = notifyCount[s]
  BY <1>0, <1>1 DEF CountInv, CountGood, Sub
<1>2a. notifyCount[s] \in Nat
  BY <1>2 DEF Settled
<1>3. /\ \A r \in Subs \ {s} : received'[r] = received[r]
      /\ received'[s].seq = IF outcome = "failed" THEN received[s].seq
                            ELSE call[t].seq
  <2>1. CASE outcome = "failed"
    BY <2>1 DEF Post
  <2>2. CASE outcome # "failed"
    BY <1>0, <1>1, <2>2 DEF Post
  <2> QED BY <2>1, <2>2
<1> QED BY <1>0, <1>1, <1>2, <1>2a, <1>3 DEF Post, lists

LEMMA DeliveryCounts ==
  ASSUME IInv, CountInv, NEW t, Threads = {t},
         \/ ReadSeq(t) \/ \E outcome \in Outcomes : Post(t, outcome)
         \/ TestCount(t) \/ ReadCount(t) \/ incrementNotifyCount(t)
  PROVE  CountInv'
<1> DEFINE s == Sub(t)
<1>0. /\ t \in Threads /\ call \in [Threads -> Call] /\ call[t] \in Call
      /\ call[t].snap \in Seq(Subs) /\ call[t].snap # <<>>
      /\ notifyCount \in [Subs -> Longs]
      /\ received \in [Subs -> [events: 0..MaxCount, seq: Longs]]
      /\ CountGood(call[t]) /\ s = Head(call[t].snap)
  BY DEF IInv, SharedOK, CountInv, WellShaped, ReadSeq, Post, TestCount,
         ReadCount, incrementNotifyCount, Call, Sub
<1>1. s \in Subs /\ ToSet(Tail(call[t].snap)) \subseteq issued
  BY <1>0, TailHolds DEF CountGood
<1> HIDE DEF s
<1>2. CASE ReadSeq(t) \/ ReadCount(t)
  <2>1. /\ UNCHANGED <<notifyCount, received, issued>>
        /\ call'[t].snap = call[t].snap /\ call'[t].seq = notifyCount[s]
        /\ \/ call'[t].pc = "post"
           \/ call'[t].pc = "increment" /\ call[t].pc = "plus"
    BY <1>0, <1>2 DEF ReadSeq, ReadCount, Call, lists, Sub
  <2>1a. notifyCount[s] \in Nat
    BY <1>1 DEF CountInv, Settled
  <2>2. CountGood(call[t])'
    BY <1>0, <2>1, <2>1a DEF CountGood
  <2> QED BY <2>1, <2>2 DEF CountInv, Settled
<1>2a. CASE TestCount(t)
  <2>1. /\ UNCHANGED <<notifyCount, received, issued>> /\ call[t].pc = "count"
        /\ call'[t].snap = call[t].snap
        /\ call'[t].pc = IF notifyCount[s] = MaxCount THEN "wrap" ELSE "plus"
    BY <1>0, <1>2a DEF TestCount, Call, lists, Sub
  <2>2. CountGood(call[t])'
    BY <1>0, <2>1 DEF CountGood
  <2> QED BY <2>1, <2>2 DEF CountInv, Settled
<1>3. ASSUME NEW outcome \in Outcomes, Post(t, outcome)
      PROVE  CountInv'
  <2>1. /\ s \in issued /\ Settled(s)
        /\ notifyCount' = notifyCount /\ issued' = issued
        /\ \A r \in Subs \ {s} : received'[r] = received[r]
        /\ received'[s].seq \in {received[s].seq, notifyCount[s]}
        /\ outcome = "answered" => received'[s].seq = notifyCount[s]
        /\ notifyCount[s] \in Nat
    BY <1>3, Delivered DEF s
  <2>2. ASSUME NEW r \in Subs
        PROVE  Settled(r)' /\ (r \notin issued' => received'[r].seq = -1)
    BY <2>1 DEF CountInv, Settled
  <2>3. \/ call'[t].pc = "count" /\ outcome = "answered" /\ call'[t].snap = call[t].snap
        \/ call'[t].pc = "notify" /\ call'[t].snap = Tail(call[t].snap)
    BY <1>0, <1>3 DEF Post, AfterPost, ToCount, NextSubscriber, Call
  <2>4. CountGood(call[t])'
    BY <1>0, <1>1, <2>1, <2>3 DEF CountGood
  <2> QED BY <2>2, <2>4 DEF CountInv
<1>4. CASE incrementNotifyCount(t)
  <2>1. /\ received[s].seq \in Nat
        /\ \/ call[t].pc = "wrap" /\ received[s].seq = MaxCount
           \/ /\ call[t].pc = "increment" /\ received[s].seq = call[t].seq
              /\ call[t].seq # MaxCount
    BY <1>0, <1>1, <1>4 DEF incrementNotifyCount, CountGood, CountInv, Settled
  <2>2. /\ notifyCount'[s] = NextCount(received[s].seq)
        /\ \A r \in Subs \ {s} : notifyCount'[r] = notifyCount[r]
    <3>1. CASE call[t].pc = "wrap"
      <4>1. notifyCount' = [notifyCount EXCEPT ![s] = 1]
        BY <1>4, <3>1 DEF incrementNotifyCount, s
      <4> QED BY <1>0, <1>1, <2>1, <3>1, <4>1 DEF NextCount
    <3>2. CASE call[t].pc = "increment"
      <4>1. notifyCount' = [notifyCount EXCEPT ![s] = PlusOne(call[t].seq)]
        BY <1>4, <3>2 DEF incrementNotifyCount, s
      <4> QED BY <1>0, <1>1, <2>1, <3>2, <4>1 DEF NextCount, PlusOne
    <3> QED BY <2>1, <3>1, <3>2
  <2>3. /\ received' = received /\ issued' = issued
        /\ call'[t].pc = "notify" /\ call'[t].snap = Tail(call[t].snap)
    BY <1>0, <1>4 DEF incrementNotifyCount, NextSubscriber, Call, lists
  <2>4. NextCount(received[s].seq) \in Nat /\ received[s].seq # -1
    BY <2>1 DEF NextCount
  <2>5. ASSUME NEW r \in Subs
        PROVE  Settled(r)' /\ (r \notin issued' => received'[r].seq = -1)
    BY <2>2, <2>3, <2>4 DEF CountInv, Settled
  <2>6. CountGood(call[t])'
    BY <1>1, <2>3 DEF CountGood
  <2> QED BY <2>5, <2>6 DEF CountInv
<1> QED BY <1>2, <1>2a, <1>3, <1>4

LEMMA InitCounts == Init => CountInv
<1> SUFFICES ASSUME Init PROVE CountInv
  OBVIOUS
<1>1. \A s \in Subs : Settled(s) /\ received[s].seq = -1
  BY DEF Init, Settled
<1>2. ASSUME NEW t \in Threads PROVE CountGood(call[t])
  BY RestingCalls DEF Init, CountGood
<1> QED BY <1>1, <1>2 DEF CountInv

LEMMA NextCounts ==
  ASSUME IInv, CountInv, [Next]_vars, NEW t, Threads = {t}
  PROVE  CountInv'
<1>1. CASE UNCHANGED vars \/ Tick
  <2>1. UNCHANGED <<notifyCount, received, issued, call>>
    BY <1>1 DEF vars, lists, Tick
  <2> QED BY <2>1 DEF CountInv, CountGood, Settled
<1>2. CASE Enter(t) \/ Continue(t)
  BY <1>2, CopyingIssuesNothing, OutsideCounts, DeliveryCounts
     DEF Outside, Continue
<1> QED BY <1>1, <1>2 DEF Next

(* With a single thread the SEQs of a subscription are consecutive, lost   *)
(* answers and renewals included.                                          *)
THEOREM SeqsAreConsecutive ==
  ASSUME NEW thread, Threads = {thread}
  PROVE  Spec => SeqInOrder
<1>1. ASSUME IInv, CountInv, [Next]_vars, NEW t \in Threads,
             call[t].pc = "post", call'[t].pc # "post", NEW s, s = Sub(t)
      PROVE  \/ received'[s].seq = received[s].seq
             \/ received'[s].seq = IF received[s].seq = -1 THEN 0
                                   ELSE NextCount(received[s].seq)
  <2>1. PostThrows(t) \/ \E outcome \in Outcomes : Post(t, outcome)
    BY <1>1 DEF Next, vars, Tick, Enter, Continue, SetValue, Subscribe, Lookup,
       Store, SkipVariable, BeginRound, ExpireCopy, ExpireTest, ExpireTime,
       ExpireSum, ExpireDrop, NotifyStart, NotifyCopy, ReadValue, ReadSeq,
       TestCount, ReadCount, incrementNotifyCount, EndRound, Find, NotFound,
       RenewTimeOut, RenewTime, RenewCount, Unsubscribe
  <2>2. CASE PostThrows(t)
    BY <2>2 DEF PostThrows
  <2>3. ASSUME NEW outcome \in Outcomes, Post(t, outcome)
        PROVE  Settled(s) /\ received'[s].seq \in {received[s].seq, notifyCount[s]}
    BY <1>1, <2>3, Delivered
  <2> QED BY <2>1, <2>2, <2>3 DEF Settled
<1>2. IInv /\ CountInv /\ [Next]_vars =>
        [\A t \in Threads : call[t].pc = "post" /\ call'[t].pc # "post" =>
           LET s == Sub(t)
               old == received[s].seq
               new == received'[s].seq
           IN  \/ new = old
               \/ new = IF old = -1 THEN 0 ELSE NextCount(old)]_vars
  BY <1>1
<1>3. IInv /\ CountInv /\ [Next]_vars => CountInv'
  BY NextCounts
<1>4. Spec => [](IInv /\ CountInv)
  BY <1>3, InitCounts, InductiveInvariant, PTL DEF Spec
<1> QED BY <1>2, <1>4, PTL DEF Spec, SeqInOrder

-----------------------------------------------------------------------------
(* The first loop of a round looks at everybody who is listed when the     *)
(* round begins; whom it keeps had not lapsed then, and the second loop    *)
(* copies nobody else.                                                     *)

InTime(s, began) ==
    timeOut[s] = INFINITE \/ subscriptionTime[s] + timeOut[s] >= began

RoundGood(c) ==
    /\ c.began <= clock
    /\ (c.pc = "expire" /\ c.idx <= c.size) =>
          /\ c.size = Len(subscriberList)
          /\ \A k \in 1..(c.idx - 1) : subscriberList[k] \in ToSet(c.snap)
    /\ (c.pc \in {"expire", "lapse", "sum", "drop"} /\ ~(c.idx <= c.size)) =>
          \A s \in Listed : s \in ToSet(c.snap) \/ InTime(s, c.began)
    /\ c.pc \in {"lapse", "sum", "drop"} => ~(c.idx <= c.size)
    /\ c.pc \in {"lapse", "sum"} => c.began <= c.now
    /\ c.pc = "sum" => c.at = subscriptionTime[Head(c.snap)]
    /\ c.pc \in Telling =>
          \A s \in Listed \cup ToSet(c.snap) : InTime(s, c.began)

RoundInv == \A t \in Threads : RoundGood(call[t])

(* What the steps of a round leave alone.                                  *)
LeasesStay == UNCHANGED <<timeOut, subscriptionTime, clock>>


LEMMA RoundFacts ==
  ASSUME IInv, RoundInv, NEW t \in Threads
  PROVE  /\ call \in [Threads -> Call] /\ call[t] \in Call /\ WellShaped(call[t])
         /\ RoundGood(call[t]) /\ clock \in Nat
         /\ call[t].snap \in Seq(Subs) /\ call[t].idx \in Nat \ {0}
         /\ call[t].size \in Nat /\ call[t].now \in Nat /\ call[t].began \in Nat
         /\ subscriberList \in Seq(Subs) /\ Len(subscriberList) \in Nat
         /\ Listed \subseteq Subs
<1>1. call[t] \in Call /\ Listed \subseteq Subs
  BY ListFacts DEF IInv
<1>2. /\ call[t].snap \in Seq(Subs) /\ call[t].idx \in Nat \ {0}
      /\ call[t].size \in Nat /\ call[t].now \in Nat /\ call[t].began \in Nat
  BY <1>1 DEF Call
<1> QED BY <1>1, <1>2 DEF IInv, SharedOK, RoundInv

LEMMA OutsideRounds ==
  ASSUME IInv, RoundInv, NEW t, Threads = {t}, Outside(t)
  PROVE  RoundInv'
<1>1. /\ t \in Threads /\ call[t].began <= clock /\ clock \in Nat
      /\ clock' = clock
  BY RoundFacts DEF RoundGood, Outside, Enter, SetValue, Subscribe, Lookup,
     Store, SkipVariable, EndRound, Find, NotFound, Unsubscribe,
     removeSubscriber, RenewTimeOut, RenewTime, RenewCount, PostThrows
<1>2. call'[t].pc \notin Round /\ call'[t].began <= clock'
  BY <1>1, OutsideStep
<1>3. RoundGood(call[t])'
  BY <1>2 DEF RoundGood, Round, Telling
<1> QED BY <1>3 DEF RoundInv

(* The first loop copies the whole list ...                                *)
LEMMA ExpireCopies ==
  ASSUME IInv, RoundInv, NEW t, Threads = {t}, BeginRound(t) \/ ExpireCopy(t)
  PROVE  RoundInv'
<1>0. t \in Threads
  OBVIOUS
<1>1. CASE BeginRound(t)
  <2>1. /\ call'[t].pc = "expire" /\ call'[t].began = clock
        /\ call'[t].idx = 1 /\ call'[t].size = Len(subscriberList)
    <3>1. call'[t] = [StartScan(call[t], "expire") EXCEPT !.began = clock]
      BY <1>0, <1>1, RoundFacts DEF BeginRound
    <3> QED BY <1>0, <3>1, RoundFacts DEF StartScan, Call
  <2>2. clock' = clock /\ subscriberList' = subscriberList /\ Listed' = Listed
    BY <1>1 DEF BeginRound, lists, Listed
  <2>3. ~(1 <= Len(subscriberList)) => Listed = {}
    BY <1>0, RoundFacts DEF Listed, ToSet
  <2>4. clock \in Nat /\ clock <= clock /\ \A k \in 1..(1 - 1) : FALSE
    BY <1>0, RoundFacts
  <2>5. RoundGood(call[t])'
    BY <2>1, <2>2, <2>3, <2>4 DEF RoundGood, Telling
  <2> QED BY <2>5 DEF RoundInv
<1>2. CASE ExpireCopy(t)
  <2> DEFINE k == call[t].idx
  <2>1. /\ call[t].pc = "expire" /\ k <= call[t].size
        /\ call'[t].pc = "expire" /\ call'[t].began = call[t].began
        /\ call'[t].idx = k + 1 /\ call'[t].size = call[t].size
        /\ call'[t].snap = Copied(t)
    BY <1>0, <1>2, RoundFacts DEF ExpireCopy, CopyNext, Call, Scanning
  <2>2. clock' = clock /\ subscriberList' = subscriberList /\ Listed' = Listed
    BY <1>2 DEF ExpireCopy, lists, Listed
  <2>3. /\ k \in Nat \ {0} /\ call[t].size = Len(subscriberList)
        /\ \A j \in 1..(k - 1) : subscriberList[j] \in ToSet(call[t].snap)
        /\ call[t].began <= clock
    BY <1>0, <2>1, RoundFacts DEF RoundGood
  <2>4. ASSUME NEW j \in 1..k
        PROVE  subscriberList[j] \in ToSet(Copied(t))
    <3>1. CASE j = k
      BY <1>0, <2>1, <2>3, <3>1, CopiedHolds
    <3>2. CASE j # k
      <4>1. j \in 1..(k - 1)
        BY <2>3, <3>2
      <4> QED BY <1>0, <2>3, <4>1, CopiedHolds
    <3> QED BY <3>1, <3>2
  <2>5. (k + 1) - 1 = k
    BY <2>3
  <2>6. ASSUME ~(k + 1 <= Len(subscriberList)), NEW s \in Listed
        PROVE  s \in ToSet(Copied(t))
    <3>1. PICK j \in 1..Len(subscriberList) : subscriberList[j] = s
      BY <1>0, RoundFacts DEF Listed, ToSet
    <3>2. j \in 1..k
      BY <1>0, <2>3, <2>6, <3>1, RoundFacts
    <3> QED BY <2>4, <3>1, <3>2
  <2> HIDE DEF k
  <2>7. RoundGood(call[t])'
    BY <2>1, <2>2, <2>3, <2>4, <2>5, <2>6 DEF RoundGood, Telling
  <2> QED BY <2>7 DEF RoundInv
<1> QED BY <1>1, <1>2

(* ... and drops from it whoever has lapsed.                               *)
LEMMA ExpireDecides ==
  ASSUME IInv, RoundInv, NEW t, Threads = {t},
         ExpireTest(t) \/ ExpireTime(t) \/ ExpireSum(t) \/ ExpireDrop(t)
  PROVE  RoundInv'
<1> DEFINE q == call[t].snap
           s == Sub(t)
<1>0. /\ t \in Threads /\ call \in [Threads -> Call] /\ call[t] \in Call
      /\ call[t].pc \in {"expire", "lapse", "sum", "drop"}
      /\ q \in Seq(Subs) /\ q # <<>> /\ ~(call[t].idx <= call[t].size)
  BY RoundFacts DEF ExpireTest, ExpireTime, ExpireSum, ExpireDrop, Scanned, Scanning,
     WellShaped, RoundGood
<1>1. /\ s \in Subs /\ Tail(q) \in Seq(Subs)
      /\ ToSet(q) \subseteq {s} \cup ToSet(Tail(q))
  BY <1>0, TailHolds DEF Sub
<1>2. /\ \A r \in Listed : r \in ToSet(q) \/ InTime(r, call[t].began)
      /\ call[t].began <= clock
  BY <1>0, RoundFacts DEF RoundGood
<1>3. LeasesStay
  BY DEF ExpireTest, ExpireTime, ExpireSum, ExpireDrop, removeSubscriber,
         LeasesStay, lists
<1>4. ASSUME call'[t].began = call[t].began
      PROVE  \A r : InTime(r, call[t].began)' <=> InTime(r, call[t].began)
  BY <1>3, <1>4 DEF LeasesStay, InTime
(* The next one is tested once the current one is known to be in time or   *)
(* is off the list.                                                        *)
<1>5. ASSUME call'[t].pc = "expire", call'[t].snap = Tail(q),
             call'[t].began = call[t].began,
             call'[t].idx = call[t].idx, call'[t].size = call[t].size,
             Listed' \subseteq Listed,
             s \in Listed' => InTime(s, call[t].began)
      PROVE  RoundInv'
  <2>1. \A r \in Listed' : r \in ToSet(Tail(q)) \/ InTime(r, call[t].began)
    BY <1>1, <1>2, <1>5
  <2>2. clock' = clock
    BY <1>3 DEF LeasesStay
  <2>3. RoundGood(call[t])'
    BY <1>0, <1>2, <1>4, <1>5, <2>1, <2>2 DEF RoundGood, Telling
  <2> QED BY <2>3 DEF RoundInv
<1>6. CASE ExpireTest(t)
  <2>1. Listed' = Listed /\ clock' = clock
    BY <1>6 DEF ExpireTest, lists, Listed
  <2>2. CASE timeOut[s] = INFINITE
    <3>1. /\ call'[t].pc = "expire" /\ call'[t].snap = Tail(q)
          /\ call'[t].began = call[t].began
          /\ call'[t].idx = call[t].idx /\ call'[t].size = call[t].size
      BY <1>0, <1>6, <2>2 DEF ExpireTest, IsFinite, Call
    <3>2. InTime(s, call[t].began)
      BY <2>2 DEF InTime
    <3> QED BY <1>5, <2>1, <3>1, <3>2
  <2>3. CASE timeOut[s] # INFINITE
    <3>1. /\ call'[t].pc = "lapse" /\ call'[t].snap = q /\ call'[t].now = clock
          /\ call'[t].began = call[t].began
          /\ call'[t].idx = call[t].idx /\ call'[t].size = call[t].size
      BY <1>0, <1>6, <2>3 DEF ExpireTest, IsFinite, Call
    <3>2. RoundGood(call[t])'
      BY <1>0, <1>2, <1>4, <2>1, <3>1 DEF RoundGood, Telling
    <3> QED BY <3>2 DEF RoundInv
  <2> QED BY <2>2, <2>3
<1>6a. CASE ExpireTime(t)
  <2>1. /\ Listed' = Listed /\ clock' = clock /\ call[t].pc = "lapse"
        /\ subscriptionTime' = subscriptionTime
    BY <1>6a DEF ExpireTime, lists, Listed
  <2>2. /\ call'[t].pc = "sum" /\ call'[t].snap = q /\ call'[t].now = call[t].now
        /\ call'[t].at = subscriptionTime[Head(q)]
        /\ call'[t].began = call[t].began
        /\ call'[t].idx = call[t].idx /\ call'[t].size = call[t].size
    BY <1>0, <1>6a DEF ExpireTime, Call, Sub
  <2>3. call[t].began <= call[t].now
    BY <1>0, <2>1, RoundFacts DEF RoundGood
  <2>4. RoundGood(call[t])'
    BY <1>0, <1>2, <1>4, <2>1, <2>2, <2>3 DEF RoundGood, Telling
  <2> QED BY <2>4 DEF RoundInv
<1>7. CASE ExpireSum(t)
  <2>0. call[t].at = subscriptionTime[s]
    BY <1>0, <1>7, RoundFacts DEF ExpireSum, RoundGood, Sub
  <2>1. Listed' = Listed /\ clock' = clock /\ call[t].pc = "sum"
    BY <1>7 DEF ExpireSum, lists, Listed
  <2>2. CASE Lapsed(call[t].at, timeOut[s], call[t].now)
    <3>1. /\ call'[t].pc = "drop" /\ call'[t].snap = q
          /\ call'[t].began = call[t].began
          /\ call'[t].idx = call[t].idx /\ call'[t].size = call[t].size
      BY <1>0, <1>7, <2>2 DEF ExpireSum, Call
    <3>2. RoundGood(call[t])'
      BY <1>0, <1>2, <1>4, <2>1, <3>1 DEF RoundGood, Telling
    <3> QED BY <3>2 DEF RoundInv
  <2>3. CASE ~Lapsed(call[t].at, timeOut[s], call[t].now)
    <3>1. /\ call'[t].pc = "expire" /\ call'[t].snap = Tail(q)
          /\ call'[t].began = call[t].began
          /\ call'[t].idx = call[t].idx /\ call'[t].size = call[t].size
      BY <1>0, <1>7, <2>3 DEF ExpireSum, Call
    <3>2. /\ call[t].began <= call[t].now
          /\ call[t].began \in Nat /\ call[t].now \in Nat
      BY <1>0, <2>1, RoundFacts DEF RoundGood
    <3>3. subscriptionTime[s] \in Int /\ timeOut[s] \in Int
      <4>1. /\ subscriptionTime[s] \in Nat /\ timeOut[s] \in Timeouts \cup {0}
            /\ Timeouts \subseteq Nat \cup {-1}
        BY <1>1, TimeoutsAssumption DEF IInv, SharedOK, INFINITE
      <4>2. 0 \in Nat
        OBVIOUS
      <4>3. timeOut[s] \in Nat \/ timeOut[s] = -1
        BY <4>1, <4>2, Zenon
      <4> QED BY <4>1, <4>3
    <3>4. InTime(s, call[t].began)
      BY <2>0, <2>3, <3>2, <3>3 DEF InTime, Lapsed
    <3> QED BY <1>5, <2>1, <3>1, <3>4
  <2> QED BY <2>2, <2>3
<1>8. CASE ExpireDrop(t)
  <2>1. Listed' = Listed \ {s}
    BY <1>8, ListFacts, WithoutUnique DEF ExpireDrop, removeSubscriber, Listed
  <2>2. /\ call'[t].pc = "expire" /\ call'[t].snap = Tail(q)
        /\ call'[t].began = call[t].began
        /\ call'[t].idx = call[t].idx /\ call'[t].size = call[t].size
    BY <1>0, <1>8 DEF ExpireDrop, removeSubscriber, Call
  <2> QED BY <1>5, <2>1, <2>2
<1> QED BY <1>6, <1>6a, <1>7, <1>8

(* From here on everybody listed or copied is in time.                     *)
LEMMA NotifyTellsInTime ==
  ASSUME IInv, RoundInv, NEW t, Threads = {t},
         \/ NotifyStart(t) \/ NotifyCopy(t) \/ ReadValue(t) \/ ReadSeq(t)
         \/ \E outcome \in Outcomes : Post(t, outcome)
         \/ TestCount(t) \/ ReadCount(t) \/ incrementNotifyCount(t)
  PROVE  RoundInv'
<1> DEFINE q == call[t].snap
<1>0. /\ t \in Threads /\ call \in [Threads -> Call] /\ call[t] \in Call
      /\ q \in Seq(Subs) /\ call[t].began <= clock
  BY RoundFacts DEF RoundGood
<1>1. LeasesStay /\ Listed' = Listed
  BY DEF NotifyStart, NotifyCopy, ReadValue, ReadSeq, Post, TestCount, ReadCount,
     incrementNotifyCount, LeasesStay, Listed, lists
<1>2. \A r \in Listed : InTime(r, call[t].began)
  <2>1. CASE NotifyStart(t)
    <3>1. call[t].pc = "expire" /\ ~(call[t].idx <= call[t].size) /\ q = <<>>
      BY <2>1 DEF NotifyStart, Scanned, Scanning
    <3> QED BY <1>0, <3>1, RoundFacts, RestingCalls DEF RoundGood
  <2>2. CASE call[t].pc \in Telling
    BY <1>0, <2>2, RoundFacts DEF RoundGood
  <2> QED BY <2>1, <2>2 DEF NotifyCopy, ReadValue, ReadSeq, Post, TestCount,
          ReadCount, incrementNotifyCount, Telling
<1>3. /\ call'[t].pc \in Telling
      /\ call'[t].began = call[t].began
      /\ \/ call'[t].snap = <<>>
         \/ /\ call[t].pc \in Telling
            /\ \/ call'[t].snap \in {q, Copied(t)}
               \/ q # <<>> /\ call'[t].snap = Tail(q)
  <2>1. CASE NotifyStart(t)
    <3>1. call'[t] = StartScan(call[t], "notify")
      BY <1>0, <2>1 DEF NotifyStart
    <3> QED BY <1>0, <3>1 DEF StartScan, Call, Telling
  <2>2. CASE NotifyCopy(t)
    BY <1>0, <2>2 DEF NotifyCopy, CopyNext, Call, Telling
  <2>3. CASE ReadValue(t) \/ ReadSeq(t) \/ TestCount(t) \/ ReadCount(t)
    BY <1>0, <2>3 DEF ReadValue, ReadSeq, TestCount, ReadCount, Call, Telling
  <2>4. CASE (\E outcome \in Outcomes : Post(t, outcome)) \/ incrementNotifyCount(t)
    <3>1. q # <<>> /\ call[t].pc \in {"post", "wrap", "increment"}
      BY <1>0, <2>4, RoundFacts DEF WellShaped, Post, incrementNotifyCount
    <3>2. call' = ToCount(t) \/ call' = NextSubscriber(t)
      BY <2>4 DEF Post, AfterPost, incrementNotifyCount
    <3>3. CASE call' = ToCount(t)
      BY <1>0, <3>1, <3>3 DEF ToCount, Call, Telling
    <3>4. CASE call' = NextSubscriber(t)
      BY <1>0, <3>1, <3>4 DEF NextSubscriber, Call, Telling
    <3> QED BY <3>2, <3>3, <3>4
  <2> QED BY <2>1, <2>2, <2>3, <2>4
<1>4. ToSet(call'[t].snap) \subseteq Listed
      \/ /\ call[t].pc \in Telling
         /\ ToSet(call'[t].snap) \subseteq ToSet(q) \cup Listed
  BY <1>0, <1>3, RestingCalls, CopiedHolds, TailHolds
<1>5. \A r \in ToSet(call'[t].snap) : InTime(r, call[t].began)
  BY <1>0, <1>2, <1>4, RoundFacts DEF RoundGood
<1>6. \A r : InTime(r, call[t].began)' <=> InTime(r, call[t].began)
  BY <1>1, <1>3 DEF LeasesStay, InTime
<1>7. clock' = clock
  BY <1>1 DEF LeasesStay
<1>8. RoundGood(call[t])'
  BY <1>0, <1>1, <1>2, <1>3, <1>5, <1>6, <1>7 DEF RoundGood, Telling
<1> QED BY <1>8 DEF RoundInv

LEMMA InitRounds == Init => RoundInv
<1> SUFFICES ASSUME Init, NEW t \in Threads PROVE RoundGood(call[t])
  BY DEF RoundInv
<1>1. call[t] = IdleCall /\ clock = 0 /\ 0 <= 0
  BY DEF Init
<1> QED BY <1>1, RestingCalls DEF RoundGood, Telling

LEMMA NextRounds ==
  ASSUME IInv, RoundInv, [Next]_vars, NEW t, Threads = {t}
  PROVE  RoundInv'
<1>1. CASE UNCHANGED vars \/ Tick
  <2>1. /\ UNCHANGED <<subscriberList, timeOut, subscriptionTime, call>>
        /\ clock' = clock \/ clock' = clock + 1
    BY <1>1 DEF vars, lists, Tick
  <2>2. call[t].began <= clock'
    BY <2>1, RoundFacts DEF RoundGood
  <2>3. RoundGood(call[t])'
    BY <2>1, <2>2, RoundFacts DEF RoundGood, InTime, Listed
  <2> QED BY <2>3 DEF RoundInv
<1>2. CASE Enter(t) \/ Continue(t)
  BY <1>2, OutsideRounds, ExpireCopies, ExpireDecides, NotifyTellsInTime
     DEF Outside, Continue
<1> QED BY <1>1, <1>2 DEF Next

(* With a single thread no event of a round goes to a subscription that    *)
(* had lapsed when the round began.                                        *)
THEOREM NobodyLapsedIsTold ==
  ASSUME NEW thread, Threads = {thread}
  PROVE  Spec => []LapsedIsNotNotified
<1>1. IInv /\ RoundInv => LapsedIsNotNotified
  <2> SUFFICES ASSUME IInv, RoundInv, NEW t \in Threads,
                      call[t].pc \in {"seq", "post"}
               PROVE  InTime(Sub(t), call[t].began)
    BY DEF LapsedIsNotNotified, InTime
  <2>1. Sub(t) \in ToSet(call[t].snap)
    BY RoundFacts, TailHolds DEF WellShaped, Sub
  <2> QED BY <2>1, RoundFacts DEF RoundGood, Telling
<1>2. IInv /\ RoundInv /\ [Next]_vars => RoundInv'
  BY NextRounds
<1> QED BY <1>1, <1>2, InitRounds, InductiveInvariant, PTL DEF Spec
=============================================================================
