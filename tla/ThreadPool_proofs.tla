-------------------------- MODULE ThreadPool_proofs --------------------------
(***************************************************************************)
(* The pool of pthread.c keeps the promise of AVCodecContext.execute, for  *)
(* any number of threads and jobs, when condition variables wake up only   *)
(* who was signalled.                                                      *)
(*                                                                         *)
(* The invariant says who has taken which job.  A worker that has been     *)
(* woken for a batch and holds no job yet still has its first one, the one *)
(* with its own number, before it; the jobs from ThreadCount on are taken  *)
(* in order.  So a job is never taken twice, and current_job is the number *)
(* of registered workers plus the number of jobs that are done and claimed *)
(* for: when it reaches thread_count + job_count, all of them are.         *)
(***************************************************************************)
EXTENDS ThreadPool, FiniteSetTheorems, TLAPS

Registered == {w \in Workers : pc[w] \in {"wait", "woken", "run", "claim", "exit"}}
Active(w) == pc[w] \in {"run", "claim"}
Claimed ==
    {j \in Batch :
        runs[j] = 1 /\ \A w \in Workers : pc[w] = "claim" => ourJob[w] # j}

Phases ==
    /\ caller \in {"parked", "woken", "ready"} => created = ThreadCount /\ ~done
    /\ caller = "creating" =>
          /\ ~done
          /\ jobCount = 0
          /\ currentJob = 0
          /\ \A w \in Workers : pc[w] \in {"none", "start", "register"}
    /\ caller = "joining" => done
    /\ caller = "off" => \A w \in Workers : pc[w] = "none"
    /\ caller # "off" => \A w \in Workers : pc[w] = "none" <=> w >= created
    /\ caller # "off" /\ jobCount > 0 => Registered = Workers
    /\ \A w \in Workers : pc[w] = "register" => ourJob[w] = 0

Count ==
    /\ caller # "off" => currentJob = Cardinality(Registered) + Cardinality(Claimed)
    /\ caller \in {"woken", "ready"} => currentJob = ThreadCount + jobCount

Numbers ==
    \A w \in Registered :
        /\ selfId[w] \in 0..ThreadCount - 1
        /\ selfId[w] < currentJob
        /\ \A u \in Registered \ {w} : selfId[u] # selfId[w]

Taken ==
    \A w \in Workers :
        Active(w) =>
            /\ caller = "parked"
            /\ ourJob[w] \in Batch
            /\ ourJob[w] = selfId[w] \/ ourJob[w] \in ThreadCount..currentJob - 1
            /\ runs[ourJob[w]] = (IF pc[w] = "run" THEN 0 ELSE 1)
            /\ \A u \in Workers \ {w} : Active(u) => ourJob[u] # ourJob[w]

NotTaken ==
    /\ \A j \in Jobs : runs[j] \in {0, 1}
    /\ \A w \in Workers :
          pc[w] = "woken" /\ ~done /\ selfId[w] < jobCount => runs[selfId[w]] = 0
    /\ \A j \in Jobs :
          jobCount > 0 /\ j >= ThreadCount /\ j >= currentJob => runs[j] = 0

IInv == TypeOK /\ Phases /\ Count /\ Numbers /\ Taken /\ NotTaken
---------------------------------------------------------------------------

(* Two sets that together have all the members they can have, have them all. *)
LEMMA Full ==
    ASSUME NEW R \in SUBSET Workers, NEW n \in Nat, NEW C \in SUBSET (0..n - 1)
    PROVE  /\ IsFiniteSet(R) /\ Cardinality(R) \in 0..ThreadCount
           /\ IsFiniteSet(C) /\ Cardinality(C) \in 0..n
           /\ Cardinality(R) = ThreadCount => R = Workers
           /\ Cardinality(C) = n => C = 0..n - 1
<1>1. /\ IsFiniteSet(Workers) /\ Cardinality(Workers) = ThreadCount
      /\ IsFiniteSet(0..n - 1) /\ Cardinality(0..n - 1) = n
    <2>1. 0 \in Int /\ ThreadCount - 1 \in Int /\ n - 1 \in Int
        BY CountAssumption
    <2>2. /\ IsFiniteSet(0..ThreadCount - 1)
          /\ Cardinality(0..ThreadCount - 1) =
                IF 0 > ThreadCount - 1 THEN 0 ELSE ThreadCount - 1 - 0 + 1
        BY <2>1, FS_Interval
    <2>3. /\ IsFiniteSet(0..n - 1)
          /\ Cardinality(0..n - 1) = IF 0 > n - 1 THEN 0 ELSE n - 1 - 0 + 1
        BY <2>1, FS_Interval
    <2> QED BY <2>2, <2>3, CountAssumption DEF Workers
<1>2. /\ IsFiniteSet(R) /\ Cardinality(R) <= ThreadCount
      /\ Cardinality(R) = ThreadCount => R = Workers
    BY <1>1, FS_Subset
<1>3. /\ IsFiniteSet(C) /\ Cardinality(C) <= n
      /\ Cardinality(C) = n => C = 0..n - 1
    BY <1>1, FS_Subset
<1>4. Cardinality(R) \in Nat /\ Cardinality(C) \in Nat
    BY <1>2, <1>3, FS_CardinalityType
<1> QED BY <1>2, <1>3, <1>4, CountAssumption

LEMMA CountTypes ==
    ASSUME TypeOK
    PROVE  /\ Registered \in SUBSET Workers
           /\ Claimed \in SUBSET (0..jobCount - 1)
           /\ jobCount \in Nat
           /\ ThreadCount \in Nat /\ ThreadCount > 1
           /\ MaxJobs \in Nat
BY CountAssumption DEF TypeOK, Registered, Claimed, Batch

(* When the count is full nobody works on a job. *)
LEMMA NobodyActive ==
    ASSUME TypeOK, Count, Taken, caller # "off", currentJob = ThreadCount + jobCount
    PROVE  /\ Registered = Workers
           /\ Claimed = Batch
           /\ \A w \in Workers : ~Active(w)
           /\ \A j \in Batch : runs[j] = 1
<1>1. currentJob = Cardinality(Registered) + Cardinality(Claimed)
    BY DEF Count
<1>2. /\ Cardinality(Registered) \in 0..ThreadCount
      /\ Cardinality(Claimed) \in 0..jobCount
      /\ Cardinality(Registered) = ThreadCount => Registered = Workers
      /\ Cardinality(Claimed) = jobCount => Claimed = 0..jobCount - 1
    BY CountTypes, Full
<1>3. Registered = Workers /\ Claimed = Batch
    <2>1. /\ Cardinality(Registered) = ThreadCount
          /\ Cardinality(Claimed) = jobCount
        BY <1>1, <1>2, CountTypes
    <2> QED BY <2>1, <1>2 DEF Batch
<1>4. \A w \in Workers : ~Active(w)
    <2> SUFFICES ASSUME NEW w \in Workers, Active(w) PROVE FALSE
        OBVIOUS
    <2>1. ourJob[w] \in Claimed /\ runs[ourJob[w]] = (IF pc[w] = "run" THEN 0 ELSE 1)
        BY <1>3 DEF Taken
    <2> QED BY <2>1 DEF Claimed, Active
<1> QED BY <1>3, <1>4 DEF Claimed

LEMMA TypeStep == TypeOK /\ [Next]_vars => TypeOK'
<1> SUFFICES ASSUME TypeOK, [Next]_vars PROVE TypeOK'
    OBVIOUS
<1> USE CountAssumption DEF TypeOK
<1>1. CASE ThreadInit
    <2>1. created' = 0 /\ currentJob' = 0 /\ jobCount' = 0 /\ done' = FALSE
        BY <1>1 DEF ThreadInit
    <2>2. created' \in 0..ThreadCount /\ jobCount' \in 0..MaxJobs /\ currentJob' \in Nat
        BY <2>1
    <2>3. caller' = "creating" /\ UNCHANGED <<pc, ourJob, selfId, runs>>
        BY <1>1 DEF ThreadInit
    <2> QED BY <2>1, <2>2, <2>3
<1>2. CASE CallerEnds
    <2>1. CASE CreateWorker BY <2>1 DEF CreateWorker, pool, Workers
    <2>2. CASE ParkAfterCreate BY <2>2 DEF ParkAfterCreate, pool
    <2>3. CASE ReturnFromPark BY <2>3 DEF ReturnFromPark, pool
    <2>4. CASE Joined BY <2>4 DEF Joined, pool
    <2> QED BY <1>2, <2>1, <2>2, <2>3, <2>4 DEF CallerEnds
<1>3. CASE CreateFails BY <1>3 DEF CreateFails, ThreadFree, Broadcast
<1>4. CASE \E n \in 1..MaxJobs : Execute(n)
    BY <1>4 DEF Execute, Broadcast, NoRuns
<1>5. CASE Free BY <1>5 DEF Free, ThreadFree, Broadcast
<1>6. ASSUME NEW w \in Workers, Worker(w) PROVE TypeOK'
    <2> USE DEF SignalCaller, Continue, pool
    <2>1. CASE Start(w) BY <2>1 DEF Start
    <2>2. CASE Register(w) BY <2>2 DEF Register
    <2>3. CASE WakeUp(w) BY <2>3 DEF WakeUp
    <2>4. CASE Exit(w) BY <2>4 DEF Exit
    <2>5. CASE RunJob(w)
        <3>1. ASSUME NEW j \in Jobs
              PROVE  [runs EXCEPT ![ourJob[w]] = runs[ourJob[w]] + 1][j] \in Nat
            BY <3>1
        <3>2. runs' = [runs EXCEPT ![ourJob[w]] = runs[ourJob[w]] + 1]
            BY <2>5 DEF RunJob
        <3>3. runs' \in [Jobs -> Nat]
            BY <3>1, <3>2
        <3> QED BY <2>5, <3>3 DEF RunJob
    <2>6. CASE Claim(w) BY <2>6 DEF Claim
    <2> QED BY <1>6, <2>1, <2>2, <2>3, <2>4, <2>5, <2>6 DEF Worker
<1>7. CASE UNCHANGED vars BY <1>7 DEF vars, pool
<1> QED BY <1>1, <1>2, <1>3, <1>4, <1>5, <1>6, <1>7 DEF Next

(* What the counted sets depend on. *)
LEMMA SameCount ==
    ASSUME TypeOK, TypeOK',
           UNCHANGED <<jobCount, runs>>,
           \A w \in Workers :
              /\ pc'[w] \in {"wait", "woken", "run", "claim", "exit"}
                    <=> pc[w] \in {"wait", "woken", "run", "claim", "exit"}
              /\ pc'[w] = "claim" <=> pc[w] = "claim"
              /\ pc[w] = "claim" => ourJob'[w] = ourJob[w]
    PROVE  Registered' = Registered /\ Claimed' = Claimed
<1>1. Registered' = Registered
    BY DEF Registered
<1>2. Claimed' = Claimed
    BY DEF Claimed, Batch
<1> QED BY <1>1, <1>2

(* A worker that has not registered yet: no batch has been handed out. *)
LEMMA NotRegistered ==
    ASSUME TypeOK, Phases, NEW w \in Workers, pc[w] \in {"start", "register"}
    PROVE  /\ jobCount = 0 /\ caller # "off"
           /\ w \notin Registered
           /\ Claimed = {}
<1>1. caller # "off" /\ w \notin Registered
    BY DEF Phases, Registered
<1>2. jobCount = 0
    BY <1>1, CountTypes DEF Phases
<1>3. Claimed = {}
    BY <1>2, CountTypes DEF Claimed, Batch
<1> QED BY <1>1, <1>2, <1>3

LEMMA ThreadInitStep ==
    ASSUME IInv, TypeOK', ThreadInit
    PROVE  IInv'
<1> USE DEF IInv, ThreadInit
<1>1. \A w \in Workers : pc[w] = "none"
    BY DEF Phases
<1>2. Registered' = {} /\ Claimed' = {}
    BY <1>1 DEF Registered, Claimed, Batch
<1>3. Phases'
    BY <1>1 DEF Phases, Workers
<1>4. Count'
    BY <1>2, FS_EmptySet DEF Count
<1>5. Numbers'
    BY <1>2 DEF Numbers
<1>6. Taken'
    BY <1>1 DEF Taken, Active
<1>7. NotTaken'
    BY <1>1 DEF NotTaken
<1> QED BY <1>3, <1>4, <1>5, <1>6, <1>7

LEMMA CreateWorkerStep ==
    ASSUME IInv, TypeOK', CreateWorker
    PROVE  IInv'
<1> USE DEF IInv, CreateWorker, pool
<1>1. /\ \A w \in Workers : pc[w] \in {"none", "start", "register"}
      /\ \A w \in Workers : pc'[w] = IF w = created THEN "start" ELSE pc[w]
      /\ pc[created] = "none" /\ created \in Workers
    BY CountAssumption DEF Phases, TypeOK, Workers
<1>2. Registered' = Registered /\ Claimed' = Claimed
    BY <1>1, SameCount
<1>3. Phases'
    BY <1>1, CountAssumption DEF Phases, TypeOK, Workers
<1>4. Count'
    BY <1>2 DEF Count
<1>5. Numbers'
    BY <1>2 DEF Numbers
<1>6. Taken'
    BY <1>1 DEF Taken, Active
<1>7. NotTaken'
    BY <1>1 DEF NotTaken
<1> QED BY <1>3, <1>4, <1>5, <1>6, <1>7

LEMMA ThreadFreeStep ==
    ASSUME IInv, TypeOK', CreateFails \/ Free
    PROVE  IInv'
<1> USE DEF IInv, ThreadFree, Broadcast
<1>1. /\ caller \in {"creating", "ready"}
      /\ ThreadFree
    BY DEF CreateFails, Free
<1>2. \A w \in Workers : pc'[w] = IF pc[w] = "wait" THEN "woken" ELSE pc[w]
    BY <1>1
<1>3. UNCHANGED <<created, currentJob, jobCount, ourJob, selfId, runs>>
    BY <1>1
<1>4. Registered' = Registered /\ Claimed' = Claimed
    BY <1>2, <1>3, SameCount
<1>5. caller' = "joining" /\ done'
    BY <1>1
<1>6. Phases'
    BY <1>1, <1>2, <1>3, <1>4, <1>5 DEF Phases
<1>7. Count'
    BY <1>1, <1>3, <1>4, <1>5 DEF Count
<1>8. Numbers'
    BY <1>3, <1>4 DEF Numbers
<1>9. Taken'
    BY <1>1, <1>2 DEF Taken, Active
<1>10. NotTaken'
    BY <1>3, <1>5 DEF NotTaken
<1> QED BY <1>6, <1>7, <1>8, <1>9, <1>10

LEMMA ParkStep ==
    ASSUME IInv, TypeOK', ParkAfterCreate \/ ReturnFromPark
    PROVE  IInv'
<1> USE DEF IInv, pool
<1>1. /\ UNCHANGED <<created, currentJob, jobCount, done, pc, ourJob, selfId, runs>>
      /\ \/ caller = "creating" /\ caller' = "parked" /\ created = ThreadCount
         \/ caller = "woken" /\ caller' = "ready"
    BY DEF ParkAfterCreate, ReturnFromPark
<1>2. Registered' = Registered /\ Claimed' = Claimed
    BY <1>1, SameCount
<1>3. Phases'
    BY <1>1, <1>2 DEF Phases
<1>4. Count'
    BY <1>1, <1>2 DEF Count
<1>5. Numbers'
    BY <1>1, <1>2 DEF Numbers
<1>6. Taken'
    BY <1>1 DEF Taken, Active
<1>7. NotTaken'
    BY <1>1 DEF NotTaken
<1> QED BY <1>3, <1>4, <1>5, <1>6, <1>7

LEMMA ExecuteStep ==
    ASSUME IInv, TypeOK', NEW n \in 1..MaxJobs, Execute(n)
    PROVE  IInv'
<1> USE DEF IInv, Execute, Broadcast
<1>1. Registered = Workers /\ \A w \in Workers : ~Active(w)
    BY NobodyActive DEF Count
<1>2. \A w \in Workers : pc'[w] = IF pc[w] = "wait" THEN "woken" ELSE pc[w]
    OBVIOUS
<1>3. Registered' = Workers /\ \A w \in Workers : ~Active(w)'
    BY <1>1, <1>2 DEF Registered, Active
<1>4. /\ \A j \in Jobs : runs'[j] = 0
      /\ Batch' \subseteq Jobs
    BY CountAssumption DEF NoRuns, Batch, Jobs
<1>5. Claimed' = {}
    BY <1>4 DEF Claimed
<1>6. Phases'
    BY <1>2, <1>3 DEF Phases, Registered
<1>7. Count'
    <2>1. Cardinality(Workers) = ThreadCount
        BY <1>1, NobodyActive, CountTypes, Full, FS_Interval, CountAssumption DEF Workers
    <2> QED BY <2>1, <1>3, <1>5, FS_EmptySet, CountAssumption DEF Count
<1>8. Numbers'
    BY <1>1, <1>3, CountAssumption DEF Numbers
<1>9. Taken'
    BY <1>3 DEF Taken
<1>10. NotTaken'
    <2>1. \A w \in Workers : (selfId[w] < n) => selfId[w] \in Jobs
        BY <1>1, CountAssumption DEF Numbers, Jobs
    <2> QED BY <1>4, <2>1 DEF NotTaken
<1> QED BY <1>6, <1>7, <1>8, <1>9, <1>10

LEMMA JoinedStep ==
    ASSUME IInv, TypeOK', Joined
    PROVE  IInv'
<1> USE DEF IInv, Joined, pool
<1>1. \A w \in Workers : pc'[w] = "none"
    OBVIOUS
<1>2. Registered' = {}
    BY <1>1 DEF Registered
<1>3. Phases'
    BY <1>1 DEF Phases
<1>4. Count'
    BY DEF Count
<1>5. Numbers'
    BY <1>2 DEF Numbers
<1>6. Taken'
    BY <1>1 DEF Taken, Active
<1>7. NotTaken'
    BY <1>1 DEF NotTaken
<1> QED BY <1>3, <1>4, <1>5, <1>6, <1>7

LEMMA StartStep ==
    ASSUME IInv, TypeOK', NEW w \in Workers, Start(w)
    PROVE  IInv'
<1> USE DEF IInv, Start, pool
<1>1. jobCount = 0 /\ caller # "off"
    BY NotRegistered
<1>2. \A u \in Workers :
         /\ pc'[u] = IF u = w THEN "register" ELSE pc[u]
         /\ ourJob'[u] = IF u = w THEN 0 ELSE ourJob[u]
    BY <1>1 DEF TypeOK
<1>3. Registered' = Registered /\ Claimed' = Claimed
    BY <1>2, SameCount
<1>4. Phases'
    BY <1>1, <1>2, <1>3 DEF Phases
<1>5. Count'
    BY <1>3 DEF Count
<1>6. Numbers'
    BY <1>3 DEF Numbers
<1>7. Taken'
    BY <1>2 DEF Taken, Active, Batch
<1>8. NotTaken'
    BY <1>2 DEF NotTaken
<1> QED BY <1>4, <1>5, <1>6, <1>7, <1>8

LEMMA RegisterStep ==
    ASSUME IInv, TypeOK', NEW w \in Workers, Register(w)
    PROVE  IInv'
<1> USE DEF IInv, Register, Continue
<1>1. /\ jobCount = 0 /\ caller # "off" /\ w \notin Registered /\ Claimed = {}
      /\ ourJob[w] = 0
    BY NotRegistered DEF Phases
<1>2. /\ \A u \in Workers : pc'[u] = IF u = w THEN "wait" ELSE pc[u]
      /\ \A u \in Workers : ourJob'[u] = IF u = w THEN 0 ELSE ourJob[u]
      /\ \A u \in Workers : selfId'[u] = IF u = w THEN currentJob ELSE selfId[u]
      /\ currentJob' = currentJob + 1
      /\ UNCHANGED <<created, jobCount, done, runs>>
      /\ caller' = IF currentJob' = ThreadCount /\ caller = "parked"
                      THEN "woken" ELSE caller
    BY <1>1, CountAssumption DEF TypeOK, SignalCaller
<1>3. Registered' = Registered \cup {w} /\ Claimed' = {}
    BY <1>1, <1>2 DEF Registered, Claimed, Batch
<1>4. /\ currentJob = Cardinality(Registered)
      /\ IsFiniteSet(Registered) /\ Cardinality(Registered) \in 0..ThreadCount
      /\ Cardinality(Registered) # ThreadCount
    BY <1>1, CountTypes, Full, FS_EmptySet, CountAssumption DEF Count
<1>5. caller \notin {"woken", "ready"}
    BY <1>1, <1>4, CountAssumption DEF Count
<1>6. Phases'
    BY <1>1, <1>2, <1>5 DEF Phases, Unlocked
<1>7. Count'
    <2>1. Cardinality(Registered') = Cardinality(Registered) + 1
        BY <1>1, <1>3, <1>4, FS_AddElement
    <2> QED BY <1>1, <1>2, <1>3, <1>4, <1>5, <2>1, FS_EmptySet, CountAssumption
            DEF Count
<1>8. Numbers'
    BY <1>2, <1>3, <1>4, CountTypes, CountAssumption DEF Numbers, TypeOK
<1>9. Taken'
    BY <1>1, <1>2 DEF Taken, Active, Batch
<1>10. NotTaken'
    BY <1>1, <1>2 DEF NotTaken
<1> QED BY <1>6, <1>7, <1>8, <1>9, <1>10

LEMMA WakeUpStep ==
    ASSUME IInv, TypeOK', NEW w \in Workers, WakeUp(w)
    PROVE  IInv'
<1> USE DEF IInv, WakeUp, Continue
<1>1. /\ caller \in {"parked", "woken", "ready"}
      /\ w \in Registered /\ ~Active(w)
    BY DEF Phases, TypeOK, Registered, Active
<1>2. /\ UNCHANGED <<created, currentJob, jobCount, done, selfId, runs>>
      /\ \A u \in Workers : ourJob'[u] = IF u = w THEN selfId[w] ELSE ourJob[u]
      /\ selfId[w] \in 0..ThreadCount - 1
    BY <1>1 DEF TypeOK, Numbers
<1>3. CASE selfId[w] < jobCount
    <2>1. /\ caller' = caller
          /\ \A u \in Workers : pc'[u] = IF u = w THEN "run" ELSE pc[u]
        BY <1>3, <1>2 DEF TypeOK
    <2>2. /\ selfId[w] \in Batch /\ selfId[w] \in Jobs
          /\ runs[selfId[w]] = 0
        BY <1>2, <1>3, CountTypes DEF NotTaken, Batch, Jobs, TypeOK
    <2>3. caller = "parked"
        BY <1>1, <2>2, NobodyActive DEF Count
    <2>4. Registered' = Registered /\ Claimed' = Claimed
        BY <1>2, <2>1, SameCount
    <2>5. Phases'
        BY <1>1, <1>2, <2>1, <2>4 DEF Phases
    <2>6. Count'
        BY <1>2, <2>1, <2>4 DEF Count
    <2>7. Numbers'
        BY <1>2, <2>4 DEF Numbers
    <2>8. Taken'
        <3>1. \A u \in Workers : Active(u)' <=> u = w \/ Active(u)
            BY <2>1 DEF Active
        <3>2. \A u \in Workers \ {w} : Active(u) => ourJob[u] # selfId[w]
            <4> SUFFICES ASSUME NEW u \in Workers \ {w}, Active(u)
                         PROVE  ourJob[u] # selfId[w]
                OBVIOUS
            <4>1. selfId[u] # selfId[w]
                BY <1>1 DEF Numbers, Registered, Active
            <4> QED BY <4>1, <1>2, CountTypes DEF Taken, TypeOK
        <3> QED BY <1>2, <2>1, <2>2, <2>3, <3>1, <3>2 DEF Taken, Batch
    <2>9. NotTaken'
        BY <1>2, <2>1 DEF NotTaken
    <2> QED BY <2>5, <2>6, <2>7, <2>8, <2>9
<1>4. CASE selfId[w] >= jobCount
    <2>1. /\ \A u \in Workers : pc'[u] = IF u = w THEN "wait" ELSE pc[u]
          /\ caller' = IF currentJob = ThreadCount + jobCount /\ caller = "parked"
                          THEN "woken" ELSE caller
        BY <1>4, <1>2, CountTypes DEF TypeOK, SignalCaller
    <2>2. Registered' = Registered /\ Claimed' = Claimed
        BY <1>2, <2>1, SameCount
    <2>3. Phases'
        BY <1>1, <1>2, <2>1, <2>2 DEF Phases
    <2>4. Count'
        BY <1>1, <1>2, <2>1, <2>2 DEF Count
    <2>5. Numbers'
        BY <1>2, <2>2 DEF Numbers
    <2>6. Taken'
        <3>1. \A u \in Workers : Active(u)' <=> Active(u)
            BY <2>1 DEF Active
        <3>2. caller' # caller => \A u \in Workers : ~Active(u)
            BY <1>1, <2>1, NobodyActive
        <3> QED BY <1>1, <1>2, <2>1, <3>1, <3>2 DEF Taken, Batch, Active
    <2>7. NotTaken'
        BY <1>2, <2>1 DEF NotTaken
    <2> QED BY <2>3, <2>4, <2>5, <2>6, <2>7
<1> QED BY <1>2, <1>3, <1>4, CountTypes

LEMMA ExitStep ==
    ASSUME IInv, TypeOK', NEW w \in Workers, Exit(w)
    PROVE  IInv'
<1> USE DEF IInv, Exit, pool
<1>1. caller = "joining"
    BY DEF Phases, TypeOK
<1>2. \A u \in Workers :
         /\ pc'[u] = IF u = w THEN "exit" ELSE pc[u]
         /\ ourJob'[u] = IF u = w THEN selfId[w] ELSE ourJob[u]
    BY DEF TypeOK
<1>3. Registered' = Registered /\ Claimed' = Claimed
    BY <1>2, SameCount
<1>4. Phases'
    BY <1>1, <1>2, <1>3 DEF Phases
<1>5. Count'
    BY <1>3 DEF Count
<1>6. Numbers'
    BY <1>3 DEF Numbers
<1>7. Taken'
    BY <1>1, <1>2 DEF Taken, Active
<1>8. NotTaken'
    BY <1>2 DEF NotTaken
<1> QED BY <1>4, <1>5, <1>6, <1>7, <1>8

LEMMA RunJobStep ==
    ASSUME IInv, TypeOK', NEW w \in Workers, RunJob(w)
    PROVE  IInv'
<1> USE DEF IInv, RunJob, pool
<1>1. /\ caller = "parked" /\ ourJob[w] \in Batch /\ runs[ourJob[w]] = 0
      /\ ourJob[w] = selfId[w] \/ ourJob[w] \in ThreadCount..currentJob - 1
      /\ \A u \in Workers \ {w} : Active(u) => ourJob[u] # ourJob[w]
    BY DEF Taken, Active
<1>2. ourJob[w] \in Jobs /\ Batch \subseteq Jobs
    BY <1>1, CountTypes DEF Batch, Jobs, TypeOK
<1>3. /\ \A u \in Workers : pc'[u] = IF u = w THEN "claim" ELSE pc[u]
      /\ \A j \in Jobs : runs'[j] = IF j = ourJob[w] THEN 1 ELSE runs[j]
    BY <1>1, <1>2 DEF TypeOK
<1>4. Registered' = Registered
    BY <1>3 DEF Registered
<1>5. Claimed' = Claimed
    BY <1>1, <1>2, <1>3 DEF Claimed, Batch
<1>6. Phases'
    BY <1>1, <1>3, <1>4 DEF Phases
<1>7. Count'
    BY <1>4, <1>5 DEF Count
<1>8. Numbers'
    BY <1>4 DEF Numbers
<1>9. Taken'
    <2>1. \A u \in Workers : Active(u)' <=> Active(u)
        BY <1>3 DEF Active
    <2> QED BY <1>1, <1>2, <1>3, <2>1 DEF Taken, Batch, Active
<1>10. NotTaken'
    <2>1. ASSUME NEW u \in Workers, pc'[u] = "woken"
          PROVE  pc[u] = "woken" /\ selfId[u] # ourJob[w]
        <3>1. pc[u] = "woken" /\ u # w
            BY <1>3, <2>1
        <3>2. u \in Registered /\ w \in Registered
            BY <3>1 DEF Registered
        <3> QED BY <1>1, <3>1, <3>2, CountTypes DEF Numbers, TypeOK
    <2>2. \A j \in Jobs : j >= ThreadCount /\ j >= currentJob => j # ourJob[w]
        <3>1. selfId[w] \in 0..ThreadCount - 1
            BY DEF Numbers, Registered
        <3> QED BY <1>1, <3>1, CountTypes DEF TypeOK, Jobs
    <2>3. \A u \in Workers : selfId[u] < jobCount => selfId[u] \in Jobs
        BY CountTypes DEF TypeOK, Jobs
    <2> QED BY <1>1, <1>3, <2>1, <2>2, <2>3 DEF NotTaken
<1> QED BY <1>6, <1>7, <1>8, <1>9, <1>10

LEMMA ClaimStep ==
    ASSUME IInv, TypeOK', NEW w \in Workers, Claim(w)
    PROVE  IInv'
<1> USE DEF IInv, Claim, Continue
<1>1. /\ caller = "parked" /\ ourJob[w] \in Batch /\ runs[ourJob[w]] = 1
      /\ \A u \in Workers \ {w} : Active(u) => ourJob[u] # ourJob[w]
    BY DEF Taken, Active
<1>2. /\ jobCount > 0 /\ Registered = Workers /\ Batch \subseteq Jobs
    BY <1>1, CountTypes DEF Phases, Batch, Jobs, TypeOK
<1>3. /\ currentJob' = currentJob + 1
      /\ UNCHANGED <<created, jobCount, done, selfId, runs>>
      /\ \A u \in Workers : ourJob'[u] = IF u = w THEN currentJob ELSE ourJob[u]
      /\ \A u \in Workers \ {w} : pc'[u] = pc[u]
      /\ pc'[w] \in {"run", "wait"}
    BY DEF TypeOK
<1>4. Registered' = Workers
    BY <1>2, <1>3 DEF Registered
<1>5. Claimed' = Claimed \cup {ourJob[w]} /\ ourJob[w] \notin Claimed
    BY <1>1, <1>3 DEF Claimed, Batch, Active
<1>6. /\ IsFiniteSet(Claimed) /\ Cardinality(Claimed) \in 0..jobCount
      /\ Cardinality(Workers) = ThreadCount
      /\ currentJob = ThreadCount + Cardinality(Claimed)
    <2>1. Cardinality(Workers) = ThreadCount
        BY FS_Interval, CountAssumption DEF Workers
    <2> QED BY <1>1, <1>2, <2>1, CountTypes, Full DEF Count
<1>7. /\ IsFiniteSet(Claimed') /\ Claimed' \subseteq Batch
      /\ Cardinality(Claimed') = Cardinality(Claimed) + 1
    <2>1. Claimed \subseteq Batch
        BY DEF Claimed
    <2> QED BY <2>1, <1>1, <1>5, <1>6, FS_AddElement
<1>8. Numbers'
    BY <1>2, <1>3, <1>4, CountTypes DEF Numbers, TypeOK
<1>9. CASE currentJob < jobCount
    <2>1. pc'[w] = "run" /\ caller' = "parked"
        BY <1>9, <1>1, CountTypes DEF TypeOK
    <2>2. currentJob \in Batch /\ currentJob \in Jobs /\ currentJob >= ThreadCount
        BY <1>2, <1>6, <1>9, CountTypes DEF Batch, TypeOK
    <2>3. Phases'
        BY <1>1, <1>2, <1>3, <1>4, <2>1 DEF Phases
    <2>4. Count'
        BY <1>3, <1>4, <1>6, <1>7, <2>1, CountTypes DEF Count
    <2>5. Taken'
        <3>1. \A u \in Workers : Active(u)' <=> Active(u)
            BY <1>3, <2>1 DEF Active
        <3>2. \A u \in Workers \ {w} : Active(u) => ourJob[u] # currentJob
            <4> SUFFICES ASSUME NEW u \in Workers \ {w}, Active(u)
                         PROVE  ourJob[u] # currentJob
                OBVIOUS
            <4>1. selfId[u] < currentJob /\ selfId[u] \in Nat
                BY <1>2 DEF Numbers, TypeOK
            <4> QED BY <4>1, <2>2 DEF Taken, TypeOK
        <3>3. runs[currentJob] = 0
            BY <1>2, <2>2 DEF NotTaken, TypeOK
        <3> QED BY <1>1, <1>3, <2>1, <2>2, <3>1, <3>2, <3>3, CountTypes
                DEF Taken, Batch, TypeOK
    <2>6. NotTaken'
        BY <1>3, <2>1 DEF NotTaken, TypeOK, Jobs
    <2> QED BY <1>8, <2>3, <2>4, <2>5, <2>6
<1>10. CASE currentJob >= jobCount
    <2>1. /\ pc'[w] = "wait"
          /\ caller' = IF currentJob' = ThreadCount + jobCount THEN "woken" ELSE "parked"
        BY <1>1, <1>10, CountTypes DEF TypeOK, SignalCaller
    <2>2. Phases'
        BY <1>1, <1>2, <1>3, <1>4, <2>1 DEF Phases
    <2>3. Count'
        BY <1>3, <1>4, <1>6, <1>7, <2>1, CountTypes DEF Count
    <2>4. Taken'
        <3>1. \A u \in Workers : Active(u)' <=> u # w /\ Active(u)
            BY <1>3, <2>1 DEF Active
        <3>2. caller' = "woken" => \A u \in Workers : ~Active(u)'
            <4> SUFFICES ASSUME caller' = "woken", NEW u \in Workers, Active(u)'
                         PROVE  FALSE
                OBVIOUS
            <4>1. Cardinality(Claimed') = jobCount
                BY <1>3, <1>6, <1>7, <2>1, CountTypes
            <4>2. Claimed' = Batch
                BY <4>1, <1>7, CountTypes, Full DEF Batch
            <4>3. Active(u) /\ u # w
                BY <3>1
            <4>4. ourJob[u] \in Claimed
                BY <4>2, <4>3, <1>1, <1>5 DEF Taken
            <4> QED BY <4>3, <4>4 DEF Claimed, Taken, Active
        <3> QED BY <1>1, <1>3, <2>1, <3>1, <3>2, CountTypes
                DEF Taken, Batch, TypeOK, Active
    <2>5. NotTaken'
        BY <1>3, <2>1 DEF NotTaken, TypeOK, Jobs
    <2> QED BY <1>8, <2>2, <2>3, <2>4, <2>5
<1> QED BY <1>9, <1>10, CountTypes DEF TypeOK

---------------------------------------------------------------------------

LEMMA InvStep == IInv /\ [Next]_vars => IInv'
<1> SUFFICES ASSUME IInv, [Next]_vars PROVE IInv'
    OBVIOUS
<1>1. TypeOK'
    BY TypeStep DEF IInv
<1>2. CASE ThreadInit BY <1>1, <1>2, ThreadInitStep
<1>3. CASE CallerEnds
    BY <1>1, <1>3, CreateWorkerStep, ParkStep, JoinedStep DEF CallerEnds
<1>4. CASE CreateFails \/ Free BY <1>1, <1>4, ThreadFreeStep
<1>5. ASSUME NEW n \in 1..MaxJobs, Execute(n) PROVE IInv'
    BY <1>1, <1>5, ExecuteStep
<1>6. ASSUME NEW w \in Workers, Worker(w) PROVE IInv'
    BY <1>1, <1>6, StartStep, RegisterStep, WakeUpStep, ExitStep, RunJobStep, ClaimStep
       DEF Worker
<1>7. CASE UNCHANGED vars
    BY <1>7 DEF IInv, TypeOK, Phases, Count, Numbers, Taken, NotTaken, Registered,
                Claimed, Active, Batch, vars, pool
<1> QED BY <1>2, <1>3, <1>4, <1>5, <1>6, <1>7 DEF Next

LEMMA InvInit == Init => IInv
<1> SUFFICES ASSUME Init PROVE IInv
    OBVIOUS
<1>1. TypeOK
    <2>1. runs \in [Jobs -> Nat]
        BY DEF Init, NoRuns
    <2>2. created \in 0..ThreadCount /\ jobCount \in 0..MaxJobs /\ currentJob \in Nat
        BY CountAssumption DEF Init
    <2> QED BY <2>1, <2>2 DEF Init, TypeOK
<1>2. Phases /\ Count /\ Taken /\ Numbers
    BY CountAssumption DEF Init, Phases, Count, Taken, Numbers, Active, Registered
<1>3. NotTaken
    BY CountAssumption DEF Init, NotTaken, NoRuns
<1> QED BY <1>1, <1>2, <1>3 DEF IInv

THEOREM Invariance == Spec => []IInv
<1> QED BY InvInit, InvStep, PTL DEF Spec

(* The variables of the pool keep their types. *)
THEOREM TypeCorrect == Spec => []TypeOK
<1>1. IInv => TypeOK
    BY DEF IInv
<1> QED BY <1>1, Invariance, PTL

(* When execute has returned, every job of the batch has been run exactly  *)
(* once and no worker is still at one: the arguments of the batch may be   *)
(* reused (avcodec.h:2576).                                                *)
THEOREM BatchesEnd == Spec => []EachJobOnce
<1>1. IInv => EachJobOnce
    BY NobodyActive DEF IInv, EachJobOnce, Count, Active
<1> QED BY <1>1, Invariance, PTL

(* Two jobs that run at the same time get different thread numbers, all    *)
(* below thread_count (avcodec.h:2589).                                    *)
THEOREM NumbersDiffer == Spec => []ThreadNumbersDiffer
<1>1. IInv => ThreadNumbersDiffer
    BY DEF IInv, ThreadNumbersDiffer, Numbers, Registered
<1> QED BY <1>1, Invariance, PTL

---------------------------------------------------------------------------
(* The refinement: each step of the pool is one of the Executor, or none.  *)

LEMMA RefinesInit == Init => E!Init
BY DEF Init, E!Init, Busy, NoRuns, E!Nothing, Jobs

LEMMA RefinesStep == IInv /\ [Next]_vars => [E!Next]_E!vars
<1> SUFFICES ASSUME IInv, [Next]_vars PROVE [E!Next]_E!vars
    OBVIOUS
<1> USE DEF Busy, E!vars, pool
<1>1. CASE ThreadInit
    BY <1>1 DEF ThreadInit
<1>2. CASE CreateWorker \/ ParkAfterCreate \/ Joined
    BY <1>2 DEF CreateWorker, ParkAfterCreate, Joined, IInv, Phases
<1>3. CASE ReturnFromPark
    <2>1. \A j \in Batch : runs[j] = 1
        BY <1>3, NobodyActive DEF ReturnFromPark, IInv, Count
    <2>2. CASE jobCount > 0
        <3>1. E!Return
            BY <1>3, <2>1, <2>2 DEF ReturnFromPark, E!Return, NoRuns, E!Nothing, Jobs
        <3> QED BY <3>1 DEF E!Next
    <2>3. CASE ~(jobCount > 0)
        <3>1. E!Open
            BY <1>3, <2>3 DEF ReturnFromPark, E!Open
        <3> QED BY <3>1 DEF E!Next
    <2> QED BY <2>2, <2>3
<1>4. CASE CreateFails
    BY <1>4 DEF CreateFails, ThreadFree
<1>5. CASE Free
    <2>1. E!Close
        BY <1>5 DEF Free, ThreadFree, E!Close
    <2> QED BY <2>1 DEF E!Next
<1>6. ASSUME NEW n \in 1..MaxJobs, Execute(n) PROVE [E!Next]_E!vars
    <2>1. n > 0
        BY <1>6, CountAssumption
    <2>2. E!Submit(n)
        BY <1>6, <2>1 DEF Execute, E!Submit, Batch
    <2> QED BY <2>2, <1>6 DEF E!Next
<1>7. ASSUME NEW w \in Workers, Worker(w) PROVE [E!Next]_E!vars
    <2>1. CASE RunJob(w)
        <3>1. /\ caller = "parked" /\ ourJob[w] \in Batch /\ runs[ourJob[w]] = 0
              /\ jobCount \in 0..MaxJobs /\ MaxJobs \in Nat
            BY <2>1, CountTypes DEF RunJob, IInv, Taken, Active, TypeOK
        <3>2. jobCount > 0 /\ ourJob[w] \in 0..MaxJobs - 1
            BY <3>1 DEF Batch
        <3>3. E!RunTask(ourJob[w])
            BY <2>1, <3>1, <3>2 DEF RunJob, E!RunTask, Batch
        <3> QED BY <3>2, <3>3 DEF E!Next
    <2>2. CASE ~RunJob(w)
        <3>1. /\ UNCHANGED <<jobCount, runs>>
              /\ caller' # caller => caller = "parked" /\ caller' = "woken"
            BY <1>7, <2>2 DEF Worker, Start, Register, WakeUp, Exit, Claim,
                              Continue, SignalCaller
        <3> QED BY <3>1 DEF Batch
    <2> QED BY <2>1, <2>2
<1>8. CASE UNCHANGED vars
    BY <1>8 DEF vars, Batch
<1> QED BY <1>1, <1>2, <1>3, <1>4, <1>5, <1>6, <1>7, <1>8 DEF Next, CallerEnds

(* The pool does nothing that an Executor may not do. *)
THEOREM PoolIsExecutor == Spec => E!SafeSpec
<1> QED BY RefinesInit, RefinesStep, Invariance, PTL DEF Spec, E!SafeSpec
==============================================================================
