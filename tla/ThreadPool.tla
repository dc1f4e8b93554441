----------------------------- MODULE ThreadPool -----------------------------
(***************************************************************************)
(* The worker threads of libavcodec/pthread.c.                             *)
(*                                                                         *)
(* A codec context with more than one thread has a pool: one caller (the   *)
(* thread that decodes) hands it batches of jobs through execute and       *)
(* sleeps until they are done, and avcodec_thread_free ends it.  One mutex *)
(* protects the pool; a section between taking and leaving it (or going to *)
(* sleep on a condition variable, which leaves it) is one step.  Only      *)
(* avcodec_thread_init holds it over several: it creates the threads under *)
(* it.                                                                     *)
(*                                                                         *)
(* A worker's first job of a batch is the one with its own number; the     *)
(* next are handed out by current_job, which starts at the number of       *)
(* threads and so also counts the jobs that have ended.                    *)
(***************************************************************************)
EXTENDS Integers

CONSTANTS
    ThreadCount,       \* avctx->thread_count, as requested
    MaxJobs,           \* bound: job_count of a batch
    CreateMayFail      \* whether pthread_create may fail

(* With one thread there is no pool (avcodec_thread_init returns at once). *)
ASSUME CountAssumption == ThreadCount \in Nat \ {0, 1} /\ MaxJobs \in Nat \ {0}
ASSUME FaultAssumption == CreateMayFail \in BOOLEAN

Workers == 0..ThreadCount - 1
Jobs == 0..MaxJobs - 1

VARIABLES
    caller,      \* where the thread that owns the codec context is
    created,     \* threads created so far (i of the loop, then thread_count)
    currentJob,  \* ThreadContext.current_job
    jobCount,    \* ThreadContext.job_count
    done,        \* ThreadContext.done
    pc,          \* each worker: where it is
    ourJob,      \* its local our_job
    selfId,      \* its local self_id
    runs         \* history: how often each job of the batch has been run

pool == <<currentJob, jobCount, done>>
vars == <<caller, created, pool, pc, ourJob, selfId, runs>>

NoRuns == [j \in Jobs |-> 0]

Init ==
    /\ caller = "off"
    /\ created = 0
    /\ currentJob = 0
    /\ jobCount = 0
    /\ done = FALSE
    /\ pc = [w \in Workers |-> "none"]
    /\ ourJob = [w \in Workers |-> 0]
    /\ selfId = [w \in Workers |-> 0]
    /\ runs = NoRuns

(* pthread_cond_broadcast(&current_job_cond): all that wait must now take  *)
(* the mutex again, one after the other.                                   *)
Broadcast == pc' = [w \in Workers |-> IF pc[w] = "wait" THEN "woken" ELSE pc[w]]

Unlocked == caller # "creating"

---------------------------------------------------------------------------
(* The caller.                                                             *)

ThreadInit ==
    /\ caller = "off"
    /\ caller' = "creating"
    /\ created' = 0
    /\ currentJob' = 0
    /\ jobCount' = 0
    /\ done' = FALSE
    /\ UNCHANGED <<pc, ourJob, selfId, runs>>

(* A mistake: the loop creates one thread too many. *)
CreateOneMore ==
    /\ caller = "creating"
    /\ created <= ThreadCount
    /\ created' = created + 1
    /\ UNCHANGED <<caller, pool, pc, ourJob, selfId, runs>>

CreateWorker ==
    /\ caller = "creating"
    /\ created < ThreadCount
    /\ created' = created + 1
    /\ pc' = [pc EXCEPT ![created] = "start"]
    /\ UNCHANGED <<caller, pool, ourJob, selfId, runs>>

(* A mistake: nobody is told. *)
FreeQuietly ==
    /\ done' = TRUE
    /\ caller' = "joining"
    /\ UNCHANGED <<created, currentJob, jobCount, pc, ourJob, selfId, runs>>

(* avcodec_thread_free up to the joins. *)
ThreadFree ==
    /\ done' = TRUE
    /\ Broadcast
    /\ caller' = "joining"
    /\ UNCHANGED <<created, currentJob, jobCount, ourJob, selfId, runs>>

CreateFails ==
    /\ CreateMayFail
    /\ caller = "creating"
    /\ created < ThreadCount
    /\ ThreadFree

(* avcodec_thread_park_workers sleeps once, and tests nothing when it      *)
(* wakes: this holds only where a sleep ends because of a signal, which    *)
(* is what the model assumes and POSIX does not promise.                   *)
ParkAfterCreate ==
    /\ caller = "creating"
    /\ created = ThreadCount
    /\ caller' = "parked"
    /\ UNCHANGED <<created, pool, pc, ourJob, selfId, runs>>

ReturnFromPark ==
    /\ caller = "woken"
    /\ caller' = "ready"
    /\ UNCHANGED <<created, pool, pc, ourJob, selfId, runs>>

(* A mistake: the counter goes on from the batch before. *)
ExecuteOn(n) ==
    /\ caller = "ready"
    /\ jobCount' = n
    /\ runs' = NoRuns
    /\ Broadcast
    /\ caller' = "parked"
    /\ UNCHANGED <<created, currentJob, done, ourJob, selfId>>

Execute(n) ==
    /\ caller = "ready"
    /\ currentJob' = ThreadCount
    /\ jobCount' = n
    /\ runs' = NoRuns
    /\ Broadcast
    /\ caller' = "parked"
    /\ UNCHANGED <<created, done, ourJob, selfId>>

Free == caller = "ready" /\ ThreadFree

(* The last join returns; the context is released. *)
Joined ==
    /\ caller = "joining"
    /\ \A w \in Workers : w < created => pc[w] = "exit"
    /\ caller' = "off"
    /\ pc' = [w \in Workers |-> "none"]
    /\ UNCHANGED <<created, pool, ourJob, selfId, runs>>

---------------------------------------------------------------------------
(* The workers.                                                            *)

(* pthread_cond_signal(&last_job_cond): lost when nobody sleeps on it. *)
SignalCaller == caller' = IF caller = "parked" THEN "woken" ELSE caller

(* A mistake: the caller is woken by the first worker that has no job. *)
ContinueAndSignal(w, j) ==
    /\ ourJob' = [ourJob EXCEPT ![w] = j]
    /\ \/ /\ j < jobCount
          /\ pc' = [pc EXCEPT ![w] = "run"]
          /\ UNCHANGED caller
       \/ /\ j >= jobCount
          /\ pc' = [pc EXCEPT ![w] = "wait"]
          /\ SignalCaller

(* The inner loop of worker(), once our_job is j: run that job, or say     *)
(* that nothing is left to do and sleep.                                   *)
Continue(w, j) ==
    /\ ourJob' = [ourJob EXCEPT ![w] = j]
    /\ \/ /\ j < jobCount
          /\ pc' = [pc EXCEPT ![w] = "run"]
          /\ UNCHANGED caller
       \/ /\ j >= jobCount
          /\ pc' = [pc EXCEPT ![w] = "wait"]
          /\ IF currentJob' = ThreadCount + jobCount
                THEN SignalCaller
                ELSE UNCHANGED caller

(* The thread starts, and reads job_count before it takes the mutex. *)
Start(w) ==
    /\ pc[w] = "start"
    /\ ourJob' = [ourJob EXCEPT ![w] = jobCount]
    /\ pc' = [pc EXCEPT ![w] = "register"]
    /\ UNCHANGED <<caller, created, pool, selfId, runs>>

(* A mistake: ++current_job. *)
RegisterNext(w) ==
    /\ pc[w] = "register"
    /\ Unlocked
    /\ selfId' = [selfId EXCEPT ![w] = currentJob + 1]
    /\ currentJob' = currentJob + 1
    /\ Continue(w, ourJob[w])
    /\ UNCHANGED <<created, jobCount, done, runs>>

Register(w) ==
    /\ pc[w] = "register"
    /\ Unlocked
    /\ selfId' = [selfId EXCEPT ![w] = currentJob]
    /\ currentJob' = currentJob + 1
    /\ Continue(w, ourJob[w])
    /\ UNCHANGED <<created, jobCount, done, runs>>

(* pthread_cond_wait(&current_job_cond, ...) returns. *)
WakeUp(w) ==
    /\ pc[w] = "woken"
    /\ Unlocked
    /\ ~done
    /\ UNCHANGED currentJob
    /\ Continue(w, selfId[w])
    /\ UNCHANGED <<created, jobCount, done, selfId, runs>>

Exit(w) ==
    /\ pc[w] = "woken"
    /\ Unlocked
    /\ done
    /\ pc' = [pc EXCEPT ![w] = "exit"]
    /\ ourJob' = [ourJob EXCEPT ![w] = selfId[w]]
    /\ UNCHANGED <<caller, created, pool, selfId, runs>>

(* c->func or c->func2 returns, outside the mutex. *)
RunJob(w) ==
    /\ pc[w] = "run"
    /\ runs' = [runs EXCEPT ![ourJob[w]] = @ + 1]
    /\ pc' = [pc EXCEPT ![w] = "claim"]
    /\ UNCHANGED <<caller, created, pool, ourJob, selfId>>

Claim(w) ==
    /\ pc[w] = "claim"
    /\ Unlocked
    /\ currentJob' = currentJob + 1
    /\ Continue(w, currentJob)
    /\ UNCHANGED <<created, jobCount, done, selfId, runs>>

---------------------------------------------------------------------------

Worker(w) ==
    \/ Start(w)
    \/ Register(w)
    \/ WakeUp(w)
    \/ Exit(w)
    \/ RunJob(w)
    \/ Claim(w)

CallerEnds == CreateWorker \/ ParkAfterCreate \/ ReturnFromPark \/ Joined

Next ==
    \/ ThreadInit
    \/ CallerEnds
    \/ CreateFails
    \/ \E n \in 1..MaxJobs : Execute(n)
    \/ Free
    \/ \E w \in Workers : Worker(w)

Spec == Init /\ [][Next]_vars

(* Threads run, the mutex goes to whoever keeps asking for it, and the     *)
(* functions of the codecs return.  Nobody has to call execute or free.    *)
Fairness ==
    /\ WF_vars(CallerEnds)
    /\ \A w \in Workers : WF_vars(Worker(w))

FairSpec == Spec /\ Fairness

---------------------------------------------------------------------------
(* Properties.                                                             *)

(* Every variable holds a value of its type. *)
TypeOK ==
    /\ caller \in {"off", "creating", "parked", "woken", "ready", "joining"}
    /\ created \in 0..ThreadCount
    /\ currentJob \in Nat
    /\ jobCount \in 0..MaxJobs
    /\ done \in BOOLEAN
    /\ pc \in [Workers ->
               {"none", "start", "register", "wait", "woken", "run", "claim", "exit"}]
    /\ ourJob \in [Workers -> Nat]
    /\ selfId \in [Workers -> Nat]
    /\ runs \in [Jobs -> Nat]

Batch == 0..jobCount - 1

(* avcodec.h:2576, "It will return only after finishing all tasks": when   *)
(* execute has returned, each job was run once, and none is running.       *)
EachJobOnce ==
    caller = "ready" =>
        /\ \A j \in Batch : runs[j] = 1
        /\ \A w \in Workers : pc[w] \notin {"run", "claim"}

(* avcodec.h:2589, "threadnr will be in the range 0 to c->thread_count-1   *)
(* [...] and so that no two instances of func executing at the same time   *)
(* will have the same threadnr": codecs index their contexts with it.      *)
ThreadNumbersDiffer ==
    \A w \in Workers :
        pc[w] = "run" =>
            /\ selfId[w] \in 0..ThreadCount - 1
            /\ \A u \in Workers \ {w} : pc[u] = "run" => selfId[u] # selfId[w]

(* The pool is an Executor. *)
Busy == caller \in {"parked", "woken"} /\ jobCount > 0

E == INSTANCE Executor WITH
        phase <- IF Busy THEN "busy" ELSE IF caller = "ready" THEN "ready" ELSE "off",
        tasks <- IF Busy THEN Batch ELSE {},
        runs  <- IF Busy THEN runs ELSE NoRuns

(* Every batch ends, and ends as Executor promises. *)
ImplementsExecutor == E!Spec

(* avcodec_thread_free returns, unless thread creation failed: a worker    *)
(* tests "done" only after a sleep, so one that had not gone to sleep when *)
(* the broadcast was sent sleeps for ever, and the join with it.           *)
FreeReturns == (caller = "joining" /\ created = ThreadCount) ~> (caller = "off")
=============================================================================
