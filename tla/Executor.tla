------------------------------ MODULE Executor ------------------------------
(***************************************************************************)
(* What AVCodecContext.execute promises a codec (libavcodec/avcodec.h):    *)
(* the tasks of a batch are all run, each exactly once and in any order,   *)
(* and the call returns only after the last of them has finished.          *)
(***************************************************************************)
EXTENDS Integers

CONSTANT MaxJobs    \* bound: tasks of one batch

VARIABLES phase,    \* no pool, one that waits for a batch, one that runs it
          tasks,    \* the batch
          runs      \* how often each of its tasks has been run to its end

vars == <<phase, tasks, runs>>

Nothing == [j \in 0..MaxJobs - 1 |-> 0]

Init == phase = "off" /\ tasks = {} /\ runs = Nothing

Open == phase = "off" /\ phase' = "ready" /\ UNCHANGED <<tasks, runs>>

Close == phase = "ready" /\ phase' = "off" /\ UNCHANGED <<tasks, runs>>

Submit(n) ==
    /\ phase = "ready"
    /\ phase' = "busy"
    /\ tasks' = 0..n - 1
    /\ UNCHANGED runs

RunTask(j) ==
    /\ phase = "busy"
    /\ j \in tasks
    /\ runs[j] = 0
    /\ runs' = [runs EXCEPT ![j] = 1]
    /\ UNCHANGED <<phase, tasks>>

Return ==
    /\ phase = "busy"
    /\ \A j \in tasks : runs[j] = 1
    /\ phase' = "ready"
    /\ tasks' = {}
    /\ runs' = Nothing

Next ==
    \/ Open
    \/ Close
    \/ \E n \in 1..MaxJobs : Submit(n)
    \/ \E j \in 0..MaxJobs - 1 : RunTask(j)
    \/ Return

SafeSpec == Init /\ [][Next]_vars

(* Every batch that is submitted is finished. *)
EveryBatchEnds == (phase = "busy") ~> (phase = "ready")

Spec == SafeSpec /\ EveryBatchEnds
=============================================================================
