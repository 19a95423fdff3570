----------------------------- MODULE WorkerPool -----------------------------
(***************************************************************************)
(* workerpool.WorkerPool: nWorkers goroutines serve one channel of jobs.   *)
(* A caller of AddJob blocks while the channel is full and then waits for  *)
(* its job's done channel; Stop closes the stop channel and waits for the  *)
(* workers.                                                                *)
(***************************************************************************)
EXTENDS Naturals, Sequences

CONSTANTS
  nWorkers,
  Jobs,         (* every job is posted at most once                         *)
  noJob

ASSUME PoolAssumption == nWorkers \in Nat \ {0} /\ noJob \notin Jobs

VARIABLES
  jobs,         (* the channel                                              *)
  job,          (* where each job is                                        *)
  work,         (* the job a worker runs, or noJob                          *)
  exited,       (* workers that returned                                    *)
  stop,         (* the stop channel is closed                               *)
  stopReturned

poolVars == <<jobs, job, work, exited, stop, stopReturned>>

Workers == 1..nWorkers

\* NewWorkerPool
PoolInit ==
  /\ jobs = <<>>
  /\ job = [j \in Jobs |-> "new"]
  /\ work = [w \in Workers |-> noJob]
  /\ exited = {}
  /\ stop = FALSE
  /\ stopReturned = FALSE

\* A caller enters AddJob; the channel may be full.
Call(j) ==
  /\ job[j] = "new"
  /\ job' = [job EXCEPT ![j] = "posting"]
  /\ UNCHANGED <<jobs, work, exited, stop, stopReturned>>

\* Mutant: a full channel is not waited for, and its oldest job is lost.
AddJob_Overwrites(j) ==
  /\ job[j] = "posting"
  /\ jobs' = Append(IF Len(jobs) < nWorkers THEN jobs ELSE Tail(jobs), j)
  /\ job' = [job EXCEPT ![j] = "queued"]
  /\ UNCHANGED <<work, exited, stop, stopReturned>>

\* wp.jobs <- job
AddJob(j) ==
  /\ job[j] = "posting"
  /\ Len(jobs) < nWorkers
  /\ jobs' = Append(jobs, j)
  /\ job' = [job EXCEPT ![j] = "queued"]
  /\ UNCHANGED <<work, exited, stop, stopReturned>>

Idle(w) == w \notin exited /\ work[w] = noJob

\* case j := <-wp.jobs, chosen at random when the stop channel is closed too.
Take(w) ==
  /\ Idle(w)
  /\ jobs # <<>>
  /\ jobs' = Tail(jobs)
  /\ work' = [work EXCEPT ![w] = Head(jobs)]
  /\ job' = [job EXCEPT ![Head(jobs)] = "running"]
  /\ UNCHANGED <<exited, stop, stopReturned>>

\* j.Run() returns and has closed the done channel.
RunReturns(w) ==
  /\ work[w] # noJob
  /\ job' = [job EXCEPT ![work[w]] = "done"]
  /\ work' = [work EXCEPT ![w] = noJob]
  /\ UNCHANGED <<jobs, exited, stop, stopReturned>>

\* Mutant: the stop channel is sent to instead of being closed.
Exit_OneSignal(w) ==
  /\ Idle(w)
  /\ stop /\ exited = {}
  /\ exited' = exited \cup {w}
  /\ UNCHANGED <<jobs, job, work, stop, stopReturned>>

\* case <-wp.stop
Exit(w) ==
  /\ Idle(w)
  /\ stop
  /\ exited' = exited \cup {w}
  /\ UNCHANGED <<jobs, job, work, stop, stopReturned>>

\* close(wp.stop)
Stop ==
  /\ ~stop
  /\ stop' = TRUE
  /\ UNCHANGED <<jobs, job, work, exited, stopReturned>>

\* Mutant: Stop does not wait for every worker.
StopReturns_Early ==
  /\ stop /\ ~stopReturned
  /\ exited # {}
  /\ stopReturned' = TRUE
  /\ UNCHANGED <<jobs, job, work, exited, stop>>

\* wp.wg.Wait()
StopReturns ==
  /\ stop /\ ~stopReturned
  /\ exited = Workers
  /\ stopReturned' = TRUE
  /\ UNCHANGED <<jobs, job, work, exited, stop>>

PoolNext ==
  \/ \E j \in Jobs : Call(j) \/ AddJob(j)
  \/ \E w \in Workers : Take(w) \/ RunReturns(w) \/ Exit(w)
  \/ Stop
  \/ StopReturns

PoolSpec == PoolInit /\ [][PoolNext]_poolVars

\* Workers run and jobs end; senders on a channel are served in turn.  Nothing
\* makes a caller post a job or call Stop.
FairPoolSpec ==
  /\ PoolSpec
  /\ \A j \in Jobs : SF_poolVars(AddJob(j))
  /\ \A w \in Workers : WF_poolVars(Take(w) \/ Exit(w)) /\ WF_poolVars(RunReturns(w))
  /\ WF_poolVars(StopReturns)

-----------------------------------------------------------------------------
\* The channel never holds more than its capacity.
PoolTypeOK ==
  /\ jobs \in Seq(Jobs) /\ Len(jobs) <= nWorkers
  /\ job \in [Jobs -> {"new", "posting", "queued", "running", "done"}]
  /\ work \in [Workers -> Jobs \cup {noJob}]
  /\ exited \subseteq Workers
  /\ stop \in BOOLEAN
  /\ stopReturned \in BOOLEAN

\* A queued job is in the channel, once, and a running job is on one worker
\* and no other: work's receive hands it to exactly one goroutine.
InOnePlace ==
  /\ \A j \in Jobs : job[j] = "queued" <=> \E i \in DOMAIN jobs : jobs[i] = j
  /\ \A j \in Jobs : job[j] = "running" <=> \E w \in Workers : work[w] = j
  /\ \A i, k \in DOMAIN jobs : jobs[i] = jobs[k] => i = k
  /\ \A v, w \in Workers : work[v] = work[w] /\ work[v] # noJob => v = w

\* Once Stop has returned no job runs, and none will: the wait group covers
\* every worker, and a worker leaves only between jobs.
StopIsFinal == stopReturned => \A j \in Jobs : job[j] # "running"

\* The inductive invariant: a worker leaves the pool only between jobs, and
\* Stop's wait ends only when all have left.
PoolInv ==
  /\ PoolTypeOK
  /\ InOnePlace
  /\ \A w \in exited : work[w] = noJob
  /\ stopReturned => exited = Workers

\* A caller of AddJob gets its answer unless the pool is stopped: a full
\* channel and busy workers only delay it.
EveryJobDone == \A j \in Jobs : job[j] = "posting" ~> (job[j] = "done" \/ stop)

\* Stop returns, however many jobs are still queued or posted.
StopEnds == stop ~> stopReturned
=============================================================================
