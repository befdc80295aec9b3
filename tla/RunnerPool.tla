----------------------------- MODULE RunnerPool -----------------------------
(***************************************************************************)
(* The CI runner (package runner): a pool of workers that register with    *)
(* the forge, fetch tasks, run each in a leased sandbox and report it; the *)
(* coordinator that scales the pool; the graceful stop; and the sweep of   *)
(* the job leases a crashed process left behind.                           *)
(*                                                                         *)
(* A worker is named by its number, which starts over with the process.    *)
(* A job's lease is named by its task.                                     *)
(***************************************************************************)
EXTENDS Naturals, FiniteSets

CONSTANTS
  Tasks,          \* tasks the forge hands out
  RpFloor, RpMax, ScaleStep,     \* PoolConfig
  Spawns,         \* bound: workers a process spawns
  RpScenarios     \* sets of events, one chosen per behaviour

RpEvents == {"crash", "stop", "cancel", "fetcherr", "createfail", "createlost", "scale",
             "reportfail", "deletefail", "sweepfail"}
ASSUME RpAssumption ==
  /\ {RpFloor, RpMax, ScaleStep, Spawns} \subseteq Nat \ {0}
  /\ RpFloor <= RpMax /\ RpMax <= Spawns /\ RpScenarios \subseteq SUBSET RpEvents

NoTask == "none"
Workers == 1 .. Spawns

VARIABLES
  task,       \* the forge: "waiting", "taken", or its reported result
  revoked,    \* tasks the forge has cancelled
  wk,         \* the workers
  nextid,     \* RunnerPool.nextID
  saved,      \* the state file: names with credentials
  leases,     \* the backend's leases labelled with a job
  co,         \* the coordinator's scale pass: [at, idle, total]
  stop,       \* "down", "up", and the phases of Stop: "drain", "wait", "returned"
  drain,      \* [cut: the jobs' context is cancelled, late: loops Stop did not wait out]
  slip,       \* history: [left: leases a failed call left, unsaid: tasks no report reached]
  rmay        \* the events that may still happen

rpvars == <<task, revoked, wk, nextid, saved, leases, co, stop, drain, slip, rmay>>
rpghost == <<drain, slip>>

\* A worker: where its loop is, its state, the job it has, who cancelled the job, the
\* createWait flag, whether a step has run, whether the pool counts it, whether the scaler
\* stopped it too late for it to notice, and whether it polls with restored credentials.
NoWorker == [at |-> "gone", st |-> "stopped", job |-> NoTask, cancel |-> "no", cw |-> FALSE,
             ran |-> FALSE, in |-> FALSE, raced |-> FALSE, restored |-> FALSE, result |-> "success"]
Spawned(w) ==
  [NoWorker EXCEPT !.in = TRUE, !.st = "idle", !.restored = w \in saved,
                   !.at = IF w \in saved THEN "top" ELSE "reg"]
NoPass == [at |-> "none", idle |-> {}, total |-> 0]
NoDrain == [cut |-> FALSE, late |-> {}]

RPInit ==
  /\ task = [j \in Tasks |-> "waiting"] /\ revoked = {} /\ wk = [w \in Workers |-> NoWorker]
  /\ nextid = 1 /\ saved = {} /\ leases = {} /\ co = NoPass /\ stop = "down"
  /\ drain = NoDrain /\ slip = [left |-> {}, unsaid |-> {}]
  /\ rmay \in RpScenarios

InPool == {w \in Workers : wk[w].in}
Stopping == stop \notin {"up", "down"}
Alive(w) == wk[w].at # "gone"

(***************************************************************************)
(* Start and spawn.                                                        *)
(***************************************************************************)
\* Mutant: the leases of the process before are left to their TTL.
NoSweepAtStart(ok) == {leases}

\* SweepOrphans with no keep: at start every lease labelled with a job is an orphan.  A
\* list or a delete that fails ends it, and what it had not reached stays.
SweptAtStart(ok) == IF ok THEN {{}} ELSE SUBSET leases

\* spawn, n times: none past Max.
SpawnTo(n, ws) ==
  LET new == {w \in Workers : w >= nextid /\ w < nextid + n}
  IN [w \in Workers |-> IF w \in new THEN Spawned(w) ELSE ws[w]]

PoolStart ==
  /\ stop = "down"
  /\ stop' = "up" /\ nextid' = 1 + RpFloor /\ co' = NoPass /\ drain' = NoDrain
  /\ \E ok \in {TRUE} \cup (IF "sweepfail" \in rmay THEN {FALSE} ELSE {}) :
       /\ leases' \in SweptAtStart(ok)
       /\ slip' = [slip EXCEPT !.left = IF ok THEN {} ELSE leases']
  /\ wk' = [w \in Workers |-> IF w <= RpFloor THEN Spawned(w) ELSE NoWorker]
  /\ UNCHANGED <<task, revoked, saved, rmay>>

(***************************************************************************)
(* worker.run.                                                             *)
(***************************************************************************)
Exits(w) == wk' = [wk EXCEPT ![w].at = "gone"]

\* registerFresh: not for a worker the scaler has stopped.
RegisterBegin(w) ==
  /\ wk[w].at = "reg"
  /\ IF Stopping \/ wk[w].st = "stopped" THEN Exits(w)
     ELSE wk' = [wk EXCEPT ![w].at = "registering"]
  /\ UNCHANGED <<task, revoked, nextid, saved, leases, co, stop, rmay, rpghost>>

\* Registered: the credentials are saved (onRegister), and the worker is idle.
Registered(w) ==
  /\ wk[w].at = "registering"
  /\ wk' = [wk EXCEPT ![w].at = "top", ![w].st = "idle"] /\ saved' = saved \cup {w}
  /\ UNCHANGED <<task, revoked, nextid, leases, co, stop, rmay, rpghost>>

\* The top of the loop: a stop of the pool or of this worker ends it.
PollTop(w) ==
  /\ wk[w].at = "top"
  /\ IF Stopping \/ wk[w].st = "stopped" THEN Exits(w)
     ELSE wk' = [wk EXCEPT ![w].at = "fetching"]
  /\ UNCHANGED <<task, revoked, nextid, saved, leases, co, stop, rmay, rpghost>>

\* Fetch answers with a task, if one waits, or with none; the worker does not look again
\* whether the scaler has stopped it.
FetchReply(w) ==
  /\ wk[w].at = "fetching"
  /\ \/ \E j \in Tasks :
          /\ task[j] = "waiting" /\ task' = [task EXCEPT ![j] = "taken"]
          /\ wk' = [wk EXCEPT ![w].at = "got", ![w].job = j, ![w].restored = FALSE]
     \/ /\ wk[w].st = "stopped" \/ \A j \in Tasks : task[j] # "waiting"
        /\ wk' = [wk EXCEPT ![w].at = "top"]
        /\ UNCHANGED task
  /\ UNCHANGED <<revoked, nextid, saved, leases, co, stop, rmay, rpghost>>

\* Fetch fails: restored credentials may be stale, so the worker registers anew, once.
FetchFails(w) ==
  /\ wk[w].at = "fetching" /\ "fetcherr" \in rmay /\ rmay' = rmay \ {"fetcherr"}
  /\ wk' = [wk EXCEPT ![w].at = IF wk[w].restored THEN "reg" ELSE "top",
                      ![w].restored = FALSE]
  /\ UNCHANGED <<task, revoked, nextid, saved, leases, co, stop, rpghost>>

\* A task in hand is not launched once the pool drains.
LaunchCheck(w) ==
  /\ wk[w].at = "got"
  /\ IF Stopping THEN Exits(w) ELSE wk' = [wk EXCEPT ![w].at = "checked"]
  /\ UNCHANGED <<task, revoked, nextid, saved, leases, co, stop, rmay, rpghost>>

\* setState(workerBusy), over whatever state was there, the job's context, and
\* Executor.Run up to Create.
Launch(w) ==
  /\ wk[w].at = "checked"
  /\ wk' = [wk EXCEPT ![w].at = "create", ![w].st = "busy", ![w].cw = TRUE,
                      ![w].cancel = IF drain.cut THEN "grace" ELSE "no",
                      ![w].ran = FALSE, ![w].result = "success"]
  /\ UNCHANGED <<task, revoked, nextid, saved, leases, co, stop, rmay, rpghost>>

(***************************************************************************)
(* Executor.Run.                                                           *)
(***************************************************************************)
\* The backend made the lease, or not, of a create whose answer does not count.
CreateGivenUp(w) ==
  \/ UNCHANGED <<leases, slip>>
  \/ /\ "createlost" \in rmay /\ leases' = leases \cup {wk[w].job}
     /\ slip' = [slip EXCEPT !.left = @ \cup {wk[w].job}]

\* Create returns: a lease, which capacity refusals only delay; a refusal or an error that
\* is final; or the cancellation of the job's context.
CreateDone(w) ==
  /\ wk[w].at = "create"
  /\ \/ /\ wk[w].cancel = "no" /\ leases' = leases \cup {wk[w].job}
        /\ wk' = [wk EXCEPT ![w].at = "created"] /\ UNCHANGED <<rmay, slip>>
     \/ /\ wk[w].cancel = "no" /\ "createfail" \in rmay /\ rmay' = rmay \ {"createfail"}
        /\ wk' = [wk EXCEPT ![w].at = "report", ![w].cw = FALSE, ![w].result = "failure"]
        /\ CreateGivenUp(w)
     \/ /\ wk[w].cancel # "no"
        /\ wk' = [wk EXCEPT ![w].at = "report", ![w].cw = FALSE, ![w].result = "cancelled"]
        /\ CreateGivenUp(w) /\ UNCHANGED rmay
  /\ UNCHANGED <<task, revoked, nextid, saved, co, stop, drain>>

\* setCreateWait(false), before the first step.
CreateWaitOver(w) ==
  /\ wk[w].at = "created"
  /\ wk' = [wk EXCEPT ![w].at = "steps", ![w].cw = FALSE, ![w].ran = wk[w].cancel = "no"]
  /\ UNCHANGED <<task, revoked, nextid, saved, leases, co, stop, rmay, rpghost>>

\* Mutant: what the steps made of it is reported even when the context ended.
FinalUnlessOk(how, c) == IF how = "success" /\ c # "no" THEN "cancelled" ELSE how

\* A context that ended makes the job cancelled, whatever its steps did.
Final(how, c) == IF c = "no" THEN how ELSE "cancelled"

\* The steps end, or the first that fails ends them.
StepsDone(w) ==
  /\ wk[w].at = "steps"
  /\ \E how \in {"success", "failure"} :
       wk' = [wk EXCEPT ![w].at = "report", ![w].result = Final(how, wk[w].cancel)]
  /\ UNCHANGED <<task, revoked, nextid, saved, leases, co, stop, rmay, rpghost>>

\* keepalive: the forge answers that the task is cancelled, and the job's context ends.
Keepalive(w) ==
  /\ wk[w].at \in {"create", "created", "steps"} /\ wk[w].cancel = "no"
  /\ wk[w].job \in revoked
  /\ wk' = [wk EXCEPT ![w].cancel = "server"]
  /\ UNCHANGED <<task, revoked, nextid, saved, leases, co, stop, rmay, rpghost>>


\* On a live context even when the job's own has ended.
Told(w) == [task EXCEPT ![wk[w].job] = wk[w].result]

\* report: one attempt, whose failure the worker logs.
Report(w) ==
  /\ wk[w].at = "report"
  /\ \/ task' = Told(w) /\ UNCHANGED slip
     \/ /\ "reportfail" \in rmay
        /\ slip' = [slip EXCEPT !.unsaid = @ \cup {wk[w].job}]
        /\ UNCHANGED task
  /\ wk' = [wk EXCEPT ![w].at = "release"]
  /\ UNCHANGED <<revoked, nextid, saved, leases, co, stop, drain, rmay>>

\* Mutant: a cancelled job keeps its sandbox.
ReleaseUnlessCancelled(w) == IF wk[w].cancel = "no" THEN leases \ {wk[w].job} ELSE leases

\* The deferred DeleteReason, on a context of its own.
Released(w) == leases \ {wk[w].job}

\* The release, whose failure is only logged, and the worker is idle again: setState
\* overwrites whatever was there.
JobOver(w) ==
  /\ wk[w].at = "release"
  /\ \/ leases' = Released(w) /\ UNCHANGED slip
     \/ /\ "deletefail" \in rmay /\ wk[w].job \in leases
        /\ slip' = [slip EXCEPT !.left = @ \cup {wk[w].job}]
        /\ UNCHANGED leases
  /\ wk' = [wk EXCEPT ![w].at = "top", ![w].st = "idle", ![w].job = NoTask, ![w].cw = FALSE,
                      ![w].cancel = "no", ![w].ran = FALSE, ![w].result = "success"]
  /\ UNCHANGED <<task, revoked, nextid, saved, co, stop, drain, rmay>>

(***************************************************************************)
(* The coordinator.                                                        *)
(***************************************************************************)
\* scale reads the pool under its lock, and acts on what it read.
ScaleRead ==
  /\ stop = "up" /\ "scale" \in rmay /\ co.at = "none"
  /\ co' = [at |-> "act", total |-> Cardinality(InPool),
            idle |-> {w \in InPool : wk[w].st = "idle"}]
  /\ UNCHANGED <<task, revoked, wk, nextid, saved, leases, stop, rmay, rpghost>>

BusyCount == Cardinality({w \in InPool : wk[w].st = "busy"})

\* How many workers a pass adds: none past Max.
ToAdd(total) == IF total + ScaleStep > RpMax THEN RpMax - total ELSE ScaleStep

\* Every worker was busy: more of them (spawn checks Max again, and the stop).
ScaleUp ==
  /\ co.at = "act" /\ co.idle = {} /\ co.total # 0 /\ co.total < RpMax /\ co' = NoPass
  /\ LET room == RpMax - Cardinality(InPool)
         n == IF ToAdd(co.total) < room THEN ToAdd(co.total) ELSE room IN
     IF stop = "up" /\ n > 0 /\ nextid + n <= Spawns + 1
     THEN wk' = SpawnTo(n, wk) /\ nextid' = nextid + n
     ELSE UNCHANGED <<wk, nextid>>
  /\ UNCHANGED <<task, revoked, saved, leases, stop, rmay, rpghost>>

\* Mutant: a removed worker is not told.
RemovedOnly(w) == [wk EXCEPT ![w].in = FALSE]

\* stop(w): the worker is marked stopped and leaves the pool.
StopMark(w) == [wk EXCEPT ![w].in = FALSE, ![w].st = "stopped"]

\* The worker is past its last look at its own state: it may still launch a job, and
\* will set its state over the mark.
PastItsLook(w) == wk[w].at \notin {"reg", "top", "gone"}

\* stop(w) for a worker that was idle when the pass read it; the runner is deregistered
\* and its credentials leave the state file.
ScaleDown(w) ==
  /\ co.at = "act" /\ w \in co.idle /\ co.total > RpFloor /\ w \in InPool
  /\ wk' = [StopMark(w) EXCEPT ![w].raced = PastItsLook(w)] /\ saved' = saved \ {w}
  /\ co' = [co EXCEPT !.idle = @ \ {w}, !.total = @ - 1]
  /\ UNCHANGED <<task, revoked, nextid, leases, stop, rmay, rpghost>>

\* The pass ends: nothing to do, the floor, or workers not idle for long enough.
ScaleEnd ==
  /\ co.at = "act" /\ co' = NoPass
  /\ UNCHANGED <<task, revoked, wk, nextid, saved, leases, stop, rmay, rpghost>>

(***************************************************************************)
(* Stop.                                                                   *)
(***************************************************************************)
\* Mutant: a job is cancelled for being in a sandbox's way, not for waiting for one.
CancelBusy(w) == wk[w].st = "busy" /\ wk[w].at # "release"

\* A job still waiting for its sandbox: read and cancelled under the worker's lock.
CancelWaiting(w) == wk[w].cw

\* cancelWaitingJobs.
WaitersCancelled ==
  [w \in Workers |-> IF w \in InPool /\ CancelWaiting(w) /\ wk[w].cancel = "no"
                     THEN [wk[w] EXCEPT !.cancel = "wait"] ELSE wk[w]]

\* The stop channel closes; a worker past its last look at it still launches its job.
StopBegin ==
  /\ stop = "up" /\ "stop" \in rmay /\ stop' = "drain" /\ rmay' = rmay \ {"stop"}
  /\ UNCHANGED <<task, revoked, wk, nextid, saved, leases, co, rpghost>>

\* A round of the wait: the waiting jobs are cancelled again.
StopRound ==
  /\ stop = "drain" /\ wk' = WaitersCancelled /\ wk' # wk
  /\ UNCHANGED <<task, revoked, nextid, saved, leases, co, stop, rmay, rpghost>>

\* No worker is busy.
StopIdle ==
  /\ stop = "drain" /\ BusyCount = 0 /\ stop' = "wait"
  /\ UNCHANGED <<task, revoked, wk, nextid, saved, leases, co, rmay, rpghost>>

\* The grace is spent: every running job's context ends.
GraceSpent ==
  /\ stop = "drain" /\ BusyCount > 0 /\ stop' = "wait" /\ drain' = [drain EXCEPT !.cut = TRUE]
  /\ wk' = [w \in Workers |->
              IF wk[w].at \in {"create", "created", "steps"} /\ wk[w].cancel = "no"
              THEN [wk[w] EXCEPT !.cancel = "grace"] ELSE wk[w]]
  /\ UNCHANGED <<task, revoked, nextid, saved, leases, co, slip, rmay>>

\* Mutant: the wait is for the workers that are busy.
LoopsIdle == BusyCount = 0

\* Every worker loop of the pool has ended.
LoopsEnded == \A w \in InPool : ~Alive(w)

StopReturns ==
  /\ stop = "wait" /\ LoopsEnded /\ stop' = "returned"
  /\ UNCHANGED <<task, revoked, wk, nextid, saved, leases, co, rmay, rpghost>>

\* Stop returns without the loops that have not ended after thirty seconds.
WaitTimesOut ==
  /\ stop = "wait" /\ ~LoopsEnded /\ stop' = "returned"
  /\ drain' = [drain EXCEPT !.late = {w \in InPool : Alive(w)}]
  /\ UNCHANGED <<task, revoked, wk, nextid, saved, leases, co, slip, rmay>>

\* The process is gone, its leases stay, and so does the state file.
ProcessGone ==
  /\ stop' = "down" /\ wk' = [w \in Workers |-> NoWorker] /\ co' = NoPass /\ nextid' = 1
  /\ UNCHANGED <<task, revoked, saved, leases, rpghost>>

\* Stop has returned, and the process ends whatever still runs in it.
RunnerExits == stop = "returned" /\ ProcessGone /\ UNCHANGED rmay

\* The process ends without Stop.
RunnerCrash ==
  /\ stop # "down" /\ "crash" \in rmay /\ rmay' = rmay \ {"crash"} /\ ProcessGone

\* Someone cancels a task on the forge.
ForgeCancels(j) ==
  /\ "cancel" \in rmay /\ rmay' = rmay \ {"cancel"}
  /\ task[j] = "taken" /\ revoked' = revoked \cup {j}
  /\ UNCHANGED <<task, wk, nextid, saved, leases, co, stop, rpghost>>

WorkerStep(w) ==
  \/ RegisterBegin(w) \/ Registered(w) \/ PollTop(w) \/ FetchReply(w) \/ LaunchCheck(w)
  \/ Launch(w) \/ CreateDone(w) \/ CreateWaitOver(w) \/ StepsDone(w) \/ Report(w)
  \/ JobOver(w)

RPNext ==
  \/ PoolStart \/ ScaleRead \/ ScaleUp \/ ScaleEnd \/ StopBegin \/ StopRound \/ StopIdle
  \/ GraceSpent \/ StopReturns \/ WaitTimesOut \/ RunnerCrash \/ RunnerExits
  \/ \E w \in Workers : WorkerStep(w) \/ FetchFails(w) \/ Keepalive(w) \/ ScaleDown(w)
  \/ \E j \in Tasks : ForgeCancels(j)

RPSpec == RPInit /\ [][RPNext]_rpvars

(***************************************************************************)
(* Properties.                                                             *)
(***************************************************************************)
\* Every lease labelled with a job belongs to a worker that runs the job, or to a call
\* that failed in this process: a cancelled, failed or drained job gives its sandbox back,
\* and the next start sweeps what a crash, a failed release or an earlier sweep left (the
\* deferred release, SweepOrphans).
LeaseHasItsJob ==
  stop # "down" =>
    \A j \in leases \ slip.left : \E w \in Workers :
      wk[w].job = j /\ wk[w].at \in {"created", "steps", "report", "release"}

Running == {w \in Workers : wk[w].at \in {"checked", "create", "created", "steps", "report",
                                          "release"}}

\* When Stop returns no job goes on, and by LeaseHasItsJob none holds a sandbox, except in
\* a loop it waited thirty seconds for in vain or one the scaler stopped too late (Stop's
\* wait for the worker loops).
StopLeavesNothing ==
  stop = "returned" =>
    \A w \in Running : w \in drain.late \/ (wk[w].raced /\ ~wk[w].in)

\* The drain cancels only a job that has no sandbox yet: a running step keeps its grace
\* (cancelWaitingJobs and setCreateWait under the worker's lock).
DrainSparesRunning == \A w \in Workers : wk[w].cancel = "wait" => ~wk[w].ran

\* A worker that runs a job is one the pool counts, unless the scaler stopped it between
\* its last look at its state and the end of a job: such a worker sets its state over the
\* mark and polls on, uncounted; one stopped in time takes no further job (stop, run).
RunningIsCounted == \A w \in Running : wk[w].in \/ wk[w].raced

\* A job whose context ended, by the drain, the forge or the spent grace, is reported as
\* cancelled and as nothing else (Run's last look at its context, report).
CancelledSaysSo ==
  \A w \in Workers : wk[w].at = "release" /\ wk[w].cancel # "no"
                       => wk[w].result = "cancelled"

\* A launched task is reported, unless its process ended or its one report failed: no
\* error path, cancellation or drain ends a job in silence (fail, report).
LaunchedIsReported ==
  \A j \in Tasks :
    (\E w \in Workers : wk[w].job = j /\ wk[w].at = "create")
      ~> (task[j] \notin {"waiting", "taken"} \/ stop = "down" \/ j \in slip.unsaid)

\* Stop returns, whatever the jobs it finds running do (the grace, the cap on the wait).
StopEnds == (stop = "drain") ~> (stop \in {"returned", "down"})

=============================================================================
