--------------------------------- MODULE Jobs ---------------------------------
(***************************************************************************)
(* Background jobs of one lease (api/jobs.go, api/jobs_http.go,            *)
(* store/jobs.go, store/ended_jobs.go).  A job is a process in the guest   *)
(* and a row in the store.  Its end is settled by whoever sees it first:   *)
(* the stream's watcher, a waiting request, the reconcile pass, the        *)
(* runtime cap, a restart of the lease or its release.                     *)
(***************************************************************************)
EXTENDS Integers, FiniteSets, Sequences

CONSTANTS
  Jobs, MaxRunning,
  JbScenarios    \* what may happen: subsets of JbEvents

JbEvents == {"many", "wait", "spend", "restart", "lose", "release", "crash", "dbfail", "never", "delete"}

ASSUME JobsAssumption == MaxRunning \in Nat /\ JbScenarios \subseteq SUBSET JbEvents

VARIABLES
  proc,     \* [Jobs -> the guest's process: at, vm]
  row,      \* [Jobs -> lease_jobs: st, gen, reason]
  ended,    \* [Jobs -> ended_jobs: a state or "none"]
  start,    \* [Jobs -> where its startJob is]
  agent,    \* [who may settle a job -> at, j, todo, how]
  timing,   \* Service.timingOut
  spent,    \* jobs whose runtime is spent
  count,    \* leaseStore.runningJobs of the lease
  gauge,    \* metrics.JobsRunning
  told,     \* [Jobs -> terminal events emitted]
  jl,       \* the lease: st, busy, lost, gen, its guest vm, and whether that is up
  slip,     \* what the books miss, for the properties: jobs ended twice, untold, unarchived,
            \* started across a restart, and how many ends found no start counted
  jmay      \* what may still happen in this behaviour

jbvars == <<proc, row, ended, start, agent, timing, spent, count, gauge, told, jl, slip, jmay>>
book == <<count, gauge, told>>
guest == <<proc, spent>>

Helpers == {"waiter", "reconciler", "restart"}
Agents == Jobs \cup Helpers
Idler == [at |-> "idle", todo |-> {}, j |-> "none", how |-> "none"]
RunningRows == {j \in Jobs : row[j].st = "running"}
Once(e) == e \in jmay /\ jmay' = jmay \ {e}

JBInit ==
  /\ proc = [j \in Jobs |-> [at |-> "none", vm |-> 0]]
  /\ row = [j \in Jobs |-> [st |-> "none", gen |-> 0, reason |-> "none"]]
  /\ ended = [j \in Jobs |-> "none"]
  /\ start = [j \in Jobs |-> "idle"]
  /\ agent = [a \in Agents |-> Idler]
  /\ timing = {} /\ spent = {} /\ count = 0 /\ gauge = 0
  /\ told = [j \in Jobs |-> 0]
  /\ jl = [st |-> "live", busy |-> FALSE, lost |-> FALSE, gen |-> 0, vm |-> 0, up |-> TRUE]
  /\ slip = [twice |-> {}, untold |-> {}, unarchived |-> {}, across |-> {}, uncounted |-> 0]
  /\ jmay \in JbScenarios

-----------------------------------------------------------------------------
(* startJob.                                                               *)

\* The request passed the gate of a lease at work.
StartAsked(j) ==
  /\ start[j] = "idle" /\ jl.st = "live" /\ ~jl.busy /\ ~jl.lost
  /\ "many" \in jmay \/ \A k \in Jobs : start[k] = "idle"
  /\ start' = [start EXCEPT ![j] = "asked"]
  /\ UNCHANGED <<guest, row, ended, agent, timing, book, jl, slip, jmay>>

\* Mutant: the starts of a lease are not serialised.
NoStartLock(j) == TRUE

\* acquireJobStart: one start of a lease at a time.
StartLock(j) == \A k \in Jobs : start[k] \in {"idle", "asked", "over"}

\* The cap is read under the start lock; a refused start leaves nothing.
StartCount(j) ==
  /\ start[j] = "asked" /\ StartLock(j)
  /\ start' = [start EXCEPT ![j] = IF Cardinality(RunningRows) >= MaxRunning THEN "over" ELSE "counted"]
  /\ UNCHANGED <<guest, row, ended, agent, timing, book, jl, slip, jmay>>

\* substrate.Start: the process is in the guest the lease has now.
StartProcess(j) ==
  /\ start[j] = "counted" /\ jl.up
  /\ \/ proc' = [proc EXCEPT ![j] = [at |-> "up", vm |-> jl.vm]] /\ UNCHANGED jmay
     \/ proc' = [proc EXCEPT ![j] = [at |-> "never", vm |-> jl.vm]] /\ Once("never")
  /\ start' = [start EXCEPT ![j] = "started"]
  /\ UNCHANGED <<spent, row, ended, agent, timing, book, jl, slip>>

StartFail(j) ==
  /\ start[j] = "counted" /\ ~jl.up
  /\ start' = [start EXCEPT ![j] = "over"]
  /\ UNCHANGED <<guest, row, ended, agent, timing, book, jl, jmay, slip>>

\* InsertJob: without the lease's row it fails, and the process is signalled.
StartInsert(j) ==
  /\ start[j] = "started"
  /\ IF jl.st = "gone"
     THEN start' = [start EXCEPT ![j] = "over"] /\ UNCHANGED <<row, slip>>
     ELSE /\ slip' = [slip EXCEPT !.unarchived = IF jl.st \in {"archived", "settled"} THEN @ \cup {j} ELSE @,
                                 !.untold = IF jl.st = "settled" THEN @ \cup {j} ELSE @]
          /\ row' = [row EXCEPT ![j] = [st |-> "running", gen |-> jl.gen, reason |-> "none"]]
          /\ start' = [start EXCEPT ![j] = "inserted"]
  /\ UNCHANGED <<guest, ended, agent, timing, book, jl, jmay>>

\* The gauge and runningJobs go up, and the watcher is started.
StartDone(j) ==
  /\ start[j] = "inserted"
  /\ gauge' = gauge + 1 /\ count' = count + 1
  /\ start' = [start EXCEPT ![j] = "over"]
  /\ agent' = [agent EXCEPT ![j] = [Idler EXCEPT !.at = "watch", !.j = j]]
  /\ UNCHANGED <<guest, row, ended, timing, told, jl, jmay, slip>>

-----------------------------------------------------------------------------
(* The guest.                                                              *)

\* The wrapper writes rc; the process is the current guest's.
ProcExit(j) ==
  /\ proc[j].at = "up"
  /\ proc' = [proc EXCEPT ![j].at = "done"]
  /\ UNCHANGED <<spent, row, ended, start, agent, timing, book, jl, jmay, slip>>

SpendRuntime(j) ==
  /\ "spend" \in jmay /\ j \notin spent /\ row[j].st = "running"
  /\ spent' = spent \cup {j}
  /\ UNCHANGED <<proc, row, ended, start, agent, timing, book, jl, jmay, slip>>

Exited(j) == proc[j].at \in {"done", "killed"} /\ proc[j].vm = jl.vm /\ jl.up

-----------------------------------------------------------------------------
(* Settling: one UPDATE ... WHERE state='running', then the bookkeeping.   *)

\* Mutant: the row is written whatever its state.
Overwrites(j) == TRUE

\* rowsChanged: the row was still running.
StillRunning(j) == row[j].st = "running"

BackTo(a) == IF a \in {"reconciler", "restart"} THEN "pick" ELSE "idle"

\* The write of agent a; it may fail, and then nothing follows it here.
Settle(a, st, reason) ==
  LET j == agent[a].j
  IN /\ \/ /\ Once("dbfail")
           /\ agent' = [agent EXCEPT ![a].at = BackTo(a)]
           /\ UNCHANGED <<row, timing, slip>>
        \/ /\ timing' = timing \ {j}
           /\ IF row[j].st # "none" /\ StillRunning(j)
              THEN /\ row' = [row EXCEPT ![j].st = st, ![j].reason = reason]
                   /\ agent' = [agent EXCEPT ![a].at = "book"]
                   /\ slip' = [slip EXCEPT !.untold = @ \ {j},
                                           !.twice = IF jl.st = "settled" THEN @ \cup ({j} \ slip.untold) ELSE @]
              ELSE UNCHANGED <<row, slip>> /\ agent' = [agent EXCEPT ![a].at = BackTo(a)]
           /\ UNCHANGED jmay
     /\ UNCHANGED <<guest, ended, start, book, jl>>

\* Mutant: the lease's entry goes with the first job that ends.
DropCount == 0

\* decRunningJob.
DecRunning == IF count <= 1 THEN 0 ELSE count - 1

\* The event, the gauge and the count.
Book(a) ==
  /\ agent[a].at = "book"
  /\ told' = [told EXCEPT ![agent[a].j] = @ + 1]
  /\ gauge' = gauge - 1
  /\ count' = DecRunning
  /\ slip' = [slip EXCEPT !.uncounted = IF count = 0 THEN @ + 1 ELSE @]
  /\ agent' = [agent EXCEPT ![a].at = BackTo(a)]
  /\ UNCHANGED <<guest, row, ended, start, timing, jl, jmay>>

\* Mutant: the runtime cap's flag is not looked at.
NeverTiming(j) == FALSE

\* jobIsTimingOut.
IsTiming(j) == j \in timing

\* finishJob: an exit the runtime cap has flagged is left to it.
FinishJob(a) ==
  /\ agent[a].at = "exit"
  /\ IF IsTiming(agent[a].j)
     THEN agent' = [agent EXCEPT ![a].at = BackTo(a)]
          /\ UNCHANGED <<guest, row, ended, start, timing, book, jl, jmay, slip>>
     ELSE Settle(a, "exited", agent[a].how)

\* markJobLostReason.
MarkJobLost(a) == agent[a].at = "lost" /\ Settle(a, "lost", agent[a].how)

\* finishJobTimedOut.
FinishTimedOut(a) == agent[a].at = "timed" /\ Settle(a, "exited", "timed_out")

-----------------------------------------------------------------------------
(* The watcher and a waiting request: finishJobFromGuest.                  *)

ReadRC(a, j) == agent' = [agent EXCEPT ![a].at = "exit", ![a].j = j, ![a].how = proc[j].at]

\* EventExit; the stream may also just end, and then nobody watches.
WatchJob(j) ==
  /\ agent[j].at = "watch"
  /\ \/ Exited(j) /\ ReadRC(j, j)
     \/ agent' = [agent EXCEPT ![j] = Idler]
  /\ UNCHANGED <<guest, row, ended, start, timing, book, jl, jmay, slip>>

\* GET with wait: polls rc while the row runs.
WaitJob(j) ==
  /\ "wait" \in jmay /\ agent["waiter"].at = "idle"
  /\ row[j].st = "running" /\ Exited(j)
  /\ ReadRC("waiter", j)
  /\ UNCHANGED <<guest, row, ended, start, timing, book, jl, jmay, slip>>

-----------------------------------------------------------------------------
(* reconcileJobs.                                                          *)

\* The running rows are listed, and flags of jobs not among them dropped.
ReconcileList ==
  /\ agent["reconciler"].at = "idle" /\ RunningRows # {}
  /\ agent' = [agent EXCEPT !["reconciler"] = [Idler EXCEPT !.at = "pick", !.todo = RunningRows]]
  /\ timing' = timing \cap RunningRows
  /\ UNCHANGED <<guest, row, ended, start, book, jl, jmay, slip>>

\* Mutant: a job that never wrote its pid is left running.
NeverNoticed(j) == FALSE

\* jobNeverStarted: no pid file a minute later, in a guest that answers.
NeverStarted(j) == proc[j].at = "never" \/ proc[j].vm # jl.vm

\* Mutant: off by one.
SameGeneration(j) == jl.gen >= row[j].gen

\* The lease's guest is a later one than the job's.
OldGeneration(j) == jl.gen > row[j].gen

\* One job: lost with its generation or its lease, left while the lease is busy, killed
\* over its runtime, else settled by its rc or as never started.
ReconcileJob(j) ==
  LET Go(where, how) ==
        agent' = [agent EXCEPT !["reconciler"] = [at |-> where, j |-> j, how |-> how, todo |-> @.todo \ {j}]]
  IN /\ agent["reconciler"].at = "pick" /\ j \in agent["reconciler"].todo
     /\ \/ jl.st # "live" /\ Go("pick", "none")
        \/ jl.st = "live" /\ (OldGeneration(j) \/ jl.lost) /\ Go("lost", "generation")
        \/ jl.st = "live" /\ ~OldGeneration(j) /\ ~jl.lost /\ jl.busy /\ Go("pick", "none")
        \/ /\ jl.st = "live" /\ ~OldGeneration(j) /\ ~jl.lost /\ ~jl.busy
           /\ \/ j \in spent /\ Go(IF IsTiming(j) THEN "timed" ELSE "kill", "none")
              \/ j \notin spent /\ Exited(j) /\ Go("exit", proc[j].at)
              \/ j \notin spent /\ NeverStarted(j) /\ Go("lost", "never_started")
              \/ j \notin spent /\ ~Exited(j) /\ ~NeverStarted(j) /\ Go("pick", "none")
     /\ UNCHANGED <<guest, row, ended, start, timing, book, jl, jmay, slip>>

\* killJobTimeout: flagged before the signal, so that the exit the signal
\* makes is not recorded as the command's own.
KillMark ==
  /\ agent["reconciler"].at = "kill"
  /\ timing' = timing \cup {agent["reconciler"].j}
  /\ agent' = [agent EXCEPT !["reconciler"].at = "signal"]
  /\ UNCHANGED <<guest, row, ended, start, book, jl, jmay, slip>>

\* A signal that finds no process clears the flag and reads rc instead.
KillSignal ==
  LET j == agent["reconciler"].j
      Goes(where, how) == agent' = [agent EXCEPT !["reconciler"].at = where, !["reconciler"].how = how]
  IN /\ agent["reconciler"].at = "signal"
     /\ IF proc[j].at = "up" /\ proc[j].vm = jl.vm /\ jl.up
        THEN proc' = [proc EXCEPT ![j].at = "killed"] /\ Goes("timed", "none") /\ UNCHANGED timing
        ELSE /\ timing' = timing \ {j} /\ UNCHANGED proc
             /\ \/ Exited(j) /\ Goes("exit", proc[j].at)
                \/ ~Exited(j) /\ jl.up /\ NeverStarted(j) /\ Goes("lost", "never_started")
                \/ ~Exited(j) /\ ~(jl.up /\ NeverStarted(j)) /\ Goes("pick", "none")
     /\ UNCHANGED <<spent, row, ended, start, book, jl, jmay, slip>>

\* The pass, or a restart's marking, is through its list.
PassDone(a) ==
  /\ a \in {"reconciler", "restart"} /\ agent[a].at = "pick" /\ agent[a].todo = {}
  /\ agent' = [agent EXCEPT ![a] = Idler]
  /\ jl' = IF a = "restart" THEN [jl EXCEPT !.busy = FALSE] ELSE jl
  /\ UNCHANGED <<guest, row, ended, start, timing, book, jmay, slip>>

-----------------------------------------------------------------------------
(* A cold restart or restore of the lease: a new guest, then               *)
(* markLeaseJobsLost.                                                      *)

InFlight(j) == start[j] \in {"asked", "counted", "started", "inserted"}
Crossing == [slip EXCEPT !.across = @ \cup {j \in Jobs : InFlight(j)}]

RestartBegin ==
  /\ jl.st = "live" /\ ~jl.busy /\ ~jl.lost /\ Once("restart")
  /\ jl' = [jl EXCEPT !.busy = TRUE, !.up = FALSE, !.vm = @ + 1]
  /\ slip' = Crossing
  /\ UNCHANGED <<guest, row, ended, start, agent, timing, book>>

\* A recovery's guest has the lease's sandbox id before its generation counts.
RestartUp ==
  /\ jl.busy /\ ~jl.up /\ jl.st = "live" /\ ~jl.lost
  /\ jl' = [jl EXCEPT !.up = TRUE]
  /\ UNCHANGED <<guest, row, ended, start, agent, timing, book, slip, jmay>>

\* A lease released meanwhile keeps no new guest.
RestartCommit ==
  /\ jl.busy /\ agent["restart"].at = "idle" /\ ~jl.lost
  /\ IF jl.st = "live"
     THEN /\ jl' = [jl EXCEPT !.gen = @ + 1, !.up = TRUE]
          /\ agent' = [agent EXCEPT !["restart"].at = "list"]
     ELSE jl' = [jl EXCEPT !.busy = FALSE, !.up = FALSE] /\ UNCHANGED agent
  /\ UNCHANGED <<guest, row, ended, start, timing, book, slip, jmay>>

\* loseRecovery: the guest is gone and the recovery gives up.
LoseLease ==
  /\ jl.st = "live" /\ ~jl.busy /\ ~jl.lost /\ Once("lose")
  /\ jl' = [jl EXCEPT !.busy = TRUE, !.lost = TRUE, !.up = FALSE, !.vm = @ + 1]
  /\ agent' = [agent EXCEPT !["restart"].at = "list"]
  /\ slip' = Crossing
  /\ UNCHANGED <<guest, row, ended, start, timing, book>>

\* markLeaseJobsLost, after the lease's lock was let go.
RestartList ==
  /\ agent["restart"].at = "list"
  /\ agent' = [agent EXCEPT !["restart"].at = "pick", !["restart"].todo = RunningRows]
  /\ UNCHANGED <<guest, row, ended, start, timing, book, jl, jmay, slip>>

RestartPick(j) ==
  /\ agent["restart"].at = "pick" /\ j \in agent["restart"].todo
  /\ agent' = [agent EXCEPT !["restart"] =
                 [at |-> "lost", j |-> j, how |-> "restarted", todo |-> @.todo \ {j}]]
  /\ UNCHANGED <<guest, row, ended, start, timing, book, jl, jmay, slip>>

-----------------------------------------------------------------------------
(* The lease's release, and the end of records.                            *)

Release ==
  /\ jl.st = "live" /\ Once("release")
  /\ jl' = [jl EXCEPT !.st = "released"]
  /\ UNCHANGED <<guest, row, ended, start, agent, timing, book, slip>>

\* Mutant: rows that still run are not archived.
EndedOnly(j) == IF row[j].st = "running" THEN "none" ELSE row[j].st

\* ArchiveJobsOfLease: what still runs is archived as lost.
Archived(j) == IF row[j].st = "running" THEN "lost" ELSE row[j].st

\* The copy is one transaction, and its failure does not hold up the release.
ReleaseArchive ==
  /\ jl.st = "released"
  /\ jl' = [jl EXCEPT !.st = "archived"]
  /\ \/ /\ ended' = [j \in Jobs |-> IF ended[j] = "none" THEN Archived(j) ELSE ended[j]]
        /\ UNCHANGED <<slip, jmay>>
     \/ /\ Once("dbfail")
        /\ slip' = [slip EXCEPT !.unarchived = {j \in Jobs : row[j].st # "none"}]
        /\ UNCHANGED ended
  /\ UNCHANGED <<guest, row, start, agent, timing, book>>

\* The sandbox is deleted, then settleJobsOfReleasedLease; the rows stay as
\* they are.
ReleaseSettle ==
  /\ jl.st = "archived"
  /\ jl' = [jl EXCEPT !.st = "settled", !.up = FALSE, !.vm = @ + 1]
  /\ \/ /\ told' = [j \in Jobs |-> IF row[j].st = "running" THEN told[j] + 1 ELSE told[j]]
        /\ gauge' = gauge - Cardinality(RunningRows)
        /\ UNCHANGED <<slip, jmay>>
     \/ /\ Once("dbfail")
        /\ slip' = [slip EXCEPT !.untold = @ \cup RunningRows]
        /\ UNCHANGED <<told, gauge>>
  /\ UNCHANGED <<guest, row, ended, start, agent, timing, count>>

\* The lease's row goes and its jobs' rows with it.
ReleaseDelete ==
  /\ jl.st = "settled"
  /\ jl' = [jl EXCEPT !.st = "gone"]
  /\ row' = [j \in Jobs |-> [row[j] EXCEPT !.st = "none"]]
  /\ count' = 0
  /\ UNCHANGED <<guest, ended, start, agent, timing, gauge, told, jmay, slip>>

\* DELETE of a job: only of one that has ended.
ForgetJob(j) ==
  /\ "delete" \in jmay /\ jl.st = "live" /\ row[j].st \in {"exited", "lost"}
  /\ row' = [row EXCEPT ![j].st = "none"]
  /\ UNCHANGED <<guest, ended, start, agent, timing, book, jl, jmay, slip>>

\* ListExpiredJobs and PruneLostJobs: a running row never ages.
Prunable == {j \in Jobs : row[j].st \in {"exited", "lost"}}

\* pruneJobs: whatever has outlived its retention.
PruneJobs ==
  /\ "delete" \in jmay /\ jl.st # "gone"
  /\ \E old \in SUBSET Prunable \ {{}} :
       row' = [j \in Jobs |-> IF j \in old THEN [row[j] EXCEPT !.st = "none"] ELSE row[j]]
  /\ UNCHANGED <<guest, ended, start, agent, timing, book, jl, jmay, slip>>

\* PruneEndedJobs.
ForgetEnded(j) ==
  /\ "delete" \in jmay /\ jl.st = "gone" /\ ended[j] # "none"
  /\ ended' = [ended EXCEPT ![j] = "none"]
  /\ UNCHANGED <<guest, row, start, agent, timing, book, jl, jmay, slip>>

\* The backend restarts: loadRunningJobsLocked counts the rows again.
CrashBackend ==
  /\ "crash" \in jmay /\ jmay' = (jmay \ {"crash"}) \cup {"crashed"}
  /\ jl.st = "live" /\ ~jl.busy
  /\ agent' = [a \in Agents |-> Idler]
  /\ start' = [j \in Jobs |-> IF start[j] = "idle" THEN "idle" ELSE "over"]
  /\ timing' = {}
  /\ count' = Cardinality(RunningRows) /\ gauge' = Cardinality(RunningRows)
  /\ slip' = [slip EXCEPT !.uncounted = 0, !.twice = {}, !.untold = {}]
  /\ UNCHANGED <<guest, row, ended, told, jl>>

-----------------------------------------------------------------------------
Starts(j) == StartAsked(j) \/ StartCount(j) \/ StartProcess(j) \/ StartFail(j) \/ StartInsert(j) \/ StartDone(j)
Settles(a) == FinishJob(a) \/ MarkJobLost(a) \/ FinishTimedOut(a) \/ Book(a)
Reconciles == ReconcileList \/ (\E j \in Jobs : ReconcileJob(j)) \/ KillMark \/ KillSignal \/ PassDone("reconciler")
Restarts == RestartUp \/ RestartCommit \/ RestartList \/ (\E j \in Jobs : RestartPick(j)) \/ PassDone("restart")
Releases == ReleaseArchive \/ ReleaseSettle \/ ReleaseDelete

JBNext ==
  \/ \E j \in Jobs : \/ Starts(j) \/ ProcExit(j) \/ SpendRuntime(j) \/ WatchJob(j) \/ WaitJob(j)
                     \/ ForgetJob(j) \/ ForgetEnded(j)
  \/ \E a \in Agents : Settles(a)
  \/ Reconciles \/ RestartBegin \/ LoseLease \/ Restarts \/ Release \/ Releases \/ PruneJobs \/ CrashBackend

JBSpec == JBInit /\ [][JBNext]_jbvars

-----------------------------------------------------------------------------
Quiet == /\ \A a \in Agents : agent[a].at \in {"idle", "watch", "pick", "list"}
         /\ \A j \in Jobs : start[j] \in {"idle", "asked", "counted", "over"}
         /\ jl.st \in {"live", "gone"}

\* The cap on running jobs holds however starts, exits and restarts meet
\* (startJob's count under the per-lease start lock).
JobCap == Cardinality(RunningRows) <= MaxRunning

\* A job ends once: one terminal event whoever settles it, and the gauge agrees
\* with the rows (finishJob, markJobLostReason, settleJobsOfReleasedLease).
\* The release settles without writing the rows: a job whose end is recorded
\* between that and their deletion ends twice, and a row that it did not read
\* goes without an event.
EndsOnce ==
  /\ \A j \in Jobs : told[j] <= IF j \in slip.twice THEN 2 ELSE 1
  /\ Quiet => gauge + Cardinality(slip.twice) = Cardinality(RunningRows) + Cardinality(slip.untold)

\* The count the idle sweeps read is the number of running jobs.  A job that
\* the reconcile pass ends before its start has counted it is counted
\* afterwards, and for good: decRunningJob stops at zero.
CountExact == Quiet /\ jl.st = "live" => count = Cardinality(RunningRows) + slip.uncounted

\* A job called lost does not run in the lease's guest, unless its start went
\* on across a restart and reached the new guest before the jobs were marked.
LostIsGone ==
  \A j \in Jobs \ slip.across :
    row[j].st = "lost" => ~(proc[j].at = "up" /\ proc[j].vm = jl.vm /\ jl.up)

\* A job the runtime cap killed is recorded as timed out, not by the exit its
\* kill produced, unless the backend restarted in between.
KilledIsTimedOut ==
  \A j \in Jobs : row[j].st = "exited" /\ row[j].reason = "killed" => "crashed" \in jmay

\* Every job whose row the release found is in the archive when the rows go,
\* and none of them as running (archiveJobsOfReleasedLease); a copy that fails
\* and a start that comes after it are not.
ArchiveComplete ==
  [][jl.st = "settled" /\ jl'.st = "gone" =>
       \A j \in Jobs \ slip.unarchived : row[j].st # "none" => ended[j] \in {"exited", "lost"}]_jbvars

\* A job whose process has ended does not stay running: the reconcile pass
\* settles what the watcher missed.
JobSettles ==
  \A j \in Jobs : (row[j].st = "running" /\ proc[j].at # "up") ~> row[j].st # "running"

-----------------------------------------------------------------------------
(***************************************************************************)
(* The output cap of one stream of a background job (capJobStream in       *)
(* api/jobs.go): the poller punches out the front of a stream that has     *)
(* outgrown its cap while the command keeps appending, then tells the      *)
(* guest's counters file and the job's row what was dropped.  Offsets      *)
(* stay absolute, so a reader is served from where the kept part starts.   *)
(***************************************************************************)

CONSTANTS
  OutputMax,     \* the cap, in bytes
  PunchBlock,    \* jobPunchBlockBytes
  MaxSize,       \* the stream's size is bounded
  JoScenarios    \* what may happen: subsets of {"fail", "recordfail", "crash", "read"}

ASSUME OutputAssumption ==
  /\ OutputMax \in Nat \ {0} /\ PunchBlock \in Nat \ {0} /\ MaxSize \in Nat

VARIABLES
  written,    \* every byte the command wrote: "n" is a newline
  hole,       \* bytes punched out of the front
  side,       \* the counters file's last line: d, n, e
  crow,       \* the row's counters: d, n, e
  capsPass,       \* the poller's pass: at, base (where it starts from), target, lines, ends
  served,     \* a read: at, the row it goes by, where it starts, what it got
  untold,     \* bytes punched by passes that ended before the counters were written
  omay        \* what may still happen in this behaviour

jovars == <<written, hole, side, crow, capsPass, served, untold, omay>>

NoDrop == [d |-> 0, n |-> 0, e |-> FALSE]
NoCapsPass == [at |-> "idle", base |-> NoDrop, target |-> 0, lines |-> 0, ends |-> FALSE]
NoRead == [at |-> "idle", row |-> NoDrop, from |-> 0, data |-> <<>>]
Fail(e) == e \in omay /\ omay' = omay \ {e}

JOInit ==
  /\ written = <<>> /\ hole = 0 /\ side = NoDrop /\ crow = NoDrop
  /\ capsPass = NoCapsPass /\ served = NoRead /\ untold = {} /\ omay \in JoScenarios

Size == Len(written)
ByteAt(i) == IF i <= hole THEN "0" ELSE written[i]
Lines(S) == Cardinality({i \in S : ByteAt(i) = "n"})

Append1 ==
  /\ Size < MaxSize
  /\ \E b \in {"n", "x"} : written' = Append(written, b)
  /\ UNCHANGED <<hole, side, crow, capsPass, served, omay, untold>>

-----------------------------------------------------------------------------
(* The drop plan.                                                          *)

\* Mutant: measured from what is dropped instead of what is kept.
FromDropped(size, dropped, kept) ==
  LET target == ((size - dropped) \div PunchBlock) * PunchBlock
  IN IF kept <= 0 \/ size <= kept \/ target <= dropped THEN 0 ELSE target

\* jobCapTarget.
CapTarget(size, dropped, kept) ==
  LET target == ((size - kept) \div PunchBlock) * PunchBlock
  IN IF kept <= 0 \/ size <= kept \/ target <= dropped THEN 0 ELSE target

\* capJobStreams: the window, the cap plus the block its target rounds into.
Kept == OutputMax + PunchBlock

\* capJobStreams: the guest's counters are gone on from when they are ahead.
Base ==
  IF side.d > crow.d THEN [d |-> side.d, n |-> IF side.n > crow.n THEN side.n ELSE crow.n, e |-> side.e]
  ELSE crow

\* UpdateJobSkipped: the counters only rise.
Raised(r, d, n, e) ==
  [d |-> IF d > r.d THEN d ELSE r.d, n |-> IF n > r.n THEN n ELSE r.n, e |-> IF d > r.d THEN e ELSE r.e]

\* Mutant: with nothing to drop the pass ends at once.
PlanOnly ==
  /\ capsPass.at = "idle"
  /\ \E b \in {Base} : \E t \in {CapTarget(Size, b.d, Kept)} :
       /\ t > b.d
       /\ capsPass' = [at |-> "punch", base |-> b, target |-> t,
                   lines |-> Lines(b.d + 1 .. t), ends |-> ByteAt(t) = "n"]
  /\ UNCHANGED <<written, hole, side, crow, served, omay, untold>>

\* capJobStream: planned from the file's size, its newlines counted from the
\* bytes about to go; with nothing to drop the row only catches up.
CapPlan ==
  /\ capsPass.at = "idle"
  /\ \E b \in {Base} : \E t \in {CapTarget(Size, b.d, Kept)} :
       \/ /\ t > b.d
          /\ capsPass' = [at |-> "punch", base |-> b, target |-> t,
                      lines |-> Lines(b.d + 1 .. t), ends |-> ByteAt(t) = "n"]
          /\ UNCHANGED crow
       \/ /\ t <= b.d /\ (b.d > crow.d \/ b.n > crow.n)
          /\ crow' = Raised(crow, b.d, b.n, b.e)
          /\ UNCHANGED capsPass
  /\ UNCHANGED <<written, hole, side, served, omay, untold>>

\* PunchHole.
CapPunch ==
  /\ capsPass.at = "punch"
  /\ hole' = IF capsPass.target > hole THEN capsPass.target ELSE hole
  /\ capsPass' = [capsPass EXCEPT !.at = "sidecar"]
  /\ UNCHANGED <<written, side, crow, served, omay, untold>>

\* Mutant: only this pass's newlines are told.
TellPassOnly ==
  /\ capsPass.at = "sidecar"
  /\ side' = [d |-> capsPass.target, n |-> capsPass.lines, e |-> capsPass.ends]
  /\ capsPass' = [capsPass EXCEPT !.at = "record"]
  /\ UNCHANGED <<written, hole, crow, served, omay, untold>>

\* The pass ends between the punch and the counters: the next one starts from
\* the old counters, and reads a hole.
CutOff == capsPass' = NoCapsPass /\ untold' = untold \cup (capsPass.base.d + 1 .. capsPass.target)

\* The counters file is read and written whole with one more line; when either
\* fails the pass ends there.
CapSidecar ==
  /\ capsPass.at = "sidecar"
  /\ \/ /\ side' = [d |-> capsPass.target, n |-> capsPass.base.n + capsPass.lines, e |-> capsPass.ends]
        /\ capsPass' = [capsPass EXCEPT !.at = "record"]
        /\ UNCHANGED <<untold, omay>>
     \/ Fail("fail") /\ CutOff /\ UNCHANGED side
  /\ UNCHANGED <<written, hole, crow, served>>

CapRecord ==
  /\ capsPass.at = "record" /\ capsPass' = NoCapsPass
  /\ \/ /\ crow' = Raised(crow, capsPass.target, capsPass.base.n + capsPass.lines, capsPass.ends)
        /\ UNCHANGED omay
     \/ Fail("recordfail") /\ UNCHANGED crow
  /\ UNCHANGED <<written, hole, side, served, untold>>

\* The backend stops in the middle of a pass.
CapCrash ==
  /\ capsPass.at # "idle" /\ Fail("crash")
  /\ IF capsPass.at = "sidecar" THEN CutOff ELSE capsPass' = NoCapsPass /\ UNCHANGED untold
  /\ UNCHANGED <<written, hole, side, crow, served>>

-----------------------------------------------------------------------------
(* readJobRange.                                                           *)

\* The row is read first ...
ReadRow ==
  /\ "read" \in omay /\ served.at = "idle"
  /\ served' = [NoRead EXCEPT !.at = "row", !.row = crow]
  /\ UNCHANGED <<written, hole, side, crow, capsPass, omay, untold>>

\* Mutant: an offset inside the dropped front is served as asked.
Unclamped(offset, dropped) == offset

\* An offset inside the dropped front starts where the kept part does.
Clamped(offset, dropped) == IF offset < dropped THEN dropped ELSE offset

\* ... then the bytes, from an offset or (offset < 0) from the tail.
ReadRange ==
  /\ served.at = "row"
  /\ \E offset \in {-1, 0, OutputMax + 1}, limit \in {1, Kept} :
       LET tail == IF Size - limit < 0 THEN 0 ELSE Size - limit
           at == Clamped(IF offset < 0 THEN tail ELSE offset, served.row.d)
           end == IF at + limit < Size THEN at + limit ELSE Size
       IN served' = [served EXCEPT !.at = "done", !.from = at,
                                   !.data = [i \in 1..(IF end > at THEN end - at ELSE 0) |-> ByteAt(at + i)]]
  /\ UNCHANGED <<written, hole, side, crow, capsPass, omay, untold>>

ReadAnswered ==
  /\ served.at = "done" /\ served' = NoRead
  /\ UNCHANGED <<written, hole, side, crow, capsPass, omay, untold>>

-----------------------------------------------------------------------------
Caps == CapPlan \/ CapPunch \/ CapSidecar \/ CapRecord

JONext == Append1 \/ Caps \/ CapCrash \/ ReadRow \/ ReadRange \/ ReadAnswered

JOSpec == JOInit /\ [][JONext]_jovars

-----------------------------------------------------------------------------
\* Whatever is dropped, the last OutputMax bytes of the stream are still
\* there (jobCapTarget rounds down to a block).
KeepsTheCap == hole > 0 => Size - hole >= OutputMax

\* The counters are of what is gone: their bytes are a hole, and their newlines
\* and last byte are those of the bytes dropped (capJobStream punches first and
\* tells afterwards).  They miss the newlines of a front whose counters were
\* never written, which the next pass counts in the hole, and no others.
CountsAreTrue ==
  \A c \in {crow, side} :
    /\ c.d <= hole
    /\ c.n = Cardinality({i \in 1..c.d \ untold : written[i] = "n"})
    /\ c.d > 0 => c.e = (written[c.d] = "n" /\ c.d \notin untold)

\* What a read is served is what the command wrote at that offset
\* (readJobRange clamps into the kept part), or the zeros of a front dropped
\* that the row it went by does not tell of.
ServedIsWritten ==
  served.at = "done" =>
    \A i \in 1..Len(served.data) :
      LET at == served.from + i
      IN served.data[i] \in {written[at]} \cup (IF at \in served.row.d + 1 .. hole THEN {"0"} ELSE {})

\* A drop the guest's counters tell reaches the row, though the write of the
\* row failed or the backend stopped in between.
RowCatchesUp == (crow.d < side.d) ~> (crow.d >= side.d)
=============================================================================
