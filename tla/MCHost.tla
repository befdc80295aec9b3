------------------------------- MODULE MCHost -------------------------------
(***************************************************************************)
(* Small instances of what gives out and takes back the capacity of the    *)
(* host (the admission queue, the take-back plan, memory admission, the    *)
(* room on the snapshot disk, drain) and of the work done in and around a  *)
(* guest (jobs and their output, calls that hold a lease awake, reads and  *)
(* watches of files, the probe of the root disk, the stream of events, the *)
(* SSH gateway).                                                           *)
(***************************************************************************)
EXTENDS AdmissionQueue, TakeBack, MemoryAdmission, DiskRoom, DrainCycle, Jobs,
        WorkCalls, GuestFiles, RootfsProbe, EventStream, SshGateway, TLC

CONSTANTS
    Areas,     \* the components to explore
    c1, c2, o1, o2, w1

VARIABLE area     \* the component this behaviour is about

-----------------------------------------------------------------------------
\* Two creates of two owners wait for the only unit of memory.
QueueOwners == c1 :> o1 @@ c2 :> o2
QueueNeeds == [c \in Creates |-> 1]
QueueTroubles == {{"drain"}, {"delete"}, {"leave"}, {"tick"}}

VictimFlags == {{}, {"pinned"}, {"busy"}, {"drained"}}

\* Lease 1 is the large one of owner 1; lease 3 asks for owner 2.
MemoryOwners == 1 :> 1 @@ 2 :> 1 @@ 3 :> 2
MemorySizes == 1 :> 2 @@ 2 :> 1 @@ 3 :> 1
MemoryScenarios == {{"fail", "release"}, {"floor", "giveback"}, {"pool", "reported"}}

\* Two paused leases of B, a running and a coming lease of A, on a disk of 7.
DiskOwners == 1 :> "B" @@ 2 :> "B" @@ 3 :> "A" @@ 4 :> "A"
DiskSizes == [l \in DrLeases |-> 2]
DiskMemory == [l \in DrLeases |-> 3]
DiskStart == 1 :> "paused" @@ 2 :> "paused" @@ 3 :> "absent" @@ 4 :> "live"
DiskScenarios == {{"create", "pause"}, {"create", "late"}, {"create", "write"}, {"create", "reader"},
                  {"create", "resume", "pin"}, {"create", "resume", "kept"},
                  {"create", "late", "kept", "undeleted"}, {"create", "unreadable"}}

\* How often each event may happen: drains, undrains, restarts of spoond, outages of the runtime,
\* requests of clients, failed calls.
Budget(dr, un, re, ou, cl, fa) ==
    "drain" :> dr @@ "undrain" :> un @@ "restart" :> re @@ "outage" :> ou @@ "client" :> cl @@ "fault" :> fa
DrainBudgets == {Budget(2, 1, 0, 0, 1, 1), Budget(1, 1, 0, 1, 0, 1),
                 Budget(1, 1, 0, 0, 2, 1), Budget(1, 1, 1, 0, 0, 1)}
LiveDrainBudgets == {Budget(1, 1, 0, 1, 0, 0), Budget(1, 0, 1, 0, 0, 1)}

JobScenarios ==
    {{"many"}, {"wait", "spend", "dbfail"}, {"restart", "never"}, {"restart", "spend", "wait"}, {"lose", "wait"},
     {"release", "wait", "delete"}, {"release", "dbfail"}, {"crash", "spend"}, {"restart", "release", "wait"}}

OutputScenarios == {{"recordfail", "crash"}, {"fail", "recordfail"}, {"fail", "read"}}

CallScenarios ==
    {{"exec", "stream", "pin", "pause", "stop"}, {"exec", "file", "checkpoint", "release", "unknown"},
     {"exec", "dial", "restart", "lost", "quiet"}, {"stream", "dial", "suspended", "refuse", "lost"},
     {"file", "proxy", "prompt", "pause"}, {"proxy", "exec", "suspended", "release", "pin"}}

FileScenarios ==
    {{"range"}, {"watch", "suspended", "resume", "transport"},
     {"watch", "lost", "gone", "suspended", "hang"}, {"watch", "transport", "gone"},
     {"watch", "restarted", "suspended", "transport", "hang"}}

ProbeScenarios ==
    {{"eio", "ok", "op"}, {"eio", "ok", "exec"}, {"eio", "drain", "release", "op"}, {"slow", "mute", "ok"},
     {"slow", "eio", "ok"},     {"slow", "pressure", "exec"}, {"away", "slow", "op"}, {"mute", "release", "drain"}}

EventScenarios == {{}, {"restart", "badid"}}

GatewayScenarios ==
    {{"ctl", "refuse", "down", "late"}, {"session", "leave", "signal"},
     {"session", "leave", "break", "refuse"}, {"session", "leave", "fail"}}

-----------------------------------------------------------------------------
\* The other components stay as one of their initial states has them.
Apart(a, v, S) == area = a \/ v = CHOOSE s \in S : TRUE

Init ==
    /\ area \in Areas
    /\ Apart("queue", trouble, Troubles)
    /\ Apart("takeBack", tbview, TbViews)
    /\ Apart("takeBack", tbask, TbAsks)
    /\ Apart("memory", happens, MaScenarios)
    /\ Apart("disk", dmay, DrScenarios)
    /\ Apart("drain", left, DcBudgets)
    /\ Apart("jobs", jmay, JbScenarios)
    /\ Apart("output", omay, JoScenarios)
    /\ Apart("calls", wcmay, WcScenarios)
    /\ Apart("files", gfmay, GfScenarios)
    /\ Apart("files", gfFile, {<<>>})
    /\ Apart("probe", rpmay, RpScenarios)
    /\ Apart("events", emay, EvScenarios)
    /\ Apart("gateway", gwmay, GwScenarios)
    /\ AQInit /\ TBInit /\ MAInit /\ DRInit /\ DCInit /\ JBInit /\ JOInit /\ WCInit /\ GFInit /\
       RPInit /\ EVInit /\ GWInit

vars == <<area, aqvars, tbvars, mavars, drvars, dcvars, jbvars, jovars, wcvars, gfvars, rpvars, evvars,
          gwvars>>

Next ==
    /\ UNCHANGED area
    /\ \/ /\ area = "queue" /\ AQNext
          /\ UNCHANGED <<tbvars, mavars, drvars, dcvars, jbvars, jovars, wcvars, gfvars, rpvars,
                         evvars, gwvars>>
       \/ /\ area = "takeBack" /\ TBNext
          /\ UNCHANGED <<aqvars, mavars, drvars, dcvars, jbvars, jovars, wcvars, gfvars, rpvars,
                         evvars, gwvars>>
       \/ /\ area = "memory" /\ MANext
          /\ UNCHANGED <<aqvars, tbvars, drvars, dcvars, jbvars, jovars, wcvars, gfvars, rpvars,
                         evvars, gwvars>>
       \/ /\ area = "disk" /\ DRNext
          /\ UNCHANGED <<aqvars, tbvars, mavars, dcvars, jbvars, jovars, wcvars, gfvars, rpvars,
                         evvars, gwvars>>
       \/ /\ area = "drain" /\ DCNext
          /\ UNCHANGED <<aqvars, tbvars, mavars, drvars, jbvars, jovars, wcvars, gfvars, rpvars,
                         evvars, gwvars>>
       \/ /\ area = "jobs" /\ JBNext
          /\ UNCHANGED <<aqvars, tbvars, mavars, drvars, dcvars, jovars, wcvars, gfvars, rpvars,
                         evvars, gwvars>>
       \/ /\ area = "output" /\ JONext
          /\ UNCHANGED <<aqvars, tbvars, mavars, drvars, dcvars, jbvars, wcvars, gfvars, rpvars,
                         evvars, gwvars>>
       \/ /\ area = "calls" /\ WCNext
          /\ UNCHANGED <<aqvars, tbvars, mavars, drvars, dcvars, jbvars, jovars, gfvars, rpvars,
                         evvars, gwvars>>
       \/ /\ area = "files" /\ GFNext
          /\ UNCHANGED <<aqvars, tbvars, mavars, drvars, dcvars, jbvars, jovars, wcvars, rpvars,
                         evvars, gwvars>>
       \/ /\ area = "probe" /\ RPNext
          /\ UNCHANGED <<aqvars, tbvars, mavars, drvars, dcvars, jbvars, jovars, wcvars, gfvars,
                         evvars, gwvars>>
       \/ /\ area = "events" /\ EVNext
          /\ UNCHANGED <<aqvars, tbvars, mavars, drvars, dcvars, jbvars, jovars, wcvars, gfvars,
                         rpvars, gwvars>>
       \/ /\ area = "gateway" /\ GWNext
          /\ UNCHANGED <<aqvars, tbvars, mavars, drvars, dcvars, jbvars, jovars, wcvars, gfvars,
                         rpvars, evvars>>
       \/ /\ area \in {"queue", "takeBack", "memory", "disk", "drain", "jobs", "output", "events",
                       "gateway"}
          /\ UNCHANGED vars

\* Goroutines keep running and timers fire; clients, administrators and the
\* ticker promise nothing.
AQFairness ==
    /\ \A c \in Creates : /\ WF_aqvars(area = "queue" /\ HandlerStep(c))
                          /\ WF_aqvars(area = "queue" /\ GrantStep(c))
                          /\ WF_aqvars(area = "queue" /\ WakeStep(c))
    /\ \A r \in Runners : SF_aqvars(area = "queue" /\ PassBegin(r))
    /\ WF_aqvars(area = "queue" /\ PassStep)
    /\ \A w \in Wakers : WF_aqvars(area = "queue" /\ WakerStep(w))
    /\ WF_aqvars(area = "queue" /\ AdminStep)

\* The request that holds the admission lock goes on.
MAFairness == WF_mavars(area = "memory" /\ HolderStep)

\* A request that waits for the disk goes on.
DRFairness == \A l \in DrLeases : WF_drvars(area = "disk" /\ DiskStep(l))

\* Calls and loops go on, time passes, an outage ends; nothing obliges an
\* administrator, a client or a fault.
DCFairness ==
    /\ WF_dcvars(area = "drain" /\ DrainStep) /\ WF_dcvars(area = "drain" /\ UndrainStep) /\ WF_dcvars(area = "drain" /\ HealStep)
    /\ \A l \in DcLeases : WF_dcvars(area = "drain" /\ ClientEnd(l))
    /\ \A p \in Resumers, l \in DcLeases : WF_dcvars(area = "drain" /\ ResumeStep(p, l))
    /\ WF_dcvars(area = "drain" /\ DrainAges) /\ WF_dcvars(area = "drain" /\ NodeUp)

\* The reconcile loop's ticker, and requests that run to their end.
JBFairness ==
    /\ WF_jbvars(area = "jobs" /\ Reconciles)
    /\ WF_jbvars(area = "jobs" /\ Restarts)
    /\ WF_jbvars(area = "jobs" /\ Releases)
    /\ \A j \in Jobs : WF_jbvars(area = "jobs" /\ Starts(j))
    /\ \A a \in Agents : WF_jbvars(area = "jobs" /\ Settles(a))

\* The reconcile ticker runs a pass for every running job.
JOFairness == WF_jovars(area = "output" /\ Caps)

\* The server's goroutines run, an operation on the lease ends, and a client
\* that was told its stream is over closes it.
WcServerFair == \A r \in WcRequests : WF_wcvars(area = "calls" /\ WcServer(r))
WcLifeFair == WF_wcvars(area = "calls" /\ (LifeStopsSandbox \/ LifeEnds))
WCFairness == WcServerFair /\ WcLifeFair

\* The handler's poll goes on, and the lease's end reaches it.
GFFairness == WF_gfvars(area = "files" /\ GfLoop) /\ WF_gfvars(area = "files" /\ LeaseEnded)

\* The probe's ticker runs its passes, and an operation on a lease ends.
RPFairness ==
    /\ WF_rpvars(area = "probe" /\ RpPassStep)
    /\ \A l \in RpLeases : WF_rpvars(area = "probe" /\ OpEnds(l))

\* The handler writes what it has.
EVFairness ==
    /\ WF_evvars(area = "events" /\ WriteReplay) /\ WF_evvars(area = "events" /\ WriteGap)
    /\ WF_evvars(area = "events" /\ WriteLive)

\* The gateway's goroutines and the backend's frame loop run; the process in the
\* guest owes nobody anything.
GWFairness ==
    /\ WF_gwvars(area = "gateway" /\ Pump)
    /\ WF_gwvars(area = "gateway" /\ RelayFrame)
    /\ WF_gwvars(area = "gateway" /\ GuestTakes)

Fairness == AQFairness /\ MAFairness /\ DRFairness /\ DCFairness /\ JBFairness /\
            JOFairness /\ WCFairness /\ GFFairness /\ RPFairness /\ EVFairness /\
            GWFairness

Spec == Init /\ [][Next]_vars
FairSpec == Spec /\ Fairness

\* Memory is promised once and taken back fairly: the promises of admission are
\* exact, a pin beats a take-back, and the plan of a take-back frees what is
\* needed from those who have too much.
MemoryKeepsItsBooks ==
  /\ InflightIsPromised
  /\ PinWins
  /\ PlanFreesNeed
  /\ BorrowerHasNoVictims
  /\ PressureIsMildest

\* Room on the disk is given only when it is there, and taken back, like memory,
\* only from those who stay above the one who asked.
RoomHolds ==
  /\ RoomBacked
  /\ TakenStaysAbove
  /\ PlanEvensOut

\* A job's record tells what happened to its process, the counts of jobs and of
\* output bytes are exact, and what is served is what was written.
JobsAreTrue ==
  /\ []JobCap
  /\ []EndsOnce
  /\ []CountExact
  /\ []LostIsGone
  /\ []KilledIsTimedOut
  /\ []KeepsTheCap
  /\ []CountsAreTrue
  /\ []ServedIsWritten
  /\ ArchiveComplete

\* Whoever asks the host for room is answered: a queued create, an admission that
\* preempts, a request for disk, a drained node and each lease it suspended.
CapacityIsAnswered ==
  /\ WaiterAnswered
  /\ PreemptReleased
  /\ RoomAnswered
  /\ DrainLifted
  /\ DrainedSettled

\* What was begun in a guest ends and is told: a job settles and its counters
\* reach the row, a call returns, a watch and an SSH session end, an event
\* arrives, and a dead disk or a hung guest is found.
GuestWorkEnds ==
  /\ JobSettles
  /\ RowCatchesUp
  /\ CallReturns
  /\ WatchEnds
  /\ DeadDiskIsTaken
  /\ HungGuestIsTaken
  /\ EventArrives
  /\ LeavingEndsIt

=============================================================================
