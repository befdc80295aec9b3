----------------------------- MODULE MCServices -----------------------------
(***************************************************************************)
(* Small instances of what the daemon keeps for its users (accounts and    *)
(* their tokens, named snapshots, the catalog of builds they stand on, the *)
(* table that slows down failed logins, the listing of a guest directory)  *)
(* and of what runs beside it (the CI runner and its jobs, the notifier,   *)
(* the installer).                                                         *)
(***************************************************************************)
EXTENDS Accounts, NamedSnapshots, BuildCatalog, DirWalk, RunnerPool, RunnerJob,
        Notifier, Installer, TLC

CONSTANTS
    Areas,     \* the components to explore
    n1, n2, k1, t1, t2, j1, j2

VARIABLE area     \* the component this behaviour is about

-----------------------------------------------------------------------------
\* User names are alike, and so are tokens and the tasks of the runner.
ServiceSymmetry == Permutations(Names) \cup Permutations(Tokens) \cup Permutations(Tasks)

AccountScenarios ==
    {{"save", "settings"}, {"save", "mint"}, {"mint", "delete", "save"}, {"restart", "work", "delete"},
     {"step", "work", "delete"}, {"save", "restart", "work", "mint"},
     {"save", "step", "restart", "delete"}}

SnapshotScenarios ==
    {{"key", "two", "fail", "release"}, {"key", "delete", "restart"}, {"names", "fail", "delete", "key", "few"},
     {"start", "keep", "few"}, {"start", "startfail", "few", "solo"}, {"start", "grant", "secret", "few", "solo"},
     {"start", "delete", "few", "solo"}, {"grant", "delete"}, {"grant", "owner", "few"}, {"start", "owner", "few", "solo"},
     {"two", "names", "few"}, {"two", "owner", "key"}, {"key", "look"}}

BuildScenarios ==
    {{"few", "save", "checkpoint", "start", "delete", "force"}, {"few", "save", "delete", "pause"},
     {"few", "keep", "restore", "delete"}, {"few", "pause", "checkpoint"}, {"rebuild", "reap"},
     {"few", "checkpoint", "lose", "keep"}, {"few", "checkpoint", "reap", "late", "delete"},
     {"few", "checkpoint", "reap", "fail"}, {"few", "checkpoint", "delete", "fail"}, {"warm", "rebuild", "fail"},
     {"few", "checkpoint", "delete", "overlap", "unlisted"}}

\* A directory two levels below "/", whose parent may be a repository, as it may itself.
Parent == <<7>>
Root == <<7, 7>>
TreeDirs == {Root \o <<1>>, Root \o <<1, 1>>, Root \o <<3>>}
TreeFiles == {Root \o <<2>>, Root \o <<1, 2>>, Root \o <<1, 1, 2>>, Root \o <<3, 1>>}

Repos(d, f) == [dirs |-> d, files |-> f]
Repositories ==
    {Repos({}, {}), Repos({Parent}, {}), Repos({Root}, {}), Repos({Root \o <<1>>}, {}),
     Repos({Parent}, {Root}), Repos({Parent, Root \o <<1>>}, {})}

Line(n, s, d, a) == [neg |-> n, segs |-> s, dirOnly |-> d, anchored |-> a]
FewLines == {Line(FALSE, <<1>>, FALSE, FALSE), Line(TRUE, <<1>>, FALSE, FALSE),
             Line(FALSE, <<DStar, 1, DStar>>, FALSE, FALSE)}
Lines == FewLines \cup
    {Line(FALSE, <<1>>, TRUE, TRUE), Line(FALSE, <<Star>>, FALSE, FALSE), Line(TRUE, <<1, 2>>, FALSE, FALSE),
     Line(FALSE, <<7, 1>>, FALSE, FALSE), Line(FALSE, <<2>>, FALSE, FALSE), Line(TRUE, <<2>>, FALSE, FALSE)}

\* One line in each of two ignore files, or two lines in the root's.
IgnoreFiles == {Parent, Root, Root \o <<1>>, Info}
Ignores ==
    {[p \in {a, b} |-> IF p = a THEN <<l>> ELSE <<m>>] : a \in IgnoreFiles, b \in {Root, Info}, l \in FewLines, m \in Lines}
      \cup {[p \in {Root} |-> <<l, m>>] : l \in Lines, m \in Lines}

Ask(e, b, g, s, slow, gone) ==
    [entries |-> e, bytes |-> b, gitignore |-> g, skip |-> s, slow |-> slow, gone |-> gone]
ListRequests ==
    {Ask(0, 0, TRUE, {}, FALSE, {}), Ask(2, 99, TRUE, {3}, TRUE, {}),
     Ask(10, 7, TRUE, {}, FALSE, {Root \o <<1, 1>>}), Ask(10, 7, FALSE, {}, FALSE, {})}

RunnerScenarios ==
    {{"crash", "scale"}, {"fetcherr", "createfail"}, {"stop", "cancel"}, {"stop", "scale"},
     {"stop", "createfail", "createlost", "cancel"}, {"stop", "reportfail", "deletefail"},
     {"crash", "stop", "sweepfail", "deletefail"}}

Plan(s, n) == [steps |-> s, refs |-> n]
RunnerPlans == {Plan(<<"run", "run">>, 0), Plan(<<"checkout", "run">>, 2), Plan(<<"run", "checkout">>, 0)}

Alerts(k, c, f, o, m) == [check |-> k, changes |-> c, fails |-> f, others |-> o, may |-> m]
NotifierScenarios ==
    {Alerts("levels", 2, 1, 1, {}), Alerts("levels", 2, 0, 1, {"restart"}),
     Alerts("unit", 2, 2, 0, {}), Alerts("unit", 4, 0, 0, {}),
     Alerts("stale", 2, 0, 1, {"restart"})}

InstallScenarios == {{"dry", "nouser"}, {"stop"}, {"half", "stop"}}

-----------------------------------------------------------------------------
\* The other components stay as one of their initial states has them.
Apart(a, v, S) == area = a \/ v = CHOOSE s \in S : TRUE

Init ==
    /\ area \in Areas
    /\ Apart("accounts", may, AcScenarios)
    /\ Apart("snapshots", nmay, NsScenarios)
    /\ Apart("builds", bmay, BcScenarios)
    /\ Apart("walk", dwGit, DwGits)
    /\ Apart("walk", dwIgnore, DwIgnores)
    /\ Apart("walk", dwLim, AskedLimits)
    /\ Apart("pool", rmay, RpScenarios)
    /\ Apart("job", job, RjPlans)
    /\ Apart("notifier", budget, NtScenarios)
    /\ Apart("install", inmay, InScenarios)
    /\ ACInit /\ NSInit /\ BCInit /\ DWInit /\ ALInit /\ RPInit /\ RJInit /\ NTInit /\ INInit
    /\ area = "install" \/ inHost.users = 0

vars == <<area, acvars, nsvars, bcvars, dwvars, alvars, rpvars, rjvars, ntvars, invars>>

Next ==
    /\ UNCHANGED area
    /\ \/ /\ area = "accounts" /\ ACNext
          /\ UNCHANGED <<nsvars, bcvars, dwvars, alvars, rpvars, rjvars, ntvars, invars>>
       \/ /\ area = "snapshots" /\ NSNext
          /\ UNCHANGED <<acvars, bcvars, dwvars, alvars, rpvars, rjvars, ntvars, invars>>
       \/ /\ area = "builds" /\ BCNext
          /\ UNCHANGED <<acvars, nsvars, dwvars, alvars, rpvars, rjvars, ntvars, invars>>
       \/ /\ area = "walk" /\ DWNext
          /\ UNCHANGED <<acvars, nsvars, bcvars, alvars, rpvars, rjvars, ntvars, invars>>
       \/ /\ area = "limiter" /\ ALNext
          /\ UNCHANGED <<acvars, nsvars, bcvars, dwvars, rpvars, rjvars, ntvars, invars>>
       \/ /\ area = "pool" /\ RPNext
          /\ UNCHANGED <<acvars, nsvars, bcvars, dwvars, alvars, rjvars, ntvars, invars>>
       \/ /\ area = "job" /\ RJNext
          /\ UNCHANGED <<acvars, nsvars, bcvars, dwvars, alvars, rpvars, ntvars, invars>>
       \/ /\ area = "notifier" /\ NTNext
          /\ UNCHANGED <<acvars, nsvars, bcvars, dwvars, alvars, rpvars, rjvars, invars>>
       \/ /\ area = "install" /\ INNext
          /\ UNCHANGED <<acvars, nsvars, bcvars, dwvars, alvars, rpvars, rjvars, ntvars>>
       \/ /\ area \in {"accounts", "snapshots", "builds", "limiter", "pool", "job", "notifier"}
          /\ UNCHANGED vars

\* Each request handler runs on.
NSFairness == \A r \in 1 .. 2 : WF_nsvars(area = "snapshots" /\ SaveStep(r))

\* Operations and creates end, and the hourly pass runs.
BCFairness ==
    /\ WF_bcvars(area = "builds" /\ OpStep) /\ WF_bcvars(area = "builds" /\ StartStep)
    /\ WF_bcvars(area = "builds" /\ GCStart) /\ WF_bcvars(area = "builds" /\ GCStep)
    /\ SF_bcvars(area = "builds" /\ TimePasses)

\* The process starts again, its loops run, and Stop goes on.
RPFairness ==
    /\ WF_rpvars(area = "pool" /\ PoolStart)
    /\ \A w \in Workers : WF_rpvars(area = "pool" /\ WorkerStep(w))
    /\ WF_rpvars(area = "pool" /\ StopRound) /\ WF_rpvars(area = "pool" /\ StopIdle)
    /\ WF_rpvars(area = "pool" /\ GraceSpent) /\ WF_rpvars(area = "pool" /\ StopReturns)
    /\ WF_rpvars(area = "pool" /\ WaitTimesOut)

\* Time passes, and the loops of the notifier run.
NTFairness ==
    /\ WF_ntvars(area = "notifier" /\ RunChecks) /\ WF_ntvars(area = "notifier" /\ Dispatch)
    /\ WF_ntvars(area = "notifier" /\ FreshEvent) /\ WF_ntvars(area = "notifier" /\ TimerFires)
    /\ WF_ntvars(area = "notifier" /\ WakeUp) /\ WF_ntvars(area = "notifier" /\ DueStep) /\ WF_ntvars(area = "notifier" /\ Tick)

\* A run goes on, and the operator follows what it says: reruns, reboots, and
\* repairs what it named.
INFairness ==
    /\ WF_invars(area = "install" /\ InstallStep)
    /\ WF_invars(area = "install" /\ InstallStarts)
    /\ WF_invars(area = "install" /\ HostReboots)
    /\ SF_invars(area = "install" /\ RepairsByHand)

Fairness == NSFairness /\ BCFairness /\ RPFairness /\ NTFairness /\ INFairness

Spec == Init /\ [][Next]_vars
FairSpec == Spec /\ Fairness

\* Users and tokens are the same in memory, in the index and in the file, as
\* their owner was told, and only an address that kept failing is slowed down.
AccountsHold ==
  /\ IndexesAgree
  /\ AnsweredIsDurable
  /\ TokensAsTold
  /\ TokenCap
  /\ OneAdmin
  /\ DeletedOwnsNothing
  /\ ThrottleIsEarned
  /\ TableForgets

\* The runner gives every lease back, counts what runs, stops with nothing left,
\* and reports of a job what its steps did, row by row.
RunnerHolds ==
  /\ LeaseHasItsJob
  /\ StopLeavesNothing
  /\ DrainSparesRunning
  /\ RunningIsCounted
  /\ CancelledSaysSo
  /\ LogIsWhole
  /\ ResultIsTrue


=============================================================================
