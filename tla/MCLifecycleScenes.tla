------------------------- MODULE MCLifecycleScenes -------------------------
(***************************************************************************)
(* LeaseLifecycle on several small instances in one run: a behaviour is    *)
(* one scene from its first state to its last, and a scene is the          *)
(* specification with its own operations, faults and bounds.  A scene that *)
(* names fewer handlers or leases than the run leaves the rest idle.       *)
(***************************************************************************)
EXTENDS MCLeaseLifecycle

CONSTANT Scenes

VARIABLE scene

\* Every operation of a lease, three at a time, on the same lease.
Operations == INSTANCE LeaseLifecycle WITH
    Leases <- {l1}, Handlers <- {h1, h2, h3}, Faults <- {}, PoolSize <- 0,
    MaxMoment <- 2, MaxRestarts <- 0,
    Ops <- {"grant", "release", "suspend", "resume", "restart", "checkpoint",
            "restore", "takeBack"}

\* Two leases and a warm pool of one.
Pooling == INSTANCE LeaseLifecycle WITH
    Leases <- {l1, l2}, Handlers <- {h1, h2}, Faults <- {}, PoolSize <- 1,
    MaxMoment <- 0, MaxRestarts <- 0,
    Ops <- {"grant", "release", "suspend", "use", "checkpoint", "restart", "fill"}

\* Guests that die and a reconcile that recovers them.
Crashing == INSTANCE LeaseLifecycle WITH
    Handlers <- {h1, h2}, Faults <- {"vm", "create"}, PoolSize <- 0, MaxMoment <- 1,
    MaxRestarts <- 0,
    Ops <- {"grant", "release", "restart", "checkpoint", "crashTest", "probe", "reconcile"}

\* The orphan sweep beside two operations, with deletes that fail.
Sweeping == INSTANCE LeaseLifecycle WITH
    Handlers <- {h1, h2}, Faults <- {"delete"}, PoolSize <- 0, MaxMoment <- 0,
    MaxRestarts <- 0, RetryPasses <- 2,
    Ops <- {"grant", "release", "suspend", "use", "sweep"}

\* A backend that dies between any two steps, twice.
Rebooting == INSTANCE LeaseLifecycle WITH
    Handlers <- {h1}, Faults <- {"create", "delete", "record"}, PoolSize <- 1,
    MaxMoment <- 0, MaxRestarts <- 2, RetryPasses <- 2,
    Ops <- {"grant", "release", "suspend", "use", "checkpoint", "crashTest", "fill"}

\* Crash recovery with every fault it can meet, for what must happen.
Recovering == INSTANCE LeaseLifecycle WITH
    Faults <- {"vm", "create", "record"}, PoolSize <- 0, MaxRestarts <- 0,
    MaxGeneration <- 3,
    Ops <- {"grant", "release", "suspend", "use", "restart", "checkpoint", "reconcile"}

\* The orphan sweep with every fault it can meet, across a backend restart,
\* for what must happen.
Straying == INSTANCE LeaseLifecycle WITH
    Faults <- {"create", "delete", "list"}, PoolSize <- 1, MaxRestarts <- 1,
    MaxGeneration <- 2,
    Ops <- {"grant", "release", "fill", "sweep"}

sceneVars == <<vars, scene>>

SceneInit == Init /\ scene \in Scenes

\* In these scenes the requests may run out.
Rests == scene \in {"operations", "pooling", "rebooting"} /\ UNCHANGED vars

SceneNext ==
    /\ \/ scene = "operations" /\ Operations!Next
       \/ scene = "pooling" /\ Pooling!Next
       \/ scene = "crashing" /\ Crashing!Next
       \/ scene = "sweeping" /\ Sweeping!Next
       \/ scene = "rebooting" /\ Rebooting!Next
       \/ scene = "recovering" /\ Recovering!Next
       \/ scene = "straying" /\ Straying!Next
       \/ Rests
    /\ UNCHANGED scene

SceneSpec == SceneInit /\ [][SceneNext]_sceneVars

\* Fairness of LeaseLifecycle, scene by scene.
SceneFairness ==
    /\ \A w \in Workers :
          /\ WF_vars(scene = "recovering" /\ Recovering!WorkStep(w))
          /\ WF_vars(scene = "straying" /\ Straying!WorkStep(w))
    /\ WF_vars(scene = "recovering" /\ Recovering!Reconcile)
    /\ WF_vars(scene = "straying" /\ Straying!Reconcile)
    /\ WF_vars(scene = "straying" /\ Straying!Sweep)
    /\ SF_vars(scene = "straying" /\ Straying!ListSucceeds)
    /\ \A s \in Sandboxes : SF_vars(scene = "straying" /\ Straying!KillSucceeds(s))

FairSceneSpec == SceneSpec /\ SceneFairness

\* CrashResolved, where the reconcile's ticker fires.
CrashResolvedInTime == scene = "recovering" => CrashResolved

=============================================================================
