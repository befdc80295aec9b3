---------------------------- MODULE MCLeaseState ----------------------------
(***************************************************************************)
(* Small instances of the state the daemon keeps about a lease: its        *)
(* clocks, its forks, its kept checkpoints, its name and shares, its       *)
(* tokens, its network policy and its secrets.                             *)
(***************************************************************************)
EXTENDS LeaseClocks, ForkClone, KeptCheckpoints, Sharing, LeaseTokens, PeerEgress, Secrets, TLC

CONSTANTS
    Areas,     \* the components to explore
    k1, k2

VARIABLE area     \* the component this behaviour is about

-----------------------------------------------------------------------------
ClockScenarios ==
    {{"ttl", "use", "keepalive", "release", "slow"}, {"idle", "use", "job", "pin", "writer"},
     {"idle", "pause", "resume", "fail", "policy", "pin", "unpin"},
     {"idle", "beat", "keepalive", "use", "restart", "dbfail"}, {"ckpt", "use", "work", "release"},
     {"ckpt", "idle", "work", "restart"}, {"ckpt", "idle", "pause", "resume", "restart"},
     {"ckpt", "use", "fail"},
     {"pause", "resume", "slow"}}

ForkScenarios ==
    {{"fail", "release", "child", "stray"}, {"token", "unstaged", "delete", "child", "stray"},
     {"clone", "token", "unstaged", "fail", "delete", "release", "stray"}}

CheckpointScenarios ==
    {{"release", "fail"}, {"named", "unpin"}, {"unread"}, {"restore", "unpin", "slice"},
     {"release", "restore"}}

SharingScenarios ==
    {{"name", "lost", "pause", "restart", "release"}, {"share", "restart", "pause", "release"},
     {"share", "fail", "release"}, {"share", "lost", "restart"}}

TokenScenarios ==
    {{"clone", "backend", "release"}, {"restart", "save", "backend", "fail"},
     {"restore", "lost", "backend"}, {"clone", "llm", "release"}, {"clone", "restart", "self"}}

EgressScenarios ==
    {{"peer", "policy"}, {"peer", "pause", "release"}, {"ceiling", "policy", "peer"},
     {"policy", "fail", "release"}, {"suspend", "peer", "policy"}, {"ceiling", "fail", "suspend"}}

\* The leases with kept checkpoints are alike.
LeaseSymmetry == Permutations(KcLeases)

SecretScenarios ==
    {{"job", "startfail", "save"}, {"create", "job", "shadow", "startfail", "save"},
     {"create", "job", "exec", "save", "flaky"}, {"create", "job", "shadow", "save", "poll"},
     {"create", "job", "shadow", "exec", "save"}, {"create", "job", "exec", "restart", "save"},
     {"create", "exec", "release", "save", "job"}}

-----------------------------------------------------------------------------
\* The other components stay as one of their initial states has them.
Apart(a, v, S) == area = a \/ v = CHOOSE s \in S : TRUE

Init ==
    /\ area \in Areas
    /\ Apart("clocks", lcmay, LcScenarios)
    /\ Apart("fork", fkmay, FkScenarios)
    /\ Apart("checkpoints", kcmay, KcScenarios)
    /\ Apart("checkpoints", kcSlice, KcSlices)
    /\ Apart("sharing", shmay, ShScenarios)
    /\ Apart("tokens", tkmay, TkScenarios)
    /\ Apart("egress", pemay, PeScenarios)
    /\ Apart("secrets", smay, ScScenarios)
    /\ LCInit /\ FKInit /\ KCInit /\ SHInit /\ TKInit /\ PEInit /\ SCInit

vars == <<area, lcvars, fkvars, kcvars, shvars, tkvars, pevars, scvars>>

Next ==
    /\ UNCHANGED area
    /\ \/ /\ area = "clocks" /\ LCNext
          /\ UNCHANGED <<fkvars, kcvars, shvars, tkvars, pevars, scvars>>
       \/ /\ area = "fork" /\ FKNext
          /\ UNCHANGED <<lcvars, kcvars, shvars, tkvars, pevars, scvars>>
       \/ /\ area = "checkpoints" /\ KCNext
          /\ UNCHANGED <<lcvars, fkvars, shvars, tkvars, pevars, scvars>>
       \/ /\ area = "sharing" /\ SHNext
          /\ UNCHANGED <<lcvars, fkvars, kcvars, tkvars, pevars, scvars>>
       \/ /\ area = "tokens" /\ TKNext
          /\ UNCHANGED <<lcvars, fkvars, kcvars, shvars, pevars, scvars>>
       \/ /\ area = "egress" /\ PENext
          /\ UNCHANGED <<lcvars, fkvars, kcvars, shvars, tkvars, scvars>>
       \/ /\ area = "secrets" /\ SCNext
          /\ UNCHANGED <<lcvars, fkvars, kcvars, shvars, tkvars, pevars>>
       \/ /\ area \in {"checkpoints", "sharing", "tokens", "secrets"}
          /\ UNCHANGED vars

Spec == Init /\ [][Next]_vars

=============================================================================
