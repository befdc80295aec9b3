----------------------------- MODULE DrainCycle -----------------------------
(***************************************************************************)
(* The admin drain (api/admin.go): drain pauses the running leases and     *)
(* marks them Drained; undrain clears the node's draining state and        *)
(* resumes them; the self-heal loop does what an undrain left undone; a    *)
(* restarted backend adopts the node's state.  Client resumes and the heal *)
(* hold drainGate's read side over a resume; undrain's own resumes do not. *)
(***************************************************************************)
EXTENDS Naturals, FiniteSets

CONSTANTS
  DcLeases,
  DcBudgets,    \* how often each event may happen, one function per scenario
  DcFaults      \* outcomes of a resume besides success

DcEvents == {"drain", "undrain", "restart", "outage", "client", "fault"}

ASSUME DrainAssumption ==
  /\ DcBudgets \subseteq [DcEvents -> Nat]
  /\ DcFaults \subseteq {"refused", "notReady", "envd", "notFound"}

VARIABLES
  node,      \* the orchestrator: [up, draining]
  flag,      \* s.draining, s.drainClearPending, s.drainStartedAt, s.undraining
  dlease,    \* [DcLeases -> [st, drained, busy]]
  heal,      \* [DcLeases -> s.drainHeal: "none", "trying" or "gaveUp"]
  drainer,   \* the drain call: [pc, todo, now]
  undrainer, \* the undrain call
  healer,    \* the healDrain pass
  resume,    \* [resumers -> [DcLeases -> where its resume of the lease is]]
  left       \* what of the budget is left

drainProcs == <<drainer, undrainer, healer>>
dcvars == <<node, flag, dlease, heal, drainProcs, resume, left>>

Resumers == {"undrain", "heal", "use"}
Idle == [pc |-> "idle", todo |-> {}, now |-> {}]
NotDraining == [draining |-> FALSE, pending |-> FALSE, started |-> "none", undraining |-> FALSE]
NoResume == [p \in Resumers |-> [l \in DcLeases |-> "no"]]

DCInit ==
  /\ node = [up |-> TRUE, draining |-> FALSE]
  /\ flag = NotDraining
  /\ dlease = [l \in DcLeases |-> [st |-> "running", drained |-> FALSE, busy |-> FALSE]]
  /\ heal = [l \in DcLeases |-> "none"]
  /\ drainer = Idle /\ undrainer = Idle /\ healer = Idle
  /\ resume = NoResume
  /\ left \in DcBudgets

Spend(e) == left[e] > 0 /\ left' = [left EXCEPT ![e] = @ - 1]

\* drainGate's write side: no heal attempt and no client resume holds the read side.
GateFree == \A l \in DcLeases : resume["use"][l] = "no" /\ resume["heal"][l] \in {"no", "wait"}

Released(l) == dlease[l].st = "released"

\* NodeInfo: what runs on the node or is being started there.
Working == {l \in DcLeases : dlease[l].st = "running" \/ \E p \in Resumers : resume[p][l] = "boot"}

-----------------------------------------------------------------------------
(* drain.                                                                  *)

\* SetDraining(true) under the gate; nothing changes when the node refuses.
DrainBegins ==
  /\ drainer.pc = "idle" /\ node.up /\ GateFree
  /\ Spend("drain")
  /\ node' = [node EXCEPT !.draining = TRUE]
  /\ flag' = [flag EXCEPT !.draining = TRUE, !.pending = FALSE, !.started = "fresh"]
  /\ drainer' = [Idle EXCEPT !.pc = "list"]
  /\ UNCHANGED <<dlease, heal, undrainer, healer, resume>>

DrainList ==
  /\ drainer.pc = "list"
  /\ drainer' = [Idle EXCEPT !.pc = "pause", !.todo = {l \in DcLeases : dlease[l].st = "running"}]
  /\ UNCHANGED <<node, flag, dlease, heal, undrainer, healer, resume, left>>

\* pauseLease: a busy lease is left running into the stop.
PauseBegin(l) ==
  /\ drainer.pc = "pause" /\ l \in drainer.todo
  /\ drainer' = [drainer EXCEPT !.todo = @ \ {l}, !.now = IF dlease[l].busy THEN @ ELSE @ \cup {l}]
  /\ dlease' = [dlease EXCEPT ![l].busy = TRUE]
  /\ UNCHANGED <<node, flag, heal, undrainer, healer, resume, left>>

\* The pause build is written, unless the pause fails or the lease is gone.
PauseEnd(l) ==
  /\ l \in drainer.now
  /\ drainer' = [drainer EXCEPT !.now = @ \ {l}]
  /\ \/ /\ dlease[l].st = "running" /\ node.up
        /\ dlease' = [dlease EXCEPT ![l] = [st |-> "suspended", drained |-> TRUE, busy |-> FALSE]]
        /\ UNCHANGED left
     \/ /\ dlease[l].st # "running" \/ ~node.up
        /\ dlease' = [dlease EXCEPT ![l].busy = FALSE]
        /\ UNCHANGED left
     \/ /\ Spend("fault")
        /\ dlease' = [dlease EXCEPT ![l].busy = FALSE]
  /\ UNCHANGED <<node, flag, heal, undrainer, healer, resume>>

\* Mutant: sandboxes still starting are not counted.
QuiescedStarting == \A l \in DcLeases : dlease[l].st # "running"

\* NodeInfo reports no running sandbox and no outstanding work.
Quiesced == Working = {}

\* The quiesce wait ends: quiesced, or after its deadline.
DrainEnd ==
  /\ drainer.pc = "pause" /\ drainer.todo = {} /\ drainer.now = {}
  /\ drainer' = [Idle EXCEPT !.pc = IF Quiesced /\ node.up /\ node.draining THEN "quiesced" ELSE "idle"]
  /\ UNCHANGED <<node, flag, dlease, heal, undrainer, healer, resume, left>>

-----------------------------------------------------------------------------
(* undrain.                                                                *)

UndrainStart ==
  /\ undrainer.pc = "idle"
  /\ Spend("undrain")
  /\ flag' = [flag EXCEPT !.undraining = TRUE]
  /\ undrainer' = [Idle EXCEPT !.pc = "clear"]
  /\ UNCHANGED <<node, dlease, heal, drainer, healer, resume>>

\* SetDraining(false) reached the node: the drain is over for spoond too.
Cleared ==
  /\ node' = [node EXCEPT !.draining = FALSE]
  /\ flag' = [flag EXCEPT !.draining = FALSE, !.pending = FALSE, !.started = "none"]
  /\ drainer' = IF drainer.pc = "quiesced" THEN Idle ELSE drainer

\* After the readiness wait, which an unreachable node only outlasts.
UndrainClear ==
  /\ undrainer.pc = "clear" /\ GateFree
  /\ \/ /\ node.up
        /\ Cleared
        /\ undrainer' = [undrainer EXCEPT !.pc = "list"]
        /\ UNCHANGED left
     \/ /\ IF node.up THEN Spend("fault") ELSE UNCHANGED left
        /\ flag' = [flag EXCEPT !.pending = TRUE, !.undraining = FALSE]
        /\ undrainer' = Idle
        /\ UNCHANGED <<node, drainer>>
  /\ UNCHANGED <<dlease, heal, healer, resume>>

DrainedLeases == {l \in DcLeases : dlease[l].drained /\ ~Released(l)}

UndrainList ==
  /\ undrainer.pc = "list"
  /\ undrainer' = [Idle EXCEPT !.pc = "resume"]
  /\ resume' = [resume EXCEPT !["undrain"] = [l \in DcLeases |-> IF l \in DrainedLeases THEN "check" ELSE "no"]]
  /\ UNCHANGED <<node, flag, dlease, heal, drainer, healer, left>>

UndrainEnd ==
  /\ undrainer.pc = "resume"
  /\ \A l \in DcLeases : resume["undrain"][l] = "no"
  /\ undrainer' = Idle
  /\ flag' = [flag EXCEPT !.undraining = FALSE]
  /\ UNCHANGED <<node, dlease, heal, drainer, healer, resume, left>>

-----------------------------------------------------------------------------
(* One lease's resume: drainResumeOutcome for the undrain and the heal,    *)
(* resumeForUse for a work call.                                           *)

\* The undrain lets the heal start afresh on what it defers; a resume clears it.
Forget(p, l) == heal' = IF p = "undrain" THEN [heal EXCEPT ![l] = "none"] ELSE heal

\* resumeForUse: the gate's read side, then the flags.
UseBegin(l) ==
  /\ resume["use"][l] = "no"
  /\ ~flag.draining /\ ~flag.pending
  /\ dlease[l].st = "suspended"
  /\ Spend("client")
  /\ resume' = [resume EXCEPT !["use"][l] = "begin"]
  /\ UNCHANGED <<node, flag, dlease, heal, drainProcs>>

\* The draining flag is looked at before every attempt.
ResumeCheck(p, l) ==
  /\ resume[p][l] = "check"
  /\ resume' = [resume EXCEPT ![p][l] = IF flag.draining THEN "no" ELSE "begin"]
  /\ IF flag.draining THEN Forget(p, l) ELSE UNCHANGED heal
  /\ UNCHANGED <<node, flag, dlease, drainProcs, left>>

\* resumeLease: busy defers, a lost or running lease is settled at once (a
\* released one only after its sandbox started).
ResumeBegin(p, l) ==
  /\ resume[p][l] = "begin"
  /\ LET next == CASE dlease[l].busy -> "no"
                   [] ~dlease[l].busy /\ dlease[l].st = "running" -> "mark"
                   [] ~dlease[l].busy /\ dlease[l].st = "lost" -> "fail"
                   [] OTHER -> "create"
     IN  /\ resume' = [resume EXCEPT ![p][l] = IF p = "use" /\ next # "create" THEN "no" ELSE next]
         /\ dlease' = [dlease EXCEPT ![l].busy = @ \/ next = "create"]
         /\ IF next = "no" THEN Forget(p, l) ELSE UNCHANGED heal
  /\ UNCHANGED <<node, flag, drainProcs, left>>

\* The node takes the create, or a draining or unreachable node refuses it.
ResumeCreate(p, l) ==
  /\ resume[p][l] = "create"
  /\ \/ /\ node.up /\ ~node.draining
        /\ resume' = [resume EXCEPT ![p][l] = "boot"]
        /\ UNCHANGED <<dlease, heal>>
     \/ /\ node.draining \/ ~node.up
        /\ resume' = [resume EXCEPT ![p][l] = IF p # "use" /\ ~node.up THEN "wait" ELSE "no"]
        /\ dlease' = [dlease EXCEPT ![l].busy = FALSE]
        /\ Forget(p, l)
  /\ UNCHANGED <<node, flag, drainProcs, left>>

\* Mutant: the mark stays.
ResumedStillDrained(l) == [st |-> "running", drained |-> dlease[l].drained, busy |-> FALSE]

Resumed(l) == [st |-> "running", drained |-> FALSE, busy |-> FALSE]

\* The guest is up: the commit, or a stop when the lease was released meanwhile.
ResumeDone(p, l) ==
  /\ resume[p][l] = "boot" /\ node.up
  /\ IF Released(l)
     THEN /\ dlease' = [dlease EXCEPT ![l].busy = FALSE]
          /\ resume' = [resume EXCEPT ![p][l] = "no"]
          /\ UNCHANGED heal
     ELSE /\ dlease' = [dlease EXCEPT ![l] = Resumed(l)]
          /\ resume' = [resume EXCEPT ![p][l] = IF p = "use" THEN "no" ELSE "mark"]
          /\ heal' = [heal EXCEPT ![l] = "none"]
  /\ UNCHANGED <<node, flag, drainProcs, left>>

\* What follows an error: a deferral, a retry while the budget lasts, a loss.
AfterError(p, o) ==
  CASE p = "use" -> {"no"}
    [] p # "use" /\ o = "refused" -> {"no"}
    [] p # "use" /\ o = "notReady" -> {"wait", "no"}
    [] p # "use" /\ o = "envd" -> {"wait", "fail"}
    [] p # "use" /\ o = "notFound" -> {"lose"}

ResumeFault(p, l, o) ==
  /\ resume[p][l] = "boot"
  /\ IF node.up THEN Spend("fault") ELSE o = "notReady" /\ UNCHANGED left
  /\ dlease' = [dlease EXCEPT ![l].busy = FALSE]
  /\ \E next \in AfterError(p, o) :
       /\ resume' = [resume EXCEPT ![p][l] = next]
       /\ IF next = "no" THEN Forget(p, l) ELSE UNCHANGED heal
  /\ UNCHANGED <<node, flag, drainProcs>>

\* The backoff is over and the gate is taken again; or the window closed.
ResumeRetry(p, l) ==
  /\ resume[p][l] = "wait"
  /\ \/ resume' = [resume EXCEPT ![p][l] = "check"] /\ UNCHANGED heal
     \/ resume' = [resume EXCEPT ![p][l] = "no"] /\ Forget(p, l)
  /\ UNCHANGED <<node, flag, dlease, drainProcs, left>>

\* drainResumeOutcome after a success: the mark is cleared once more.
ResumeMark(p, l) ==
  /\ resume[p][l] = "mark"
  /\ resume' = [resume EXCEPT ![p][l] = "no"]
  /\ dlease' = IF Released(l) THEN dlease ELSE [dlease EXCEPT ![l].drained = FALSE]
  /\ heal' = [heal EXCEPT ![l] = "none"]
  /\ UNCHANGED <<node, flag, drainProcs, left>>

\* Mutant: any lease not released may be lost.
LossAlways(l) == ~Released(l)

\* undrainLossAllowed
LossAllowed(l) == dlease[l].st = "suspended" /\ ~dlease[l].busy

\* The build is gone: the lease is lost if nobody works on it.
ResumeLose(p, l) ==
  /\ resume[p][l] = "lose"
  /\ resume' = [resume EXCEPT ![p][l] = "no"]
  /\ heal' = [heal EXCEPT ![l] = "none"]
  /\ dlease' = [dlease EXCEPT ![l].st = IF LossAllowed(l) THEN "lost" ELSE @,
                              ![l].drained = @ /\ ~LossAllowed(l) /\ dlease[l].st # "lost"]
  /\ UNCHANGED <<node, flag, drainProcs, left>>

\* markResumeFailed: the lease stays drained, unless it is lost already.
ResumeFail(p, l) ==
  /\ resume[p][l] = "fail"
  /\ resume' = [resume EXCEPT ![p][l] = "no"]
  /\ dlease' = [dlease EXCEPT ![l].drained = @ /\ dlease[l].st # "lost"]
  /\ Forget(p, l)
  /\ UNCHANGED <<node, flag, drainProcs, left>>

-----------------------------------------------------------------------------
(* healDrain.                                                              *)

\* Mutant: no drain is ever too old.
StaleNever == FALSE

\* drainStale: the drain outlived DRAIN_MAX_SECS.
Stale == flag.started = "old"

\* Nothing to do, or the pass begins: what NodeInfo says decides the way.
HealBegin ==
  /\ healer.pc = "idle" /\ ~flag.undraining /\ node.up
  /\ flag.draining \/ flag.pending \/ DrainedLeases # {}
  /\ \/ /\ (flag.draining /\ Stale) \/ flag.pending
        /\ healer' = [Idle EXCEPT !.pc = "clear"]
     \/ /\ ~node.draining /\ ~flag.draining /\ ~flag.pending
        /\ healer' = [Idle EXCEPT !.pc = "list"]
  /\ UNCHANGED <<node, flag, dlease, heal, drainer, undrainer, resume, left>>

HealClear ==
  /\ healer.pc = "clear" /\ GateFree
  /\ \/ /\ node.up
        /\ Cleared
        /\ healer' = [Idle EXCEPT !.pc = "list"]
        /\ UNCHANGED left
     \/ /\ IF node.up THEN Spend("fault") ELSE UNCHANGED left
        /\ healer' = Idle
        /\ UNCHANGED <<node, flag, drainer>>
  /\ UNCHANGED <<dlease, heal, undrainer, resume>>

\* Mutant: a lease deferred once is not tried again.
HealTargetsOnce == {l \in DrainedLeases : heal[l] # "trying"}

HealTargets == DrainedLeases

\* The drained leases, with the heal's memory of the others pruned.
HealList ==
  /\ healer.pc = "list"
  /\ IF flag.draining \/ flag.pending
     THEN healer' = Idle /\ UNCHANGED heal
     ELSE /\ healer' = [Idle EXCEPT !.pc = "resume", !.todo = HealTargets]
          /\ heal' = [l \in DcLeases |-> IF l \in DrainedLeases THEN heal[l] ELSE "none"]
  /\ UNCHANGED <<node, flag, dlease, drainer, undrainer, resume, left>>

\* One lease after another: given up on at DRAIN_RESUME_MAX_AGE, not due yet
\* (which the next pass makes up for), or resumed.
HealLease(l) ==
  /\ healer.pc = "resume" /\ l \in healer.todo
  /\ \A k \in DcLeases : resume["heal"][k] = "no"
  /\ healer' = [healer EXCEPT !.todo = @ \ {l}]
  /\ \/ /\ heal[l] # "gaveUp"
        /\ heal' = [heal EXCEPT ![l] = "trying"]
        /\ resume' = [resume EXCEPT !["heal"][l] = "check"]
     \/ /\ heal[l] \in {"trying", "gaveUp"}
        /\ heal' = [heal EXCEPT ![l] = "gaveUp"]
        /\ UNCHANGED resume
  /\ UNCHANGED <<node, flag, dlease, drainer, undrainer, left>>

HealEnd ==
  /\ healer.pc = "resume" /\ healer.todo = {}
  /\ \A k \in DcLeases : resume["heal"][k] = "no"
  /\ healer' = Idle
  /\ UNCHANGED <<node, flag, dlease, heal, drainer, undrainer, resume, left>>

-----------------------------------------------------------------------------
(* Clients, time, the node and the backend.                                *)

\* DRAIN_MAX_SECS pass.
DrainAges ==
  /\ flag.started = "fresh"
  /\ flag' = [flag EXCEPT !.started = "old"]
  /\ UNCHANGED <<node, dlease, heal, drainProcs, resume, left>>

\* A client's operation takes the busy flag; it ends with the lease suspended or as it was.
ClientBegin(l) ==
  /\ dlease[l].st = "running" /\ ~dlease[l].busy
  /\ Spend("client")
  /\ dlease' = [dlease EXCEPT ![l].busy = TRUE]
  /\ UNCHANGED <<node, flag, heal, drainProcs, resume>>

\* The flag is the client's: neither the drain nor a resume holds it.
ClientHolds(l) ==
  dlease[l].busy /\ l \notin drainer.now /\ \A p \in Resumers : resume[p][l] \notin {"create", "boot"}

ClientEnd(l) ==
  /\ ClientHolds(l)
  /\ \E st \in {dlease[l].st} \cup (IF dlease[l].st = "running" THEN {"suspended"} ELSE {}) :
       dlease' = [dlease EXCEPT ![l].busy = FALSE, ![l].st = st]
  /\ UNCHANGED <<node, flag, heal, drainProcs, resume, left>>

UserReleases(l) ==
  /\ ~Released(l) /\ Spend("client")
  /\ dlease' = [dlease EXCEPT ![l].st = "released"]
  /\ UNCHANGED <<node, flag, heal, drainProcs, resume>>

\* The orchestrator becomes unreachable, and answers again: still draining
\* after an outage of the connection, or restarted.
NodeDown ==
  /\ node.up /\ Spend("outage")
  /\ node' = [node EXCEPT !.up = FALSE]
  /\ UNCHANGED <<flag, dlease, heal, drainProcs, resume>>

NodeUp ==
  /\ ~node.up
  /\ \E d \in {node.draining, FALSE} : node' = [up |-> TRUE, draining |-> d]
  /\ UNCHANGED <<flag, dlease, heal, drainProcs, resume, left>>

\* adoptDrainState: an unreachable node is taken for one that is not draining.
Adopted ==
  IF node.up /\ node.draining THEN [NotDraining EXCEPT !.draining = TRUE, !.started = "fresh"]
  ELSE NotDraining

BackendRestart ==
  /\ Spend("restart")
  /\ flag' = Adopted
  /\ dlease' = [l \in DcLeases |-> [dlease[l] EXCEPT !.busy = FALSE]]
  /\ heal' = [l \in DcLeases |-> "none"]
  /\ drainer' = Idle /\ undrainer' = Idle /\ healer' = Idle
  /\ resume' = NoResume
  /\ UNCHANGED node

-----------------------------------------------------------------------------
ResumeStep(p, l) ==
  \/ ResumeCheck(p, l) \/ ResumeBegin(p, l) \/ ResumeCreate(p, l) \/ ResumeDone(p, l)
  \/ (\E o \in DcFaults : ResumeFault(p, l, o)) \/ ResumeRetry(p, l)
  \/ ResumeMark(p, l) \/ ResumeLose(p, l) \/ ResumeFail(p, l)

DrainStep == DrainList \/ DrainEnd \/ \E l \in DcLeases : PauseBegin(l) \/ PauseEnd(l)

UndrainStep == UndrainClear \/ UndrainList \/ UndrainEnd

HealStep == HealBegin \/ HealClear \/ HealList \/ HealEnd \/ \E l \in DcLeases : HealLease(l)

DCNext ==
  \/ DrainBegins \/ DrainStep \/ UndrainStart \/ UndrainStep \/ HealStep
  \/ \E l \in DcLeases : \/ UseBegin(l) \/ ClientBegin(l) \/ ClientEnd(l) \/ UserReleases(l)
                         \/ \E p \in Resumers : ResumeStep(p, l)
  \/ DrainAges \/ NodeDown \/ NodeUp \/ BackendRestart

DCSpec == DCInit /\ [][DCNext]_dcvars

-----------------------------------------------------------------------------
(* Properties.                                                             *)

\* A drain that answered quiesced keeps its word while the node drains: no
\* lease runs and none is being started, whichever resume of an undrain was
\* in flight when the drain began (drain, resumeDrainedLease).
QuiescedStaysStopped == drainer.pc = "quiesced" /\ node.draining => Working = {}

\* The Drained mark tells the truth: a marked lease is suspended, so neither
\* the take-back nor the undrain passes over a running one on its account
\* (pauseLease, resumeLease, drainResumeOutcome).
DrainedIsSuspended == \A l \in DcLeases : dlease[l].drained => dlease[l].st \in {"suspended", "released"}

\* A lease that fails to resume is lost only while it is suspended and
\* nobody works on it, never under a client's resume that went ahead
\* meanwhile (undrainLossAllowed).
LossSpares ==
  [][\A l \in DcLeases : dlease'[l].st = "lost" /\ dlease[l].st # "lost"
       => \A p \in Resumers : resume[p][l] \notin {"create", "boot"} /\ dlease[l].st = "suspended"]_dcvars

\* A node does not refuse creates for ever: every drain is lifted in the
\* end, by the undrain or by the self-heal loop (healDrain, drainStale).
DrainLifted == node.draining ~> ~node.draining

\* No lease is forgotten: a drained lease is resumed, lost, released or
\* given up on, whatever failed or restarted (undrain, healDrain).
DrainedSettled ==
  \A l \in DcLeases : dlease[l].drained ~> (~dlease[l].drained \/ Released(l) \/ heal[l] = "gaveUp")

\* A drain keeps what it said: a quiesced node stays quiet, a marked lease is
\* suspended, and no lease is called lost under a client that is resuming it.
DrainHolds ==
  /\ []QuiescedStaysStopped
  /\ []DrainedIsSuspended
  /\ LossSpares
=============================================================================
