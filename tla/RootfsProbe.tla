---------------------------- MODULE RootfsProbe ----------------------------
(***************************************************************************)
(* The rootfs liveness probe (api/rootfs_probe.go): passes that probe the  *)
(* running leases one after another, the count of consecutive failures and *)
(* the clock of a silent guest, and the recovery that takes a lease whose  *)
(* disk is dead or whose guest is hung.  A pass and the recovery interleave *)
(* with execs, lifecycle operations, releases and the admin drain.         *)
(*                                                                         *)
(* Passes are one probe interval apart, so time counts in passes.          *)
(***************************************************************************)
EXTENDS Integers, FiniteSets

CONSTANTS
    RpLeases,
    ProbeThreshold,    \* rootfsProbeFailuresThreshold
    UnreachableAfter,  \* GUEST_UNREACHABLE_SECS, in passes
    RpMoves,           \* disturbances in one behaviour
    RpScenarios        \* what may happen: one set of names per behaviour

VARIABLES
    rpLease,    \* sandbox number, busy holder, live, waiting for a recovery retry
    rpGuest,    \* how the sandbox answers a probe
    rpFails,    \* rootfsProbeFails
    rpSilent,   \* guestUnreachable, with the passes since the last silent probe
    rpAlive,    \* leases with a success since the last pass began (rootfsProbeOK)
    rpPass,     \* the pass: step, leases to probe, outcomes, leases answering
    rpDraining, rpPressed,
    rpRun,      \* per lease: failing probes of its sandbox since a probe succeeded, passes
                \* begun since its last success, and whether a probe was out when the
                \* sandbox was replaced
    rpTaken,    \* how the last recovery was justified
    rpMoves, rpmay

rpvars == <<rpLease, rpGuest, rpFails, rpSilent, rpAlive, rpPass, rpDraining, rpPressed, rpRun,
            rpTaken, rpMoves, rpmay>>

RpMay(x) == x \in rpmay
RpMin(a, b) == IF a < b THEN a ELSE b
NoFails == [sandbox |-> 0, count |-> 0]
NotSilent == [sandbox |-> 0, silent |-> 0, gap |-> 0, pressed |-> FALSE]
NoRun == [bad |-> 0, quiet |-> 0, stale |-> FALSE]
NoProbePass == [pc |-> "idle", todo |-> {}, out |-> [l \in {} |-> ""], answering |-> {}, pressed |-> FALSE]
NotTaken == [cause |-> "none", lease |-> 0, run |-> NoRun]

RPInit ==
    /\ rpmay \in RpScenarios /\ rpMoves = RpMoves
    /\ rpLease = [l \in RpLeases |-> [sandbox |-> 1, busy |-> {}, live |-> TRUE, retry |-> FALSE]]
    /\ rpGuest = [l \in RpLeases |-> "ok"]
    /\ rpFails = [l \in RpLeases |-> NoFails] /\ rpSilent = [l \in RpLeases |-> NotSilent]
    /\ rpAlive = {} /\ rpPass = NoProbePass /\ rpDraining = FALSE /\ rpPressed = FALSE
    /\ rpRun = [l \in RpLeases |-> NoRun] /\ rpTaken = NotTaken

-----------------------------------------------------------------------------
(***************************************************************************)
(* What happens around the probe.                                          *)
(***************************************************************************)

\* A disturbance of the scenario, within the bound.
RpMove(kind) == RpMay(kind) /\ rpMoves > 0 /\ rpMoves' = rpMoves - 1 /\ UNCHANGED rpmay

\* A guest's disk dies or heals, the guest hangs, its agent dies, or its state cannot be
\* confirmed.
GuestTurns(l) ==
    /\ rpLease[l].live /\ ~rpLease[l].retry
    /\ \E how \in {"ok", "eio", "slow", "mute", "away"} :
        /\ how # rpGuest[l] /\ RpMove(how)
        /\ rpGuest' = [rpGuest EXCEPT ![l] = how]
    /\ UNCHANGED <<rpLease, rpFails, rpSilent, rpAlive, rpPass, rpDraining, rpPressed, rpRun, rpTaken>>

\* The pass has probed the lease and not judged it yet.
Unjudged(l) == l \in DOMAIN rpPass.out /\ (rpPass.pc = "probe" \/ l \in rpPass.todo)

\* A successful exec through the API (recordRootfsAlive): the clock stops, the next pass
\* skips the lease, the count of failures stays.  With a dead disk what the page cache
\* holds still runs.
ExecSucceeds(l) ==
    /\ rpLease[l].live /\ rpGuest[l] \in {"ok", "slow", "eio"}
    /\ RpMove("exec")
    /\ rpAlive' = rpAlive \cup {l}
    /\ rpSilent' = [rpSilent EXCEPT ![l] = NotSilent]
    /\ rpRun' = [rpRun EXCEPT ![l] = [@ EXCEPT !.quiet = 0]]
    /\ UNCHANGED <<rpLease, rpGuest, rpFails, rpPass, rpDraining, rpPressed, rpTaken>>

\* Another operation takes the lease: a checkpoint keeps its sandbox, a pause stops
\* it, a restart replaces it.
OpTakes(l) ==
    /\ rpLease[l].busy = {} /\ rpLease[l].live /\ RpMove("op")
    /\ rpLease' = [rpLease EXCEPT ![l].busy = {"op"}]
    /\ UNCHANGED <<rpGuest, rpFails, rpSilent, rpAlive, rpPass, rpDraining, rpPressed, rpRun, rpTaken>>

OpEnds(l) ==
    /\ "op" \in rpLease[l].busy
    /\ \/ /\ rpLease' = [rpLease EXCEPT ![l].busy = {}]
          /\ UNCHANGED <<rpGuest, rpRun>>
       \/ /\ rpLease' = [rpLease EXCEPT ![l].busy = {}, ![l].live = FALSE]
          /\ UNCHANGED <<rpGuest, rpRun>>
       \/ /\ rpLease' = [rpLease EXCEPT ![l].busy = {}, ![l].sandbox = @ + 1, ![l].retry = FALSE]
          /\ rpGuest' = [rpGuest EXCEPT ![l] = "ok"]
          /\ rpRun' = [rpRun EXCEPT ![l] = [NoRun EXCEPT !.stale = Unjudged(l)]]
    /\ UNCHANGED <<rpFails, rpSilent, rpAlive, rpPass, rpDraining, rpPressed, rpTaken, rpMoves, rpmay>>

\* A release asks for no busy flag, and ends in forgetRootfs.
RpRelease(l) ==
    /\ rpLease[l].live /\ RpMove("release")
    /\ rpLease' = [rpLease EXCEPT ![l].live = FALSE]
    /\ rpFails' = [rpFails EXCEPT ![l] = NoFails] /\ rpSilent' = [rpSilent EXCEPT ![l] = NotSilent]
    /\ rpAlive' = rpAlive \ {l}
    /\ UNCHANGED <<rpGuest, rpPass, rpDraining, rpPressed, rpRun, rpTaken>>

\* The drain takes the write side of drainGate: no recovery is in flight.
RpDrain ==
    /\ RpMove("drain") /\ rpPass.pc # "recover"
    /\ rpDraining' = ~rpDraining
    /\ UNCHANGED <<rpLease, rpGuest, rpFails, rpSilent, rpAlive, rpPass, rpPressed, rpRun, rpTaken>>

\* The host goes over its saturation targets, or comes back.
PressureTurns ==
    /\ RpMove("pressure")
    /\ rpPressed' = ~rpPressed
    /\ UNCHANGED <<rpLease, rpGuest, rpFails, rpSilent, rpAlive, rpPass, rpDraining, rpRun, rpTaken>>

-----------------------------------------------------------------------------
(***************************************************************************)
(* A pass.                                                                 *)
(***************************************************************************)

\* probeRootfsLeases: the targets are the running leases no operation holds, without a
\* pending retry and without a recent success; those with one are answering.
PassBegins ==
    /\ rpPass.pc = "idle" /\ ~rpDraining
    /\ LET free == {l \in RpLeases : rpLease[l].live /\ rpLease[l].busy = {} /\ ~rpLease[l].retry}
           targets == free \ rpAlive
       IN rpPass' = IF targets = {} THEN NoProbePass
                    ELSE [NoProbePass EXCEPT !.pc = "probe", !.todo = targets, !.answering = free \cap rpAlive]
    /\ rpAlive' = {}
    /\ rpSilent' = [l \in RpLeases |->
                      IF rpSilent[l] = NotSilent THEN NotSilent
                      ELSE [rpSilent[l] EXCEPT !.gap = RpMin(@ + 1, UnreachableAfter)]]
    /\ rpRun' = [l \in RpLeases |-> [rpRun[l] EXCEPT !.quiet = RpMin(@ + 1, UnreachableAfter)]]
    /\ UNCHANGED <<rpLease, rpGuest, rpFails, rpDraining, rpPressed, rpTaken, rpMoves, rpmay>>

\* What the probes of a lease's sandbox have said since its last success.
RunAfter(run, how) ==
    CASE how = "ok" -> NoRun
      [] how \in {"eio", "mute"} -> [run EXCEPT !.bad = RpMin(@ + 1, ProbeThreshold)]
      [] OTHER -> run

\* probeRootfsOnce against one target.  A drain that began stops the pass.
ProbeOne(l) ==
    /\ rpPass.pc = "probe" /\ l \in rpPass.todo
    /\ IF rpDraining
       THEN rpPass' = NoProbePass /\ UNCHANGED rpRun
       ELSE /\ rpPass' = [rpPass EXCEPT !.todo = @ \ {l},
                                        !.out = [t \in DOMAIN rpPass.out \cup {l} |->
                                                   IF t = l THEN rpGuest[l] ELSE rpPass.out[t]]]
            /\ rpRun' = [rpRun EXCEPT ![l] = RunAfter(@, rpGuest[l])]
    /\ UNCHANGED <<rpLease, rpGuest, rpFails, rpSilent, rpAlive, rpDraining, rpPressed, rpTaken,
                   rpMoves, rpmay>>

\* Mutant: an outage is judged like any other pass.
AllUnknownNever(out) == FALSE

\* No probe of the pass proved the orchestrator reachable.
AllUnknown(out) == \A t \in DOMAIN out : out[t] \in {"mute", "away"}

PassWeighs ==
    /\ rpPass.pc = "probe" /\ rpPass.todo = {}
    /\ rpPass' = IF AllUnknown(rpPass.out) THEN NoProbePass
                 ELSE [rpPass EXCEPT !.pc = "judge", !.todo = DOMAIN rpPass.out, !.pressed = rpPressed,
                         !.answering = @ \cup {t \in DOMAIN rpPass.out : rpPass.out[t] = "ok"}]
    /\ UNCHANGED <<rpLease, rpGuest, rpFails, rpSilent, rpAlive, rpDraining, rpPressed, rpRun, rpTaken,
                   rpMoves, rpmay>>

\* Mutant: the failures of a replaced sandbox go on counting.
CountedOn(l) == [sandbox |-> rpLease[l].sandbox, count |-> rpFails[l].count + 1]

\* countRootfsFailure's count: a replaced sandbox starts again.
Counted(l) ==
    [sandbox |-> rpLease[l].sandbox,
     count |-> IF rpFails[l].sandbox = rpLease[l].sandbox THEN rpFails[l].count + 1 ELSE 1]

\* Mutant: the clock holds the last interval only.
SilentForLast(l) ==
    IF rpSilent[l].sandbox # rpLease[l].sandbox
    THEN [sandbox |-> rpLease[l].sandbox, silent |-> 0, gap |-> 0, pressed |-> rpPass.pressed]
    ELSE [rpSilent[l] EXCEPT !.silent = rpSilent[l].gap, !.gap = 0, !.pressed = rpPass.pressed]

\* guestUnreachableFor: the time since the last silent probe counts on a host calm at both.
SilentFor(l) ==
    IF rpSilent[l].sandbox # rpLease[l].sandbox
    THEN [sandbox |-> rpLease[l].sandbox, silent |-> 0, gap |-> 0, pressed |-> rpPass.pressed]
    ELSE [rpSilent[l] EXCEPT
            !.silent = IF rpPass.pressed \/ rpSilent[l].pressed THEN @
                       ELSE RpMin(@ + rpSilent[l].gap, UnreachableAfter),
            !.gap = 0, !.pressed = rpPass.pressed]

\* checkGuestUnreachable's cutoff.
Unreachable(l) ==
    SilentFor(l).silent >= UnreachableAfter /\ rpPass.answering # {} /\ ~rpPass.pressed

\* Mutant: the recovery does not look at the drain or the lease again.
RecoverableStale(l) == TRUE

\* recoverProbedLease's two gates: the drain, then the lease itself.
Recoverable(l) == ~rpDraining /\ rpLease[l].live /\ rpLease[l].busy = {}

\* recoverProbedLease's start, under the gate's read side; or it stands down and the
\* count is dropped.
Recovers(l, cause, fails) ==
    IF Recoverable(l)
    THEN /\ rpLease' = [rpLease EXCEPT ![l].busy = @ \cup {"probe"}]
         /\ rpPass' = [rpPass EXCEPT !.pc = "recover", !.todo = (@ \ {l})]
         /\ rpTaken' = [cause |-> cause, lease |-> l, run |-> rpRun[l]]
         /\ rpFails' = [rpFails EXCEPT ![l] = fails]
    ELSE /\ rpPass' = [rpPass EXCEPT !.todo = @ \ {l}]
         /\ rpFails' = [rpFails EXCEPT ![l] = NoFails]
         /\ UNCHANGED <<rpLease, rpTaken>>

\* The switch over one target's outcome; a drain stops the loop.
JudgeOne(l) ==
    /\ rpPass.pc = "judge" /\ l \in rpPass.todo
    /\ IF rpDraining
       THEN rpPass' = NoProbePass /\ UNCHANGED <<rpFails, rpSilent, rpAlive, rpLease, rpTaken>>
       ELSE
       CASE rpPass.out[l] = "ok" ->
              /\ rpAlive' = rpAlive \cup {l}
              /\ rpSilent' = [rpSilent EXCEPT ![l] = NotSilent]
              /\ rpFails' = [rpFails EXCEPT ![l] = NoFails]
              /\ rpPass' = [rpPass EXCEPT !.todo = @ \ {l}]
              /\ UNCHANGED <<rpLease, rpTaken>>
         [] rpPass.out[l] \in {"slow", "away"} ->
              /\ rpSilent' = [rpSilent EXCEPT ![l] = SilentFor(l)]
              /\ IF Unreachable(l) THEN Recovers(l, "unreachable", rpFails[l])
                 ELSE rpPass' = [rpPass EXCEPT !.todo = @ \ {l}] /\ UNCHANGED <<rpFails, rpLease, rpTaken>>
              /\ UNCHANGED rpAlive
         [] rpPass.out[l] \in {"eio", "mute"} ->
              /\ rpSilent' = [rpSilent EXCEPT ![l] = IF rpPass.out[l] = "mute" THEN SilentFor(l) ELSE @]
              /\ IF Counted(l).count >= ProbeThreshold THEN Recovers(l, "dead", Counted(l))
                 ELSE /\ rpFails' = [rpFails EXCEPT ![l] = Counted(l)]
                      /\ rpPass' = [rpPass EXCEPT !.todo = @ \ {l}]
                      /\ UNCHANGED <<rpLease, rpTaken>>
              /\ UNCHANGED rpAlive
    /\ UNCHANGED <<rpGuest, rpDraining, rpPressed, rpRun, rpMoves, rpmay>>

\* The sandbox is deleted and recoverOneLease runs: a new sandbox, a loss, or a retry left
\* to the reconcile; then forgetRootfs.
RecoverEnds ==
    /\ rpPass.pc = "recover"
    /\ LET l == rpTaken.lease
       IN /\ \E how \in {"recovered", "lost", "retry"} :
              rpLease' = [rpLease EXCEPT
                  ![l].busy = {}, ![l].live = @ /\ how # "lost", ![l].retry = how = "retry",
                  ![l].sandbox = IF how = "recovered" THEN @ + 1 ELSE @]
          /\ rpGuest' = [rpGuest EXCEPT ![l] = IF rpLease'[l].retry THEN "mute" ELSE "ok"]
          /\ rpFails' = [rpFails EXCEPT ![l] = NoFails] /\ rpSilent' = [rpSilent EXCEPT ![l] = NotSilent]
          /\ rpAlive' = rpAlive \ {l}
          /\ rpRun' = [rpRun EXCEPT ![l] = NoRun]
    /\ rpPass' = [rpPass EXCEPT !.pc = "judge"] /\ rpTaken' = NotTaken
    /\ UNCHANGED <<rpDraining, rpPressed, rpMoves, rpmay>>

PassEnds ==
    /\ rpPass.pc = "judge" /\ rpPass.todo = {}
    /\ rpPass' = NoProbePass
    /\ UNCHANGED <<rpLease, rpGuest, rpFails, rpSilent, rpAlive, rpDraining, rpPressed, rpRun, rpTaken,
                   rpMoves, rpmay>>

-----------------------------------------------------------------------------
RpPassStep == PassBegins \/ PassWeighs \/ RecoverEnds \/ PassEnds \/ \E l \in RpLeases : ProbeOne(l) \/ JudgeOne(l)

RPNext ==
    \/ PassBegins \/ PassWeighs \/ RecoverEnds \/ PassEnds
    \/ \E l \in RpLeases : ProbeOne(l) \/ JudgeOne(l)
    \/ \E l \in RpLeases : GuestTurns(l) \/ ExecSucceeds(l) \/ OpTakes(l) \/ OpEnds(l) \/ RpRelease(l)
    \/ RpDrain \/ PressureTurns
    \/ rpDraining /\ rpMoves = 0 /\ UNCHANGED rpvars

RPSpec == RPInit /\ [][RPNext]_rpvars

-----------------------------------------------------------------------------
\* A lease is taken for a dead disk only when ProbeThreshold probes of the sandbox it has
\* failed with no successful probe in between, and some guest answered in the pass; a
\* probe that was out when the sandbox was replaced counts against the new one, once and
\* never more.  It is taken for a hung guest only when its sandbox had no success for
\* UnreachableAfter passes and another lease answers (countRootfsFailure,
\* checkGuestUnreachable).
TakenWithCause ==
    CASE rpTaken.cause = "dead" ->
           /\ rpTaken.run.bad >= ProbeThreshold - (IF rpTaken.run.stale THEN 1 ELSE 0)
           /\ \E t \in DOMAIN rpPass.out : rpPass.out[t] \in {"ok", "eio", "slow"}
      [] rpTaken.cause = "unreachable" ->
           rpTaken.run.quiet >= UnreachableAfter /\ rpPass.answering \ {rpTaken.lease} # {}
      [] OTHER -> TRUE

\* A recovery never runs during a drain nor beside another operation on its lease,
\* although the pass chose its targets before (drainGate, the busy flag); a release may
\* overtake it, and then the lease stays released.
RecoversAlone ==
    rpPass.pc = "recover" => ~rpDraining /\ rpLease[rpTaken.lease].busy = {"probe"}

\* A running lease whose disk stays dead is taken out of it: the passes go on and the
\* count reaches the threshold, unless the node drains or the lease waits for a retry.
DeadDiskIsTaken ==
    \A l \in RpLeases :
        rpLease[l].live /\ rpGuest[l] = "eio" ~>
            \/ rpGuest[l] # "eio" \/ ~rpLease[l].live \/ rpLease[l].retry \/ rpDraining

\* A guest that stays hung while another lease answers is taken too, on a calm host.
HungGuestIsTaken ==
    \A l \in RpLeases :
        rpLease[l].live /\ rpGuest[l] = "slow" ~>
            \/ rpGuest[l] # "slow" \/ ~rpLease[l].live \/ rpLease[l].retry \/ rpDraining \/ rpPressed
            \/ \A o \in RpLeases \ {l} : rpGuest[o] # "ok" \/ ~rpLease[o].live \/ rpLease[o].retry

\* A lease is taken for a dead disk only on evidence about its own sandbox, and
\* by nobody else at the same time.
ProbeIsFair ==
  /\ TakenWithCause
  /\ RecoversAlone
=============================================================================
