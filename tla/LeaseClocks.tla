---------------------------- MODULE LeaseClocks ----------------------------
(***************************************************************************)
(* The clocks of one lease: its TTL, its own idle_suspend threshold, the   *)
(* paused-release clock with its warning, the pinned-idle notice and the   *)
(* periodic checkpoint.  Two loops read them (sweepExpired in              *)
(* api/service.go, checkpointIdleLeases in api/checkpoint.go), each        *)
(* collecting under the store lock and acting after it, while the owner's  *)
(* calls move them.                                                        *)
(***************************************************************************)
EXTENDS Integers

CONSTANTS
    LcBound,          \* the last instant of the model
    IdleAfter,        \* the lease's idle_suspend threshold
    PausedRelease,    \* PAUSED_RELEASE_DAYS
    PausedLead,       \* pausedExpiringLead: how long before it the warning goes
    PinnedIdleAfter,  \* PINNED_IDLE_NOTICE_DAYS
    CheckpointEvery,  \* the lease's checkpoint interval
    LcScenarios       \* what may happen: one set of names per behaviour

ASSUME LcAssumption ==
    /\ {LcBound, IdleAfter, PausedRelease, PausedLead, PinnedIdleAfter, CheckpointEvery} \subseteq Nat \ {0}
    /\ PausedLead < PausedRelease

VARIABLES
    clk,      \* the wall clock; 0 is the zero time of an unset stamp
    lz,       \* the lease in memory
    lzRow,    \* the persisted part of it: the leases row
    dirtyAt,  \* lastActiveDirty[id], 0 when absent
    slot,     \* who holds the one slot of the snapshot limiter
    sw,       \* the sweeper's pass: pc, its captured now, what it collected
    ck,       \* the checkpoint pass: pc and its captured now
    hand,     \* the owner's pause or resume in flight
    swept,    \* the last instant each loop finished a pass
    was,      \* history: what really happened to the lease
    lcmay     \* the scenario

lcvars == <<clk, lz, lzRow, dirtyAt, slot, sw, ck, hand, swept, was, lcmay>>

\* What rowToLease brings back; open work, pins of execs, jobs and the
\* deferral stamp live in memory only.
RowOf(l) == [x \in {"released", "susp", "pinned", "idle", "lastActive", "expires",
                    "pausedAt", "notified", "pidle", "lastCk"} |-> l[x]]

FirstLease ==
    [released |-> "no", susp |-> FALSE, busy |-> FALSE, pinned |-> FALSE,
     execPins |-> 0, persistent |-> "ttl" \notin lcmay,
     idle |-> IF "idle" \in lcmay THEN IdleAfter ELSE 0,
     lastActive |-> 1, expires |-> 3, pausedAt |-> 0, notified |-> FALSE,
     pidle |-> 0, openWork |-> 0, jobs |-> 0, lastCk |-> 1, deferred |-> 0]

LCInit ==
    /\ lcmay \in LcScenarios
    /\ clk = 1
    /\ lz = FirstLease
    /\ lzRow = RowOf(FirstLease)
    /\ dirtyAt = 0
    /\ slot = "free"
    /\ sw = [pc |-> "off", now |-> 0, picked |-> FALSE, expired |-> FALSE]
    /\ ck = [pc |-> "off", now |-> 0]
    /\ hand = "none"
    /\ swept = [sweep |-> 1, ckpt |-> 1]
    /\ was = [used |-> 1, paused |-> 0, warned |-> FALSE, open |-> 0,
              took |-> [idle |-> FALSE, kept |-> FALSE]]

May(x) == x \in lcmay

LzPinned(l) == l.pinned \/ l.execPins > 0

\* effectiveIdleSuspend: 0 (never) for a pinned or non-persistent lease.
EffectiveIdleSuspend(l) ==
    IF ~l.persistent \/ l.pinned THEN 0 ELSE l.idle

EffectiveCheckpointInterval == IF May("ckpt") THEN CheckpointEvery ELSE 0

\* saveLeaseLocked: the whole row.
LcSave == lzRow' = RowOf(lz')

-----------------------------------------------------------------------------
(***************************************************************************)
(* The owner's calls.                                                      *)
(***************************************************************************)

\* Two stamps of the wall clock never coincide, so an activity is stamped in a
\* later instant than the last checkpoint.  One that falls between a checkpoint's
\* snapshot and its stamp is a scenario of its own.
CanStamp == clk > lz.lastCk /\ (ck.pc = "stamp" => May("during"))

\* The window between the sweeper's re-check and the pause's own lock.
Windowed == sw.pc = "claim" => May("window")

Stamped(l) == [l EXCEPT !.lastActive = clk]

UsedNow(h) ==
    [h EXCEPT !.used = clk,
              !.open = IF @ = 0 /\ ~lz.susp THEN clk ELSE @]

\* touch: exec, stream, files, proxy and dial stamp memory; the row waits for
\* the sweeper.
Touch ==
    /\ May("use") /\ lz.released = "no" /\ ~lz.susp /\ CanStamp /\ Windowed
    /\ lz' = Stamped(lz)
    /\ dirtyAt' = clk
    /\ was' = UsedNow(was)
    /\ UNCHANGED <<clk, lzRow, slot, sw, ck, hand, swept, lcmay>>

\* Mutant: the heartbeat leaves the batched stamp of an earlier touch behind.
DirtyAfterMarkKept == dirtyAt

\* markActive persists its stamp and drops the batched one.
DirtyAfterMark == 0

MarkActive ==
    /\ May("beat") /\ lz.released = "no" /\ ~lz.susp /\ CanStamp /\ Windowed
    /\ lz' = Stamped(lz)
    /\ dirtyAt' = DirtyAfterMark
    /\ was' = UsedNow(was)
    /\ LcSave
    /\ UNCHANGED <<clk, slot, sw, ck, hand, swept, lcmay>>

\* Mutant: a keep-alive of a lease with a TTL is taken too.
MayKeepAliveAny(l) == TRUE

MayKeepAlive(l) == l.persistent

\* keepAlive: activity, and a new expiry.  The batched stamp of an earlier
\* touch stays behind; passing scenarios call it with none pending.
KeepAlive ==
    /\ May("keepalive") /\ lz.released = "no" /\ MayKeepAlive(lz) /\ CanStamp /\ Windowed
    /\ dirtyAt = 0 \/ May("batched")
    /\ lz' = [Stamped(lz) EXCEPT !.expires = clk + 2]
    /\ was' = UsedNow(was)
    /\ LcSave
    /\ UNCHANGED <<clk, dirtyAt, slot, sw, ck, hand, swept, lcmay>>

\* incOpenWork / decOpenWork around a stream or a synchronous exec; the exec
\* may carry a pin of its own (incExecPin / decExecPin).
OpenWork ==
    /\ May("work") /\ lz.released = "no" /\ ~lz.susp /\ lz.openWork = 0 /\ CanStamp /\ Windowed
    /\ \E pin \in {0, 1} :
         lz' = [Stamped(lz) EXCEPT !.openWork = 1, !.execPins = pin]
    /\ dirtyAt' = clk
    /\ was' = UsedNow(was)
    /\ UNCHANGED <<clk, lzRow, slot, sw, ck, hand, swept, lcmay>>

EndWork ==
    /\ lz.openWork = 1
    /\ lz' = [lz EXCEPT !.openWork = 0, !.execPins = 0]
    /\ UNCHANGED <<clk, lzRow, dirtyAt, slot, sw, ck, hand, swept, was, lcmay>>

\* A background job touches its lease before it counts as running, and its
\* monitor marks the lease active while it runs.
JobStart ==
    /\ May("job") /\ lz.released = "no" /\ ~lz.susp /\ lz.jobs = 0 /\ CanStamp /\ Windowed
    /\ lz' = [Stamped(lz) EXCEPT !.jobs = 1]
    /\ dirtyAt' = clk
    /\ was' = UsedNow(was)
    /\ UNCHANGED <<clk, lzRow, slot, sw, ck, hand, swept, lcmay>>

JobEnd ==
    /\ lz.jobs = 1
    /\ lz' = [lz EXCEPT !.jobs = 0]
    /\ UNCHANGED <<clk, lzRow, dirtyAt, slot, sw, ck, hand, swept, was, lcmay>>

\* setPinned; unpinning drops the pinned-idle notice.
SetPinned(pinned) ==
    /\ May("pin") /\ lz.released = "no" /\ lz.pinned # pinned
    /\ lz' = [lz EXCEPT !.pinned = pinned, !.pidle = IF pinned THEN @ ELSE 0]
    /\ LcSave
    /\ UNCHANGED <<clk, dirtyAt, slot, sw, ck, hand, swept, was, lcmay>>

\* The operator's unpin of every lease whose holder has a prefix.
UnpinByHolderPrefix ==
    /\ May("unpin") /\ lz.pinned
    /\ lz' = [lz EXCEPT !.pinned = FALSE, !.pidle = 0]
    /\ LcSave
    /\ UNCHANGED <<clk, dirtyAt, slot, sw, ck, hand, swept, was, lcmay>>

SetIdlePolicy(secs) ==
    /\ May("policy") /\ lz.released = "no" /\ lz.idle # secs
    /\ lz' = [lz EXCEPT !.idle = secs]
    /\ LcSave
    /\ UNCHANGED <<clk, dirtyAt, slot, sw, ck, hand, swept, was, lcmay>>

\* The owner releases the lease; a release does not wait for busy.
HandRelease ==
    /\ May("release") /\ lz.released = "no"
    /\ lz' = [lz EXCEPT !.released = "hand"]
    /\ LcSave
    /\ UNCHANGED <<clk, dirtyAt, slot, sw, ck, hand, swept, was, lcmay>>

-----------------------------------------------------------------------------
(***************************************************************************)
(* Pause and resume: busy is claimed under the lock, the work runs outside *)
(* it, and the commit drops a result that a release overtook.              *)
(***************************************************************************)

Paused(l) == [l EXCEPT !.susp = TRUE, !.pausedAt = clk, !.notified = FALSE]

\* resumeLeaseBody: setState clears the pause date, the warning with it.
Resumed(l) == [l EXCEPT !.susp = FALSE, !.lastActive = clk, !.pausedAt = 0, !.notified = FALSE]

\* pauseLeaseWith by the owner: no refusePinned.  A pause of a lease that is
\* already suspended is refused by the substrate; the model skips it.
PauseClaim ==
    /\ May("pause") /\ hand = "none" /\ lz.released = "no" /\ lz.persistent
    /\ ~lz.susp /\ ~lz.busy /\ Windowed
    /\ hand' = "pause"
    /\ lz' = [lz EXCEPT !.busy = TRUE]
    /\ UNCHANGED <<clk, lzRow, dirtyAt, slot, sw, ck, swept, was, lcmay>>

\* snapshotAcquire: one writer at a time.
PauseWrite ==
    /\ hand = "pause" /\ slot = "free"
    /\ slot' = "hand"
    /\ hand' = "pausing"
    /\ UNCHANGED <<clk, lz, lzRow, dirtyAt, sw, ck, swept, was, lcmay>>

HandPaused(h) == [h EXCEPT !.paused = clk, !.warned = FALSE, !.open = 0]

PauseCommit ==
    /\ hand = "pausing"
    /\ slot' = "free"
    /\ hand' = "none"
    /\ IF lz.released # "no"
       THEN lz' = [lz EXCEPT !.busy = FALSE] /\ UNCHANGED <<lzRow, was>>
       ELSE lz' = [Paused(lz) EXCEPT !.busy = FALSE] /\ LcSave /\ was' = HandPaused(was)
    /\ UNCHANGED <<clk, dirtyAt, sw, ck, swept, lcmay>>

\* A work call or POST /resume.
ResumeClaim ==
    /\ May("resume") /\ hand = "none" /\ lz.released = "no" /\ lz.susp /\ ~lz.busy /\ Windowed
    /\ CanStamp
    /\ dirtyAt = 0 \/ May("batched")
    /\ hand' = "resume"
    /\ lz' = [lz EXCEPT !.busy = TRUE]
    /\ UNCHANGED <<clk, lzRow, dirtyAt, slot, sw, ck, swept, was, lcmay>>

ResumeCommit ==
    /\ hand = "resume"
    /\ hand' = "none"
    /\ IF lz.released # "no"
       THEN lz' = [lz EXCEPT !.busy = FALSE] /\ UNCHANGED <<lzRow, was>>
       ELSE /\ lz' = [Resumed(lz) EXCEPT !.busy = FALSE]
            /\ LcSave
            /\ was' = [was EXCEPT !.used = clk, !.paused = 0, !.warned = FALSE,
                                  !.open = IF @ = 0 THEN clk ELSE @]
    /\ UNCHANGED <<clk, dirtyAt, slot, sw, ck, swept, lcmay>>

\* No room, or the substrate is away: the lease stays suspended.
ResumeFail ==
    /\ hand = "resume" /\ May("fail")
    /\ hand' = "none"
    /\ lz' = [lz EXCEPT !.busy = FALSE]
    /\ UNCHANGED <<clk, lzRow, dirtyAt, slot, sw, ck, swept, was, lcmay>>

\* Another lease's snapshot write holds the limiter's slot.
OtherWriter ==
    /\ May("writer") /\ slot \in {"free", "other"}
    /\ slot' = IF slot = "free" THEN "other" ELSE "free"
    /\ UNCHANGED <<clk, lz, lzRow, dirtyAt, sw, ck, hand, swept, was, lcmay>>

-----------------------------------------------------------------------------
(***************************************************************************)
(* sweepExpired: flush, warn, release the paused, suspend the idle, notice *)
(* the pinned, release the expired.  Every stage collects under the lock   *)
(* with the pass's one now and acts later.                                 *)
(***************************************************************************)

\* flushLastActiveLocked; a store error keeps the batch for the next tick.
SweepStart ==
    /\ sw.pc = "off" /\ swept.sweep < clk
    /\ sw' = [pc |-> "warn", now |-> clk, picked |-> FALSE,
              expired |-> lz.released = "no" /\ ~lz.persistent /\ clk > lz.expires]
    /\ \/ /\ lzRow' = IF dirtyAt = 0 THEN lzRow ELSE [lzRow EXCEPT !.lastActive = dirtyAt]
          /\ dirtyAt' = 0
       \/ /\ dirtyAt # 0 /\ May("dbfail")
          /\ UNCHANGED <<lzRow, dirtyAt>>
    /\ UNCHANGED <<clk, lz, slot, ck, hand, swept, was, lcmay>>

\* notifyPausedExpiring: once per pause, in the last PausedLead before the
\* release.
WarnDue ==
    /\ lz.released = "no" /\ lz.susp /\ lz.pausedAt # 0 /\ ~lz.notified
    /\ sw.now - lz.pausedAt >= PausedRelease - PausedLead
    /\ sw.now - lz.pausedAt < PausedRelease

SweepWarn ==
    /\ sw.pc = "warn"
    /\ sw' = [sw EXCEPT !.pc = "paused"]
    /\ IF WarnDue
       THEN lz' = [lz EXCEPT !.notified = TRUE] /\ LcSave /\ was' = [was EXCEPT !.warned = TRUE]
       ELSE UNCHANGED <<lz, lzRow, was>>
    /\ UNCHANGED <<clk, dirtyAt, slot, ck, hand, swept, lcmay>>

\* leasePausedExpiredLocked
PausedExpired(now) ==
    /\ lz.released = "no" /\ lz.susp /\ ~lz.busy /\ lz.pausedAt # 0
    /\ now >= lz.pausedAt + PausedRelease

SweepPaused ==
    /\ sw.pc = "paused"
    /\ sw' = [sw EXCEPT !.pc = "release", !.picked = PausedExpired(sw.now)]
    /\ UNCHANGED <<clk, lz, lzRow, dirtyAt, slot, ck, hand, swept, was, lcmay>>

\* Mutant: the release trusts the collection pass.
StillPausedExpiredAny(now) == lz.released = "no"

\* releaseIfPausedExpired: the condition again, inside the release's lock.
StillPausedExpired(now) == PausedExpired(now)

SweepRelease ==
    /\ sw.pc = "release"
    /\ sw' = [sw EXCEPT !.pc = "idle", !.picked = FALSE]
    /\ IF sw.picked /\ StillPausedExpired(sw.now)
       THEN lz' = [lz EXCEPT !.released = "paused_expired"] /\ LcSave
       ELSE UNCHANGED <<lz, lzRow>>
    /\ UNCHANGED <<clk, dirtyAt, slot, ck, hand, swept, was, lcmay>>

\* The idle rule both checks of suspendIdleLeases apply.
IdleDue(now) ==
    /\ lz.released = "no" /\ ~lz.susp /\ ~lz.busy /\ ~LzPinned(lz) /\ lz.persistent
    /\ EffectiveIdleSuspend(lz) > 0
    /\ now > lz.lastActive + EffectiveIdleSuspend(lz)

SweepIdle ==
    /\ sw.pc = "idle"
    /\ sw' = [sw EXCEPT !.pc = "recheck", !.picked = IdleDue(sw.now) /\ lz.jobs = 0]
    /\ UNCHANGED <<clk, lz, lzRow, dirtyAt, slot, ck, hand, swept, was, lcmay>>

\* Mutant: the lease is paused on the strength of the collection pass.
RecheckIdleAny(now) == TRUE

RecheckIdle(now) == IdleDue(now)

\* The batch stands down while another snapshot write runs; otherwise the
\* rule is checked again (a running job is not: its start was an activity).
SweepRecheck ==
    /\ sw.pc = "recheck"
    /\ sw' = [sw EXCEPT !.pc = IF sw.picked /\ slot = "free" /\ RecheckIdle(sw.now)
                               THEN "claim" ELSE "notice"]
    /\ UNCHANGED <<clk, lz, lzRow, dirtyAt, slot, ck, hand, swept, was, lcmay>>

\* pauseLeaseWith with refusePinned.
RefusePinned(l) == LzPinned(l)

SweepClaim ==
    /\ sw.pc = "claim"
    /\ IF lz.busy \/ RefusePinned(lz)
       THEN sw' = [sw EXCEPT !.pc = "notice"] /\ UNCHANGED <<lz, was>>
       ELSE /\ sw' = [sw EXCEPT !.pc = "write"]
            /\ lz' = [lz EXCEPT !.busy = TRUE]
            /\ was' = [was EXCEPT !.took =
                        [idle |-> TRUE,
                         kept |-> LzPinned(lz) \/ lz.jobs > 0 \/ sw.now <= was.used + lz.idle]]
    /\ UNCHANGED <<clk, lzRow, dirtyAt, slot, ck, hand, swept, lcmay>>

SweepWrite ==
    /\ sw.pc = "write" /\ slot = "free"
    /\ slot' = "sweep"
    /\ sw' = [sw EXCEPT !.pc = "pausing"]
    /\ UNCHANGED <<clk, lz, lzRow, dirtyAt, ck, hand, swept, was, lcmay>>

\* The pause lands, and recordIdleSuspend saves its rule and time; a release
\* that overtook it leaves the lease alone.
SweepPauseCommit ==
    /\ sw.pc = "pausing"
    /\ slot' = "free"
    /\ sw' = [sw EXCEPT !.pc = "notice"]
    /\ IF lz.released # "no"
       THEN lz' = [lz EXCEPT !.busy = FALSE] /\ UNCHANGED <<lzRow, was>>
       ELSE lz' = [Paused(lz) EXCEPT !.busy = FALSE] /\ LcSave /\ was' = HandPaused(was)
    /\ UNCHANGED <<clk, dirtyAt, ck, hand, swept, lcmay>>

\* noticePinnedIdle: one notice per crossing, withdrawn on activity.
SweepNotice ==
    /\ sw.pc = "notice"
    /\ sw' = [sw EXCEPT !.pc = "expire"]
    /\ LET idle == sw.now - lz.lastActive >= PinnedIdleAfter IN
       IF lz.released = "no" /\ lz.pinned /\ idle # (lz.pidle # 0)
       THEN /\ lz' = [lz EXCEPT !.pidle = IF idle THEN lz.lastActive + PinnedIdleAfter ELSE 0]
            /\ LcSave
       ELSE UNCHANGED <<lz, lzRow>>
    /\ UNCHANGED <<clk, dirtyAt, slot, ck, hand, swept, was, lcmay>>

\* The TTL releases act on the list collected when the pass began.
SweepExpire ==
    /\ sw.pc = "expire"
    /\ sw' = [sw EXCEPT !.pc = "off", !.expired = FALSE, !.now = 0]
    /\ swept' = [swept EXCEPT !.sweep = sw.now]
    /\ IF sw.expired /\ lz.released = "no"
       THEN lz' = [lz EXCEPT !.released = "ttl"] /\ LcSave
       ELSE UNCHANGED <<lz, lzRow>>
    /\ UNCHANGED <<clk, dirtyAt, slot, ck, hand, was, lcmay>>

-----------------------------------------------------------------------------
(***************************************************************************)
(* checkpointIdleLeases.                                                   *)
(***************************************************************************)

\* Due on its interval and active since the last checkpoint.
CheckpointDue(now) ==
    /\ EffectiveCheckpointInterval > 0
    /\ lz.lastCk + EffectiveCheckpointInterval < now
    /\ lz.lastActive > lz.lastCk

\* Mutant: every look at a lease with open work starts its deferral anew.
DeferredAnew(l, now) == now

\* The first look that finds open work stamps the deferral.
DeferredSince(l, now) == IF l.deferred = 0 THEN now ELSE l.deferred

\* checkpointWantedLocked, answer and bookkeeping: open work defers a due
\* checkpoint for at most one interval.
Wanted(now) ==
    LET idleNow == lz.released # "no" \/ lz.susp \/ lz.busy
        since   == DeferredSince(lz, now) IN
    CASE idleNow -> [yes |-> FALSE, deferred |-> lz.deferred]
      [] ~idleNow /\ ~CheckpointDue(now) -> [yes |-> FALSE, deferred |-> 0]
      [] ~idleNow /\ CheckpointDue(now) /\ lz.openWork = 0 -> [yes |-> TRUE, deferred |-> lz.deferred]
      [] OTHER -> [yes |-> now - since >= EffectiveCheckpointInterval, deferred |-> since]

\* The collection, and the same question again before each target.
CkptLook ==
    /\ May("ckpt")
    /\ \/ ck.pc = "off" /\ swept.ckpt < clk
       \/ ck.pc = "again"
    /\ \E w \in {Wanted(clk)} :
         /\ lz' = [lz EXCEPT !.deferred = w.deferred]
         /\ ck' = [pc |-> IF ~w.yes THEN "off" ELSE IF ck.pc = "off" THEN "again" ELSE "claim",
                   now |-> clk]
         /\ swept' = IF w.yes THEN swept ELSE [swept EXCEPT !.ckpt = clk]
    /\ UNCHANGED <<clk, lzRow, dirtyAt, slot, sw, hand, was, lcmay>>

\* checkpointLeaseBusy: a busy lease is skipped.
CkptClaim ==
    /\ ck.pc = "claim"
    /\ IF lz.busy
       THEN /\ ck' = [ck EXCEPT !.pc = "off"]
            /\ swept' = [swept EXCEPT !.ckpt = clk]
            /\ UNCHANGED lz
       ELSE /\ ck' = [ck EXCEPT !.pc = "write"]
            /\ lz' = [lz EXCEPT !.busy = TRUE]
            /\ UNCHANGED swept
    /\ UNCHANGED <<clk, lzRow, dirtyAt, slot, sw, hand, was, lcmay>>

CkptWrite ==
    /\ ck.pc = "write" /\ slot = "free"
    /\ slot' = "ckpt"
    /\ ck' = [ck EXCEPT !.pc = "snap"]
    /\ UNCHANGED <<clk, lz, lzRow, dirtyAt, sw, hand, swept, was, lcmay>>

\* The substrate's checkpoint: what was done up to here is in it.
CkptSnap ==
    /\ ck.pc = "snap"
    /\ ck' = [ck EXCEPT !.pc = "stamp"]
    /\ was' = [was EXCEPT !.open = 0]
    /\ UNCHANGED <<clk, lz, lzRow, dirtyAt, slot, sw, hand, swept, lcmay>>

CkptFail ==
    /\ ck.pc = "snap" /\ May("fail")
    /\ ck' = [ck EXCEPT !.pc = "off"]
    /\ swept' = [swept EXCEPT !.ckpt = clk]
    /\ slot' = "free"
    /\ lz' = [lz EXCEPT !.busy = FALSE]
    /\ UNCHANGED <<clk, lzRow, dirtyAt, sw, hand, was, lcmay>>

\* afterCheckpoint: the stamp is taken when the rows are written.
CkptStamp ==
    /\ ck.pc = "stamp"
    /\ ck' = [ck EXCEPT !.pc = "off"]
    /\ swept' = [swept EXCEPT !.ckpt = clk]
    /\ slot' = "free"
    /\ IF lz.released # "no"
       THEN lz' = [lz EXCEPT !.busy = FALSE] /\ UNCHANGED lzRow
       ELSE lz' = [lz EXCEPT !.busy = FALSE, !.lastCk = clk, !.deferred = 0] /\ LcSave
    /\ UNCHANGED <<clk, dirtyAt, sw, hand, was, lcmay>>

-----------------------------------------------------------------------------
\* Both loops tick many times in one instant of the model, so the clock moves
\* on once each has finished a pass and no snapshot write is out; the slow
\* scenario lets a pass straddle instants.
ClockTick ==
    /\ clk < LcBound
    /\ \/ /\ sw.pc = "off" /\ swept.sweep = clk /\ hand = "none"
          /\ ck.pc = "off" /\ (May("ckpt") => swept.ckpt = clk)
       \/ May("slow") /\ sw.pc \in {"release", "recheck", "expire"} /\ clk = sw.now
    /\ clk' = clk + 1
    /\ UNCHANGED <<lz, lzRow, dirtyAt, slot, sw, ck, hand, swept, was, lcmay>>

\* A backend restart between passes: memory comes back from the row.
LcRestart ==
    /\ May("restart") /\ sw.pc = "off" /\ ck.pc = "off" /\ hand = "none"
    /\ dirtyAt = 0
    /\ lz.openWork = 0 /\ lz.jobs = 0
    /\ lz' = [x \in DOMAIN lz |-> IF x \in DOMAIN lzRow THEN lzRow[x]
                                  ELSE IF x = "deferred" THEN 0 ELSE lz[x]]
    /\ lcmay' = lcmay \ {"restart"}
    /\ UNCHANGED <<clk, lzRow, dirtyAt, slot, sw, ck, hand, swept, was>>

LcEnd ==
    /\ clk = LcBound /\ sw.pc = "off" /\ ck.pc = "off" /\ hand = "none"
    /\ UNCHANGED lcvars

OwnerCall ==
    \/ Touch \/ MarkActive \/ KeepAlive \/ OpenWork \/ EndWork \/ JobStart \/ JobEnd
    \/ \E p \in BOOLEAN : SetPinned(p)
    \/ UnpinByHolderPrefix
    \/ \E s \in {0, IdleAfter} : SetIdlePolicy(s)
    \/ HandRelease
    \/ PauseClaim \/ PauseWrite \/ PauseCommit
    \/ ResumeClaim \/ ResumeCommit \/ ResumeFail

SweepExpired ==
    \/ SweepStart \/ SweepWarn \/ SweepPaused \/ SweepRelease
    \/ SweepIdle \/ SweepRecheck \/ SweepClaim \/ SweepWrite \/ SweepPauseCommit
    \/ SweepNotice \/ SweepExpire

CheckpointPass ==
    \/ CkptLook \/ CkptClaim \/ CkptWrite \/ CkptSnap \/ CkptFail \/ CkptStamp

LCNext ==
    \/ OwnerCall
    \/ SweepExpired
    \/ CheckpointPass
    \/ OtherWriter \/ ClockTick \/ LcRestart
    \/ LcEnd

LCSpec == LCInit /\ [][LCNext]_lcvars

-----------------------------------------------------------------------------
(***************************************************************************)
(* Properties.                                                             *)
(***************************************************************************)

\* The paused-release clock deletes only a lease that has been paused, without
\* a resume, for the whole PausedRelease, and whose owner was warned during
\* this pause (releaseIfPausedExpired checks again inside the release's lock).
PausedReleaseHonest ==
    lz.released = "paused_expired" =>
        was.paused # 0 /\ clk >= was.paused + PausedRelease /\ was.warned

\* The idle sweep pauses no lease that is pinned, runs a job or was used
\* within its threshold: the collection, the re-check and the pause's own lock
\* together leave no activity unseen.
IdleTakenFairly ==
    was.took.idle => ~was.took.kept

\* The stored LastActive is the one in memory, or the newer one is in the
\* batch the sweeper flushes: a restart finds the activity the batch is meant
\* to carry, and a flush never writes an older stamp over a newer one.
RowActivityKept ==
    lz.lastActive = (IF dirtyAt # 0 THEN dirtyAt ELSE lzRow.lastActive)

\* A periodic checkpoint is late by at most one interval: what a live lease
\* did is in a snapshot within two intervals and one pass, however long a
\* stream stays open (where no checkpoint fails).
CoveredInTime ==
    May("ckpt") /\ ~May("fail") /\ was.open # 0 /\ lz.released = "no" =>
        clk <= was.open + 2 * CheckpointEvery + 1

\* A release for an expired TTL, decided on the list collected at the start of
\* the pass, is still due when it happens: nothing prolongs a lease with a TTL.
TtlHonest ==
    lz.released = "ttl" => clk > lz.expires

\* What the clocks of a lease promise its owner, together: no release, pause or
\* lapse of cover that the owner was not told of, and no activity forgotten.
ClocksHonest ==
  /\ PausedReleaseHonest
  /\ IdleTakenFairly
  /\ RowActivityKept
  /\ CoveredInTime
  /\ TtlHonest
=============================================================================
