------------------------ MODULE GuestContinuityProofs -----------------------
(***************************************************************************)
(* Which guest runs under a live lease, for every value of the constants:  *)
(* the one its holder last saw.  Like the rest of what the sandboxes hold, *)
(* this is about one backend process: a restart forgets what its           *)
(* operations had in hand.                                                 *)
(***************************************************************************)
EXTENDS SandboxContentsProofs

-----------------------------------------------------------------------------
(* Which guest runs in a sandbox. *)

\* A running guest of a lease is the one its holder last saw, unless an
\* operation has just started it and has yet to commit.
GuestsCurrent ==
    \A l \in inStore \ released :
        vm[lease[l].sandbox] \in Moments =>
            \/ vm[lease[l].sandbox] = reached[l]
            \/ \E w \in Workers : /\ InPlace(w) /\ work[w].pc \in {"check", "commit"}
                                  /\ work[w].lease = l

\* A guest an operation has started runs from the build it was started from;
\* a stocked one, and a granted one, from the image.
StartedFrom ==
    /\ \A w \in Workers :
          Holds(w) /\ work[w].pc # "create" /\ vm[work[w].id] \in Moments =>
              vm[work[w].id] = work[w].build
    /\ \A w \in Workers :
          work[w].op \in {"grant", "fill"} /\ (Holds(w) \/ work[w].pc = "pop") =>
              work[w].build = ImageBuild
    /\ \A s \in pool : vm[s] \in Moments => vm[s] = ImageBuild

\* The pause build of a suspended lease is what its holder last saw, and so
\* is the build an operation has in hand, unless it recovers the lease.
SavedCurrent ==
    /\ \A l \in inStore \ released :
          lease[l].state = "suspended" => lease[l].resumeBuild = reached[l]
    /\ \A w \in Workers :
          /\ work[w].lease \notin released
          /\ \/ work[w].pc \in {"paused", "ckptResume"}
             \/ InPlace(w) /\ work[w].op # "recover"
          => work[w].build = reached[work[w].lease]

\* A lease that was never granted has no generation.
NoneNew == \A l \in Leases : lease[l].state = "none" => lease[l].generation = 0

\* Nothing recovers a lease, and nothing did.
Unrecovered ==
    /\ NoReconcile
    /\ \A w \in Workers : work[w].op \notin {"crashTest", "probe", "recover"}
    /\ \A l \in Leases : lease[l].state # "recovered"

\* Nothing resumes a lease that was recovered: nothing recovers one, or
\* nothing resumes one.
NoResumeOfRecovered ==
    Unrecovered \/ \A w \in Workers : work[w].op \notin {"resume", "use"}

\* The inductive invariant of the guests' continuity.
CInv ==
    /\ OInv /\ StoppedInHand /\ GuestsCurrent /\ StartedFrom /\ SavedCurrent
    /\ NoneNew /\ NoResumeOfRecovered

-----------------------------------------------------------------------------
(* The guest a holder sees. *)

\* What starts a guest: a create under the id it holds, a checkpoint under
\* its lease's.
LEMMA WorkBoots ==
    ASSUME OInv, NEW w \in Workers, WorkStep(w), NEW s \in Sandboxes,
           vm'[s] # vm[s], vm'[s] \in Moments
    PROVE  /\ vm'[s] = work[w].build
           /\ \/ work[w].pc = "create" /\ s = work[w].id /\ (InPlace(w) => Goto(w, "check"))
              \/ work[w].pc = "ckptResume" /\ s = lease[work[w].lease].sandbox
<1>   /\ vm \in [Sandboxes -> VMs] /\ NodeStep(w) /\ NoVM \notin Moments /\ Half \notin Moments
      /\ NoVM # Half
  BY WorkNode, BoundAssumption DEF OInv, RInv, IInv, TypeOK, VMs, NoVM, Half, Moments
<1>1. \/ work[w].pc = "create" /\ s = work[w].id
      \/ work[w].pc = "ckptResume" /\ s = lease[work[w].lease].sandbox
  BY DEF NodeStep
<1>2. CASE work[w].pc = "create" /\ s = work[w].id
  <2> USE <1>2
  <2>1. Create(w)
    BY AtStep, ZenonT(60)
  <2>2. CASE Boot(s, work[w].build) /\ Goto(w, "check")
    BY <2>2 DEF Boot
  <2>3. CASE vm' = [vm EXCEPT ![s] = NoVM]
    BY <2>3, ZenonT(60)
  <2>4. CASE IF vm[s] = NoVM THEN Boot(s, Half) ELSE UNCHANGED <<vm, sweepVars>>
    BY <2>4 DEF Boot
  <2>5. CASE ~ResumesInPlace(work[w].op) /\ Boot(s, work[w].build)
    BY <2>5, ZenonT(60) DEF Boot, InPlace
  <2> QED BY ZenonT(60), <2>1, <2>2, <2>3, <2>4, <2>5 DEF Create
<1>3. CASE work[w].pc = "ckptResume" /\ s = lease[work[w].lease].sandbox
  <2> USE <1>3
  <2>   CheckpointResume(w)
    BY AtStep, ZenonT(60)
  <2> QED BY DEF CheckpointResume, Boot
<1> QED BY <1>1, <1>2, <1>3, ZenonT(60)

\* An operation that goes on with its sandbox goes on from the same build,
\* and once it has created it, the guest runs from that build.
LEMMA HoldsOn ==
    ASSUME OInv, NEW w \in Workers, WorkStep(w), ~Admit(w), ~Pop(w), Holds(w)'
    PROVE  /\ Holds(w) /\ work[w].pc # "commit"
           /\ work'[w] = [work[w] EXCEPT !.pc = work'[w].pc]
           /\ work'[w].pc \notin {"create", "validate"}
           /\ work[w].pc = "create" => vm'[work[w].id] = work[w].build
<1>0. IInv /\ work \in [Workers -> WorkRecord] /\ vm \in [Sandboxes -> VMs] /\ WorkOK(w)
  BY DEF OInv, RInv, IInv, TypeOK, VMs, WorkInv
<1>1. ~Leave(w)
  BY <1>0 DEF Leave, Holds, WorkRecord, IdleWork
<1>2. \A step : Goto(w, step) => work'[w] = [work[w] EXCEPT !.pc = step] /\ work'[w].pc = step
  BY <1>0 DEF Goto, WorkRecord
<1>3. \A step \in {"endCreate", "failed", "pop"} : ~Goto(w, step)
  BY <1>2, ZenonT(60) DEF Holds
<1>4. ~Commit(w)
  BY ZenonT(60), <1>1, <1>3 DEF Commit, StopFresh
<1>5. Holds(w)
  BY <1>0, <1>4, WorkHolds, ZenonT(60) DEF HoldKept
<1>6. CASE work[w].pc = "create"
  <2> USE <1>6
  <2>1. Create(w)
    BY AtStep, ZenonT(60)
  <2>   Goto(w, "check") /\ Boot(work[w].id, work[w].build)
    BY <1>1, <1>3, <2>1, ZenonT(60) DEF Create, CreateFailed
  <2>   vm'[work[w].id] = work[w].build
    BY <1>0, <1>5, ZenonT(60) DEF Boot, WorkOK
  <2>   work'[w] = [work[w] EXCEPT !.pc = "check"] /\ work'[w].pc = "check"
    BY <1>2
  <2> QED BY <1>5
<1>7. CASE work[w].pc # "create"
  <2>1. Validate(w) \/ Check(w) \/ Probe(w) \/ DropOld(w)
    BY <1>4, <1>5, <1>7, AtStep, ZenonT(60)
  <2>   PICK step : Goto(w, step) /\ step \notin {"create", "validate"}
    <3>1. CASE Check(w)
      <4>   PICK step : step = CASE work[w].op \in {"grant", "fill"} -> "probe"
                                [] work[w].op \in {"cold", "restore"} -> "dropOld"
                                [] OTHER -> "commit"
        OBVIOUS
      <4>   Goto(w, step)
        BY <1>1, <3>1 DEF Check, StopFresh
      <4> QED OBVIOUS
    <3>2. CASE Validate(w)
      BY <1>1, <3>2 DEF Validate
    <3>3. CASE Probe(w)
      <4>   Goto(w, "commit")
        BY <1>1, <3>3, ZenonT(60) DEF Probe, StopFresh
      <4> QED OBVIOUS
    <3>4. CASE DropOld(w)
      <4>   Goto(w, "commit")
        BY <1>1, <3>4, ZenonT(60) DEF DropOld, StopFresh
      <4> QED OBVIOUS
    <3> QED BY <2>1, <3>1, <3>2, <3>3, <3>4, ZenonT(60)
  <2>   work[w].pc # "commit"
    BY ZenonT(60), <2>1 DEF Validate, Check, Probe, DropOld
  <2> QED BY <1>2, <1>5, <1>7, ZenonT(60)
<1> QED BY <1>6, <1>7

\* The last step of an operation that creates gives its lease the guest that
\* the holder is to see: the last one, or one of a new generation.
LEMMA CommitShows ==
    ASSUME OInv, StartedFrom, SavedCurrent, NoneNew, NEW w \in Workers, Commit(w),
           NEW l, l = work[w].lease, work[w].op # "fill", l \notin released
    PROVE  /\ l \in Leases /\ lease' = [lease EXCEPT ![l] = Committed(w)]
           /\ inStore' \subseteq inStore \cup {l}
           /\ Committed(w).state \notin {"none", "suspended"} /\ Committed(w).sandbox = work[w].id
           /\ UNCHANGED <<vm, released>> /\ \A k \in Leases \ {l} : reached'[k] = reached[k]
           /\ vm[work[w].id] \in Moments => reached'[l] = vm[work[w].id]
<1> DEFINE op == work[w].op
<1>   /\ lease \in [Leases -> LeaseRecord] /\ reached \in [Leases -> Moments]
      /\ l \in Leases /\ Committed(w).sandbox = work[w].id
      /\ Holds(w) /\ work[w].pc = "commit" /\ op \in CreatingOps
      /\ WorkOK(w)
  BY CommittedSandbox, ZenonT(60) DEF OInv, RInv, IInv, TypeOK, Commit, Holds, WorkInv, PhaseInv, OpAt, CreateSteps
<1>1. /\ lease' = [lease EXCEPT ![l] = Committed(w)] /\ inStore' \subseteq inStore \cup {l}
      /\ UNCHANGED <<vm, released>>
      /\ reached' = IF Committed(w).generation = lease[l].generation
                    THEN reached ELSE [reached EXCEPT ![l] = work[w].build]
  BY ZenonT(60) DEF Commit, leaseReleased, Save
<1>2. vm[work[w].id] \in Moments => vm[work[w].id] = work[w].build
  BY ZenonT(60) DEF StartedFrom
<1>3. CASE op \in {"resume", "use", "restart", "takeBack"}
  <2> USE <1>3
  <2>1. Committed(w) = [lease[l] EXCEPT !.state = "running"]
    BY DEF Committed
  <2>   Committed(w).state = "running" /\ Committed(w).generation = lease[l].generation
    BY <2>1 DEF LeaseRecord
  <2>   work[w].build = reached[l]
    BY ZenonT(60) DEF SavedCurrent, InPlace, ResumesInPlace
  <2> QED BY <1>1, <1>2, ZenonT(60)
<1>4. CASE op \in {"recover", "fresh", "cold", "restore"}
  <2>   Committed(w).state \in {"running", "recovered"} /\ Committed(w).generation = lease[l].generation + 1
    BY <1>4 DEF Committed, LeaseRecord
  <2>   lease[l].generation \in Nat
    BY DEF LeaseRecord
  <2>   Committed(w).generation # lease[l].generation
    OBVIOUS
  <2> QED BY <1>1, <1>2, ZenonT(60)
<1>5. CASE op = "grant"
  <2> USE <1>5
  <2>   Committed(w).state = "running" /\ Committed(w).generation = 1
    BY ZenonT(60) DEF Committed, NewLease
  <2>   lease[l].generation = 0
    BY ZenonT(60) DEF NoneNew, OInv, RInv, GrantFresh
  <2>   Committed(w).generation # lease[l].generation
    OBVIOUS
  <2> QED BY <1>1, <1>2, ZenonT(60)
<1> QED BY <1>3, <1>4, <1>5, ZenonT(60) DEF CreatingOps

\* What the holder of a lease last saw, and the sandbox it sees it in, change
\* by the commit of the lease's own operation only.
LEMMA WorkReached ==
    ASSUME OInv, NEW w \in Workers, WorkStep(w), NEW k \in Leases,
           \/ reached'[k] # reached[k] \/ lease'[k].sandbox # lease[k].sandbox
           \/ k \in inStore' \ inStore
    PROVE  /\ Commit(w) /\ k = work[w].lease /\ k \notin released /\ work[w].op # "fill"
           /\ HoldsBusy(w) \/ (work[w].op = "grant" /\ lease[k].state = "none")
<1>0. /\ IInv /\ reached \in [Leases -> Moments] /\ lease \in [Leases -> LeaseRecord]
      /\ GrantFresh /\ WorkOK(w)
  BY ZenonT(60) DEF OInv, RInv, IInv, TypeOK, WorkInv
<1>1. CASE ~Commit(w)
  <2> USE <1>1
  <2>   UNCHANGED reached /\ inStore' \subseteq inStore
    BY ZenonT(60)
    DEF WorkStep, Begin, EndBusy, Pause, Paused, Admit, Create, Check, Probe, DropOld, DropFirst,
        EndCreate, Pop, Validate, Checkpoint, CheckpointResume, CheckpointRecord, Mark, Crash,
        Recover, RetryFailed, Lose, StopLost, ReleaseDelete, ReleaseDrop, memVars
  <2> QED BY SandboxMoved, ZenonT(60)
<1>2. CASE Commit(w)
  <2> USE <1>2
  <2>0. \/ UNCHANGED <<inStore, lease, reached>>
        \/ /\ work[w].op # "fill" /\ work[w].lease \notin released
           /\ lease' = [lease EXCEPT ![work[w].lease] = Committed(w)]
           /\ inStore' = inStore \cup (IF work[w].op = "grant" THEN {work[w].lease} ELSE {})
           /\ reached' = IF Committed(w).generation = lease[work[w].lease].generation
                            THEN reached ELSE [reached EXCEPT ![work[w].lease] = work[w].build]
    BY ZenonT(60) DEF Commit, leaseReleased, Save
  <2>   /\ k = work[w].lease /\ k \notin released /\ work[w].op # "fill"
    BY <1>0, <2>0, ZenonT(60)
  <2>   work[w].pc = "commit" /\ work[w].op \in BusyOps \cup {"grant", "fill"}
    BY ZenonT(60), <1>0 DEF Commit, WorkOK, CreateSteps
  <2>5. CASE work[w].op \in BusyOps
    BY <2>5 DEF HoldsBusy, CreateSteps
  <2>6. CASE work[w].op = "grant"
    BY <1>0, <2>6, ZenonT(60) DEF GrantFresh
  <2> QED BY <2>5, <2>6
<1> QED BY <1>1, <1>2

\* A guest of a lease is the one its holder last saw.
LEMMA WorkGuests == ASSUME CInv, NEW w \in Workers, WorkStep(w) PROVE GuestsCurrent'
<1>0. /\ OInv /\ IInv /\ inStore \subseteq Leases /\ inStore' \subseteq Leases /\ StoreNamed
      /\ work \in [Workers -> WorkRecord] /\ lease \in [Leases -> LeaseRecord]
      /\ \A v \in Workers \ {w} : work'[v] = work[v]
  BY TypeWork, WorkAlone, ZenonT(60) DEF CInv, OInv, RInv, IInv, TypeOK
<1>1. released' = released
  BY ZenonT(60)
  DEF WorkStep, Begin, EndBusy, Pause, Paused, Admit, Create, Check, Probe, DropOld, DropFirst,
      Commit, EndCreate, Pop, Validate, Checkpoint, CheckpointResume, CheckpointRecord, Mark,
      Crash, Recover, RetryFailed, Lose, StopLost, ReleaseDelete, ReleaseDrop, memVars
<1> SUFFICES ASSUME NEW l \in inStore' \ released, vm'[lease'[l].sandbox] \in Moments
             PROVE  \/ vm'[lease'[l].sandbox] = reached'[l]
                    \/ \E v \in Workers : /\ InPlace(v)' /\ work'[v].pc \in {"check", "commit"}
                                          /\ work'[v].lease = l
  BY <1>1, ZenonT(60) DEF GuestsCurrent
<1>2. CASE Commit(w) /\ l = work[w].lease /\ work[w].op # "fill"
  <2>   /\ lease' = [lease EXCEPT ![l] = Committed(w)] /\ Committed(w).sandbox = work[w].id
        /\ l \in Leases /\ vm' = vm /\ (vm[work[w].id] \in Moments => reached'[l] = vm[work[w].id])
    BY <1>2, CommitShows, ZenonT(60) DEF CInv
  <2> QED BY <1>0
<1>3. CASE ~(Commit(w) /\ l = work[w].lease /\ work[w].op # "fill")
  <2>0. l \in inStore /\ lease'[l].sandbox = lease[l].sandbox /\ reached'[l] = reached[l] /\ l \in Leases
    BY <1>0, <1>3, WorkReached, ZenonT(60)
  <2> DEFINE s == lease[l].sandbox
  <2>1. s \in Sandboxes
    BY <1>0, <2>0 DEF StoreNamed
  <2>2. \A step \in {"check", "commit"} :
           InPlace(w) /\ work[w].lease = l /\ Goto(w, step) =>
               InPlace(w)' /\ work'[w].pc = step /\ work'[w].lease = l
    BY <1>0 DEF Goto, InPlace, Holds, WorkRecord
  <2>3. CASE vm'[s] = vm[s]
    <3>1. CASE vm[s] = reached[l]
      BY <2>0, <2>3, <3>1, ZenonT(60)
    <3>2. ASSUME NEW v \in Workers, InPlace(v), work[v].pc \in {"check", "commit"}, work[v].lease = l
          PROVE  /\ InPlace(v)' /\ work'[v].pc \in {"check", "commit"} /\ work'[v].lease = l
      <4> USE <3>2
      <4>1. CASE v # w
        BY <1>0, <4>1, ZenonT(60) DEF InPlace, Holds
      <4>2. CASE v = w
        <5> USE <4>2
        <5>   work[w].pc = "check" /\ work[w].op \notin {"fill", "grant", "cold", "restore"}
          BY <1>3, AtStep, ZenonT(60) DEF InPlace, ResumesInPlace
        <5>   Check(w)
          BY ZenonT(60), AtStep DEF InPlace, Validate, Probe, DropOld
        <5>   Goto(w, "commit")
          BY DEF Check, leaseReleased
        <5> QED BY <2>2
      <4> QED BY <4>1, <4>2, ZenonT(60)
    <3> QED BY <1>0, <2>0, <2>3, <3>1, <3>2, ZenonT(60) DEF CInv, GuestsCurrent
  <2>4. CASE vm'[s] # vm[s]
    <3>   /\ vm'[s] = work[w].build
          /\ \/ work[w].pc = "create" /\ s = work[w].id /\ (InPlace(w) => Goto(w, "check"))
             \/ work[w].pc = "ckptResume" /\ s = lease[work[w].lease].sandbox
      BY <1>0, <2>0, <2>1, <2>4, WorkBoots, ZenonT(60)
    <3>   work[w].lease = l /\ (work[w].pc = "create" => InPlace(w))
      BY <1>0, <2>0, <2>1, BootsOwn, ZenonT(60)
    <3>3. CASE work[w].pc = "create"
      BY <2>2, <3>3, ZenonT(60)
    <3>4. CASE work[w].pc = "ckptResume"
      BY <2>0, <3>4, ZenonT(60) DEF CInv, SavedCurrent
    <3> QED BY <3>3, <3>4, ZenonT(60)
  <2> QED BY <2>3, <2>4, ZenonT(60)
<1> QED BY <1>2, <1>3

\* A grant looks in the pool again only when it has thrown a pooled guest out.
LEMMA ToPop ==
    ASSUME OInv, NEW w \in Workers, WorkStep(w), work'[w].pc = "pop"
    PROVE  Holds(w) /\ work'[w].op = work[w].op /\ work'[w].build = work[w].build
<1>   work \in [Workers -> WorkRecord]
  BY ZenonT(60) DEF OInv, RInv, IInv, TypeOK
<1>   ~Leave(w)
  BY DEF Leave, IdleWork, WorkRecord
<1>2. \A step : Goto(w, step) => step = "pop"
  BY DEF Goto, WorkRecord
<1>3. work' # [work EXCEPT ![w] = IdleWork]
  BY DEF IdleWork
<1>4. CASE Validate(w)
  <2>   Goto(w, "pop") /\ work[w].pc = "validate"
    BY <1>2, <1>4, ZenonT(60) DEF Validate
  <2> QED BY DEF Holds, Goto, WorkRecord
<1>5. CASE Begin(w)
  <2>   FirstStep(work[w].op) # "pop"
    BY DEF FirstStep
  <2> QED BY ZenonT(60), <1>2, <1>3, <1>5 DEF Begin
<1>6. CASE EndBusy(w)
  BY <1>6 DEF EndBusy, IdleWork
<1>7. CASE Pause(w)
  BY <1>7, ZenonT(60) DEF Pause, WorkRecord
<1>8. CASE Checkpoint(w)
  BY <1>8, ZenonT(60) DEF Checkpoint, WorkRecord
<1>9. CASE Admit(w)
  <2>1. ASSUME NEW s, NEW b,
               work' = [work EXCEPT ![w] = [@ EXCEPT !.pc = "create", !.id = s, !.build = b]]
        PROVE  FALSE
    <3>   work'[w] = [work[w] EXCEPT !.pc = "create", !.id = s, !.build = b]
      BY <2>1
    <3> QED BY DEF WorkRecord
  <2> QED BY ZenonT(60), <1>2, <1>9, <2>1 DEF Admit, CreateFailed
<1>10. CASE Pop(w)
  <2>1. ASSUME NEW s, work' = [work EXCEPT ![w] = [@ EXCEPT !.pc = "validate", !.id = s]] PROVE FALSE
    <3>   work'[w] = [work[w] EXCEPT !.pc = "validate", !.id = s]
      BY <2>1
    <3> QED BY DEF WorkRecord
  <2> QED BY ZenonT(60), <1>2, <1>10, <2>1 DEF Pop
<1>11. CASE Crash(w)
  BY <1>11 DEF Crash, WorkRecord
<1>12. CASE Check(w)
  BY <1>12 DEF Check, StopFresh, Goto, WorkRecord
<1>13. CASE Paused(w)
  BY <1>13 DEF Paused, Goto, WorkRecord
<1>14. CASE Create(w) \/ Probe(w) \/ DropOld(w) \/ DropFirst(w) \/ Commit(w) \/ EndCreate(w)
  BY ZenonT(60), <1>2, <1>14
  DEF Create, CreateFailed, Probe, DropOld, DropFirst, Commit, EndCreate, StopFresh
<1>15. CASE CheckpointResume(w) \/ CheckpointRecord(w) \/ Mark(w) \/ Recover(w) \/ RetryFailed(w)
  BY ZenonT(60), <1>2, <1>15 DEF CheckpointResume, CheckpointRecord, Mark, Recover, RetryFailed
<1>16. CASE Lose(w) \/ StopLost(w) \/ ReleaseDelete(w) \/ ReleaseDrop(w)
  BY ZenonT(60), <1>2, <1>3, <1>16 DEF Lose, StopLost, ReleaseDelete, ReleaseDrop
<1> QED
  BY ZenonT(60), <1>4, <1>5, <1>6, <1>7, <1>8, <1>9, <1>10, <1>11, <1>12, <1>13, <1>14, <1>15, <1>16
  DEF WorkStep

\* What an admitted create holds.
LEMMA AdmitHolds ==
    ASSUME OInv, NEW w \in Workers, Admit(w), Holds(w)'
    PROVE  /\ work'[w].pc = "create" /\ work'[w].op = work[w].op /\ work'[w].lease = work[w].lease
           /\ work'[w].build = SourceBuild(w) /\ work[w].pc = "admit" /\ UNCHANGED <<reached, lease, vm>>
<1>   work \in [Workers -> WorkRecord]
  BY DEF OInv, RInv, IInv, TypeOK
<1>1. ~Leave(w) /\ ~Goto(w, "failed")
  BY DEF Leave, Goto, Holds, WorkRecord, IdleWork
<1>2. PICK s : work' = [work EXCEPT ![w] = [@ EXCEPT !.pc = "create", !.id = s, !.build = SourceBuild(w)]]
  BY ZenonT(60), <1>1 DEF Admit, CreateFailed
<1>   work'[w] = [work[w] EXCEPT !.pc = "create", !.id = s, !.build = SourceBuild(w)]
  BY <1>2
<1>   work[w].pc = "admit" /\ UNCHANGED <<reached, lease, vm>>
  BY ZenonT(60) DEF Admit, memVars
<1> QED BY DEF WorkRecord

\* What a grant that popped a pooled sandbox holds.
LEMMA PopHolds ==
    ASSUME OInv, NEW w \in Workers, Pop(w), Holds(w)'
    PROVE  /\ work'[w].pc = "validate" /\ work'[w].op = work[w].op /\ work'[w].lease = work[w].lease
           /\ work'[w].build = work[w].build /\ work[w].pc = "pop" /\ work[w].op = "grant"
           /\ work'[w].id \in pool /\ UNCHANGED vm
<1>   work \in [Workers -> WorkRecord] /\ WorkOK(w)
  BY DEF OInv, RInv, IInv, TypeOK, WorkInv
<1>1. ~Goto(w, "admit")
  BY DEF Goto, Holds, WorkRecord
<1>2. PICK s \in pool : work' = [work EXCEPT ![w] = [@ EXCEPT !.pc = "validate", !.id = s]]
  BY ZenonT(60), <1>1 DEF Pop
<1>   work'[w] = [work[w] EXCEPT !.pc = "validate", !.id = s]
  BY <1>2
<1>   work[w].pc = "pop" /\ work[w].op = "grant" /\ UNCHANGED vm
  BY ZenonT(60) DEF Pop, WorkOK
<1> QED BY DEF WorkRecord

\* A guest changes under an id somebody else holds, or that is pooled, only
\* by being stopped.
LEMMA HeldGuestKept ==
    ASSUME OInv, NEW w \in Workers, WorkStep(w), NEW s \in Sandboxes,
           \/ s \in pool
           \/ \E v \in Workers \ {w} : Holds(v) /\ work[v].id = s,
           vm'[s] \in Moments
    PROVE  vm'[s] = vm[s]
<1> SUFFICES ASSUME vm'[s] # vm[s] PROVE FALSE
  OBVIOUS
<1>   SoleOwner /\ NamedOnce /\ HeldOnce /\ WorkOK(w)
  BY OwnershipIsSole DEF OInv, OwnInv, RInv, IInv, WorkInv
<1>1. \/ work[w].pc = "create" /\ s = work[w].id
      \/ work[w].pc = "ckptResume" /\ s = lease[work[w].lease].sandbox
  BY WorkBoots
<1>2. CASE work[w].pc = "create" /\ s = work[w].id
  BY <1>2, ZenonT(60) DEF SoleOwner, Holds
<1>3. CASE work[w].pc = "ckptResume" /\ s = lease[work[w].lease].sandbox
  <2> USE <1>3
  <2>   work[w].lease \in Leases /\ HoldsBusy(w)
    BY ZenonT(60) DEF WorkOK, HoldsBusy, BusySteps
  <2>   PICK v \in Workers \ {w} : Holds(v) /\ work[v].id = s
    BY ZenonT(60) DEF NamedOnce
  <2>   ResumesInPlace(work[v].op) /\ work[v].id = lease[work[v].lease].sandbox
    BY ZenonT(60) DEF HeldOnce, Fresh
  <2>   work[v].op \in BusyOps /\ work[v].lease \in Leases /\ WorkOK(v)
    BY ZenonT(60) DEF OInv, RInv, IInv, WorkInv, WorkOK, ResumesInPlace, BusyOps
  <2>   HoldsBusy(v)
    BY ZenonT(60) DEF HoldsBusy, Holds, CreateSteps, WorkOK, BusyOps
  <2>   work[v].lease = work[w].lease
    BY ZenonT(60) DEF NamedOnce
  <2> QED BY ZenonT(60) DEF OInv, RInv, IInv, BusyExclusive
<1> QED BY <1>1, <1>2, <1>3, ZenonT(60)

\* What an operation started runs from the build it started it from.
LEMMA WorkStarted == ASSUME CInv, NEW w \in Workers, WorkStep(w) PROVE StartedFrom'
<1>   /\ OInv /\ IInv /\ StartedFrom /\ pool \subseteq Sandboxes /\ vm \in [Sandboxes -> VMs]
      /\ work \in [Workers -> WorkRecord] /\ \A v \in Workers : WorkOK(v)
      /\ \A v \in Workers \ {w} : work'[v] = work[v]
  BY WorkAlone DEF CInv, OInv, RInv, IInv, TypeOK, WorkInv, VMs
<1>1. ASSUME NEW v \in Workers, Holds(v)', work'[v].pc # "create", vm'[work'[v].id] \in Moments
      PROVE  vm'[work'[v].id] = work'[v].build
  <2> USE <1>1
  <2>1. CASE v # w
    <3> USE <2>1
    <3>   Holds(v) /\ work[v].pc # "create" /\ work[v].id \in Sandboxes /\ work'[v] = work[v]
      BY ZenonT(60) DEF Holds, WorkOK
    <3>   vm'[work[v].id] = vm[work[v].id]
      BY HeldGuestKept, ZenonT(60)
    <3> QED BY ZenonT(60) DEF StartedFrom
  <2>2. CASE v = w /\ Admit(w)
    BY <2>2, AdmitHolds, ZenonT(60)
  <2>3. CASE v = w /\ Pop(w)
    <3> USE <2>3
    <3>   /\ work'[w].build = work[w].build /\ work[w].pc = "pop" /\ work[w].op = "grant"
          /\ work'[w].id \in pool /\ vm' = vm
      BY PopHolds, ZenonT(60)
    <3> QED BY ZenonT(60) DEF StartedFrom
  <2>4. CASE v = w /\ ~Admit(w) /\ ~Pop(w)
    <3> USE <2>4
    <3>   /\ Holds(w) /\ work'[w] = [work[w] EXCEPT !.pc = work'[w].pc]
          /\ work[w].pc = "create" => vm'[work[w].id] = work[w].build
      BY HoldsOn
    <3>   work'[w].id = work[w].id /\ work'[w].build = work[w].build /\ work[w].id \in Sandboxes
      BY DEF WorkRecord, WorkOK
    <3>3. CASE work[w].pc = "create"
      BY <3>3, ZenonT(60)
    <3>4. CASE work[w].pc # "create"
      <4> USE <3>4
      <4>   vm'[work[w].id] = vm[work[w].id]
        <5>   work[w].pc # "ckptResume"
          BY DEF Holds
        <5> QED BY WorkBoots, ZenonT(60)
      <4> QED BY DEF StartedFrom
    <3> QED BY <3>3, <3>4, ZenonT(60)
  <2> QED BY <2>1, <2>2, <2>3, <2>4, ZenonT(60)
<1>2. ASSUME NEW v \in Workers, work'[v].op \in {"grant", "fill"}, Holds(v)' \/ work'[v].pc = "pop"
      PROVE  work'[v].build = ImageBuild
  <2> USE <1>2
  <2>1. CASE v # w
    BY <2>1 DEF StartedFrom, Holds
  <2>2. CASE v = w /\ work'[v].pc = "pop"
    BY <2>2, ToPop, ZenonT(60) DEF StartedFrom
  <2>3. CASE v = w /\ Holds(v)' /\ Admit(w)
    BY <2>3, AdmitHolds DEF SourceBuild
  <2>4. CASE v = w /\ Holds(v)' /\ Pop(w)
    BY <2>4, PopHolds, ZenonT(60) DEF StartedFrom
  <2>5. CASE v = w /\ Holds(v)' /\ ~Admit(w) /\ ~Pop(w)
    <3> USE <2>5
    <3>   Holds(w) /\ work'[w] = [work[w] EXCEPT !.pc = work'[w].pc]
      BY HoldsOn
    <3>   work'[w].op = work[w].op /\ work'[w].build = work[w].build
      BY DEF WorkRecord
    <3> QED BY DEF StartedFrom
  <2> QED BY <2>1, <2>2, <2>3, <2>4, <2>5, ZenonT(60)
<1>3. ASSUME NEW s \in pool', vm'[s] \in Moments PROVE vm'[s] = ImageBuild
  <2> USE <1>3
  <2>1. CASE s \in pool
    <3> USE <2>1
    <3>   vm'[s] = vm[s]
      BY HeldGuestKept
    <3> QED BY DEF StartedFrom
  <2>2. CASE s \notin pool
    <3> USE <2>2
    <3>   Commit(w)
      <4>   Admit(w) => pool' = pool
        BY ZenonT(60) DEF Admit
      <4>   Pop(w) => pool' \subseteq pool
        BY ZenonT(60) DEF Pop
      <4> QED BY WorkHolds
    <3>   work[w].op = "fill" /\ s = work[w].id /\ vm' = vm /\ work[w].pc = "commit"
      BY ZenonT(60) DEF Commit
    <3> QED BY DEF StartedFrom, Holds
  <2> QED BY <2>1, <2>2, ZenonT(60)
<1> QED BY <1>1, <1>2, <1>3, ZenonT(60) DEF StartedFrom

\* What a step writes of a lease's state, generation and pause build.
LEMMA WorkWrites ==
    ASSUME OInv, NEW w \in Workers, WorkStep(w), NEW k \in Leases
    PROVE  \/ /\ lease'[k].state = lease[k].state /\ lease'[k].resumeBuild = lease[k].resumeBuild
              /\ lease'[k].generation = lease[k].generation
           \/ /\ k = work[w].lease /\ k \notin released
              /\ \/ Commit(w) /\ work[w].op # "fill" /\ lease'[k] = Committed(w)
                 \/ /\ work[w].pc = "paused" /\ lease'[k].state = "suspended"
                    /\ lease'[k].resumeBuild = work[w].build
                 \/ lease'[k].state = "lost"
<1> DEFINE l == work[w].lease
           Same == /\ lease'[k].state = lease[k].state /\ lease'[k].resumeBuild = lease[k].resumeBuild
                   /\ lease'[k].generation = lease[k].generation
<1>0. lease \in [Leases -> LeaseRecord]
  BY DEF OInv, RInv, IInv, TypeOK
<1>a. UNCHANGED lease => Same
  OBVIOUS
<1>b. \A r : Save(l, r) /\ k # l => Same
  BY <1>0, ZenonT(60) DEF Save
<1>c. \A r : Save(l, r) /\ k = l => lease'[k] = r
  BY <1>0 DEF Save
<1> USE DEF memVars
<1>1. CASE Paused(w)
  <2>1. CASE UNCHANGED lease
    BY <1>a, <2>1
  <2>2. CASE /\ l \notin released
             /\ Save(l, [lease[l] EXCEPT !.state = "suspended", !.resumeBuild = work[w].build])
    <3> USE <2>2
    <3>1. CASE k = l
      <4> USE <3>1
      <4>1. lease'[k] = [lease[k] EXCEPT !.state = "suspended", !.resumeBuild = work[w].build]
        BY <1>c
      <4>   lease'[k].state = "suspended" /\ lease'[k].resumeBuild = work[w].build
        BY <1>0, <4>1 DEF LeaseRecord
      <4>   work[w].pc = "paused"
        BY <1>1 DEF Paused
      <4> QED OBVIOUS
    <3> QED BY <1>b, <3>1, ZenonT(60)
  <2> QED BY ZenonT(60), <1>1, <2>1, <2>2 DEF Paused, leaseReleased
<1>2. CASE Commit(w)
  <2> USE <1>2
  <2>1. CASE UNCHANGED lease
    BY <1>a, <2>1
  <2>2. CASE work[w].op # "fill" /\ l \notin released /\ Save(l, Committed(w))
    BY <1>b, <1>c, <2>2, ZenonT(60)
  <2> QED BY ZenonT(60), <2>1, <2>2 DEF Commit, leaseReleased
<1>3. CASE CheckpointRecord(w)
  <2>1. CASE UNCHANGED lease
    BY <1>a, <2>1
  <2>2. CASE Save(l, [lease[l] EXCEPT !.checkpoint = work[w].build])
    <3> USE <2>2
    <3>1. CASE k = l
      <4>   lease'[k] = [lease[k] EXCEPT !.checkpoint = work[w].build]
        BY <1>c, <3>1
      <4> QED BY <1>0, ZenonT(60) DEF LeaseRecord
    <3> QED BY <1>b, <3>1, ZenonT(60)
  <2> QED BY ZenonT(60), <1>3, <2>1, <2>2 DEF CheckpointRecord
<1>4. CASE Mark(w)
  <2>   Save(l, lease[l])
    BY <1>4, ZenonT(60) DEF Mark
  <2> QED BY <1>b, <1>c, ZenonT(60)
<1>5. CASE Lose(w)
  <2>1. CASE UNCHANGED lease
    BY <1>a, <2>1
  <2>2. CASE l \notin released /\ Save(l, [lease[l] EXCEPT !.state = "lost"])
    <3> USE <2>2
    <3>1. CASE k = l
      <4> USE <3>1
      <4>   lease'[k] = [lease[k] EXCEPT !.state = "lost"]
        BY <1>c
      <4>   lease'[k].state = "lost"
        BY <1>0 DEF LeaseRecord
      <4> QED OBVIOUS
    <3> QED BY <1>b, <3>1, ZenonT(60)
  <2> QED BY ZenonT(60), <1>5, <2>1, <2>2 DEF Lose, leaseReleased
<1>6. CASE ~(Paused(w) \/ Commit(w) \/ CheckpointRecord(w) \/ Mark(w) \/ Lose(w))
  <2>   UNCHANGED lease
    BY ZenonT(60), <1>6
    DEF WorkStep, Begin, EndBusy, Pause, Admit, Create, Check, Probe, DropOld, DropFirst,
        EndCreate, Pop, Validate, Checkpoint, CheckpointResume, Crash, Recover, RetryFailed,
        StopLost, ReleaseDelete, ReleaseDrop
  <2> QED BY <1>a, ZenonT(60)
<1> QED BY <1>1, <1>2, <1>3, <1>4, <1>5, <1>6, ZenonT(60)

\* The pause build is what the holder last saw, and so is a build in hand.
LEMMA WorkSaved == ASSUME CInv, NEW w \in Workers, WorkStep(w) PROVE SavedCurrent'
<1>0. /\ OInv /\ IInv /\ SavedCurrent /\ inStore' \subseteq Leases /\ inStore \subseteq Leases
      /\ work \in [Workers -> WorkRecord] /\ \A v \in Workers : WorkOK(v)
      /\ \A v \in Workers \ {w} : work'[v] = work[v]
  BY TypeWork, WorkAlone, ZenonT(60) DEF CInv, OInv, RInv, IInv, TypeOK, WorkInv
<1>a. released' = released
  BY ZenonT(60)
  DEF WorkStep, Begin, EndBusy, Pause, Paused, Admit, Create, Check, Probe, DropOld, DropFirst,
      Commit, EndCreate, Pop, Validate, Checkpoint, CheckpointResume, CheckpointRecord, Mark,
      Crash, Recover, RetryFailed, Lose, StopLost, ReleaseDelete, ReleaseDrop, memVars
<1>1. ASSUME NEW l \in inStore' \ released, lease'[l].state = "suspended"
      PROVE  lease'[l].resumeBuild = reached'[l]
  <2>1. ~(Commit(w) /\ l = work[w].lease /\ work[w].op # "fill" /\ l \notin released)
    <3>1. ASSUME Commit(w), l = work[w].lease, work[w].op # "fill", l \notin released PROVE FALSE
      <4>1. lease' = [lease EXCEPT ![l] = Committed(w)] /\ Committed(w).state # "suspended" /\ l \in Leases
        BY <3>1, CommitShows, ZenonT(60) DEF CInv
      <4> QED BY <1>0, <1>1, <4>1, ZenonT(60) DEF IInv, TypeOK
    <3> QED BY <3>1
  <2>2. l \in Leases /\ l \in inStore /\ reached'[l] = reached[l]
    BY <1>0, <1>1, <2>1, WorkReached, ZenonT(60)
  <2>3. \/ lease[l].state = "suspended" /\ lease'[l].resumeBuild = lease[l].resumeBuild
        \/ l = work[w].lease /\ work[w].pc = "paused" /\ lease'[l].resumeBuild = work[w].build
    BY <1>0, <1>1, <2>1, <2>2, WorkWrites, ZenonT(60)
  <2> QED BY <1>0, <1>1, <2>2, <2>3, ZenonT(60) DEF SavedCurrent
<1>2. ASSUME NEW v \in Workers, work'[v].lease \notin released,
             \/ work'[v].pc \in {"paused", "ckptResume"}
             \/ InPlace(v)' /\ work'[v].op # "recover"
      PROVE  work'[v].build = reached'[work'[v].lease]
  <2>1. CASE v # w
    <3>1. work'[v] = work[v] /\ (InPlace(v)' => InPlace(v))
      BY <1>0, <2>1, ZenonT(60) DEF InPlace, Holds
    <3>2. HoldsBusy(v) /\ work[v].lease \in Leases
      BY <1>0, <1>2, <3>1, ZenonT(60) DEF WorkOK, HoldsBusy, InPlace, Holds, ResumesInPlace, BusyOps,
                              BusySteps, CreateSteps
    <3>3. reached'[work[v].lease] = reached[work[v].lease]
      <4>1. ASSUME Commit(w), work[v].lease = work[w].lease,
                   HoldsBusy(w) \/ lease[work[v].lease].state = "none"
            PROVE  FALSE
        <5>1. work[v].lease \in inStore \cup released
          BY <1>0, <3>2, ZenonT(60) DEF WorkOK, HoldsBusy
        <5> QED BY <1>0, <2>1, <3>2, <4>1, <5>1, ZenonT(60) DEF OInv, RInv, IInv, BusyExclusive, StoreGranted
      <4> QED BY <1>0, <3>2, <4>1, WorkReached, ZenonT(60)
    <3> QED BY <1>0, <1>2, <3>1, <3>3, ZenonT(60) DEF SavedCurrent
  <2>2. CASE v = w /\ work'[w].pc \in {"paused", "ckptResume"}
    <3> DEFINE l == work[w].lease
    <3>1. /\ work[w].pc \in {"pause", "ckpt"} /\ work'[w].lease = l
          /\ work'[w].build = vm[lease[l].sandbox] /\ vm[lease[l].sandbox] \in Moments
          /\ UNCHANGED reached
      BY <1>0, <2>2, StopsGuest, ZenonT(60)
    <3>2. l \in inStore \ released /\ l \in Leases /\ HoldsBusy(w)
      BY <1>0, <1>2, <2>2, <3>1, ZenonT(60) DEF WorkOK, HoldsBusy, BusySteps
    <3>3. ASSUME NEW u \in Workers, InPlace(u), work[u].pc \in {"check", "commit"}, work[u].lease = l PROVE FALSE
      <4>1. HoldsBusy(u)
        BY <3>3, ZenonT(60) DEF InPlace, ResumesInPlace, HoldsBusy, BusyOps, CreateSteps
      <4> QED BY <1>0, <3>1, <3>2, <3>3, <4>1, ZenonT(60) DEF IInv, BusyExclusive
    <3> QED BY <2>2, <3>1, <3>2, <3>3, ZenonT(60) DEF CInv, GuestsCurrent
  <2>3. CASE v = w /\ InPlace(w)' /\ work'[w].op # "recover"
    <3> DEFINE l == work[w].lease
    <3>0. Holds(w)' /\ ResumesInPlace(work'[w].op)
      BY <2>3, ZenonT(60) DEF InPlace
    <3>1. CASE Admit(w)
      <4>1. /\ work'[w].op = work[w].op /\ work'[w].lease = l /\ work'[w].build = SourceBuild(w)
            /\ work[w].pc = "admit" /\ UNCHANGED <<reached, lease>>
        BY <1>0, <3>0, <3>1, AdmitHolds, ZenonT(60)
      <4>2. work[w].op \in {"resume", "use", "restart", "takeBack"}
        BY <2>3, <3>0, <4>1, ZenonT(60) DEF ResumesInPlace
      <4>3. SourceBuild(w) = lease[l].resumeBuild
        BY <4>2, ZenonT(60) DEF SourceBuild
      <4>4. l \in inStore \ released /\ l \in Leases
        BY <1>0, <1>2, <2>3, <4>1, <4>2, ZenonT(60) DEF WorkOK, BusyOps
      <4>5. lease[l].state = "suspended"
        <5>1. PhaseOK(w) /\ work[w].op \in BusyOps /\ work[w].pc \in CreatePath
          BY <1>0, <4>1, <4>2, ZenonT(60) DEF OInv, RInv, PhaseInv, BusyOps, CreatePath, CreateSteps
        <5>2. work[w].op \in {"resume", "use"} => lease[l].state # "recovered"
          BY <4>4, ZenonT(60) DEF CInv, NoResumeOfRecovered, Unrecovered
        <5> QED BY <4>2, <4>4, <5>1, <5>2, ZenonT(60) DEF PhaseOK
      <4> QED BY <1>0, <2>3, <4>1, <4>3, <4>4, <4>5, ZenonT(60) DEF SavedCurrent
    <3>2. ~Pop(w)
      BY <1>0, <3>0, PopHolds, ZenonT(60) DEF ResumesInPlace
    <3>3. CASE ~Admit(w)
      <4>1. Holds(w) /\ work[w].pc # "commit" /\ work'[w] = [work[w] EXCEPT !.pc = work'[w].pc]
        BY <1>0, <3>0, <3>2, <3>3, HoldsOn, ZenonT(60)
      <4>2. work'[w].op = work[w].op /\ work'[w].build = work[w].build /\ work'[w].lease = l
        BY <1>0, <4>1, ZenonT(60) DEF WorkRecord
      <4>3. InPlace(w) /\ l \in Leases
        BY <1>0, <3>0, <4>1, <4>2, ZenonT(60) DEF InPlace, WorkOK, ResumesInPlace, BusyOps
      <4>4. reached'[l] = reached[l]
        <5>1. ~Commit(w)
          BY <4>1 DEF Commit
        <5> QED BY <1>0, <4>3, <5>1, WorkReached, ZenonT(60)
      <4> QED BY <1>0, <1>2, <2>3, <4>2, <4>3, <4>4, ZenonT(60) DEF SavedCurrent
    <3> QED BY <3>1, <3>3, ZenonT(60)
  <2> QED BY <1>2, <2>1, <2>2, <2>3, ZenonT(60)
<1> QED BY <1>a, <1>1, <1>2, ZenonT(60) DEF SavedCurrent

\* A lease is recovered by the commit of a recovery only, and a lease that
\* was never granted stays as it is.
LEMMA WorkStates ==
    ASSUME OInv, NEW w \in Workers, WorkStep(w), NEW k \in Leases
    PROVE  /\ lease'[k].state = "recovered" => lease[k].state = "recovered" \/ work[w].op = "recover"
           /\ lease'[k].state = "none" => /\ lease[k].state = "none"
                                          /\ lease'[k].generation = lease[k].generation
<1>   lease \in [Leases -> LeaseRecord] /\ OpAt(w)
  BY DEF OInv, RInv, IInv, TypeOK, PhaseInv
<1>1. ASSUME Commit(w), k = work[w].lease, work[w].op # "fill"
      PROVE  /\ Committed(w).state = "recovered" => work[w].op = "recover"
             /\ Committed(w).state # "none"
  <2> USE <1>1
  <2>   work[w].op \in CreatingOps
    BY ZenonT(60) DEF Commit, OpAt, CreateSteps
  <2> QED BY DEF Committed, LeaseRecord, NewLease, CreatingOps
<1> QED BY <1>1, WorkWrites, ZenonT(60)

\* Without crash tests, probes and the reconcile, nothing is ever recovered.
LEMMA StaysUnrecovered ==
    ASSUME "crashTest" \notin Ops, "probe" \notin Ops, "reconcile" \notin Ops, MaxRestarts = 0,
           OInv, Unrecovered, [Next]_vars
    PROVE  Unrecovered'
<1>0. /\ IInv /\ work \in [Workers -> WorkRecord] /\ Reconciler \in Workers /\ restarts = 0
      /\ Handlers \subseteq Workers
  BY DEF OInv, RInv, IInv, TypeOK, Workers
<1> DEFINE OpsOK == \A v \in Workers : work[v].op \notin {"crashTest", "probe", "recover"}
           StatesOK == \A l \in Leases : lease[l].state # "recovered"
<1> USE DEF memVars, sweepVars, bootVars, recVars
<1>1. NoReconcile'
  BY ReconcileRests DEF Unrecovered
<1>2. ASSUME NEW w \in Workers, WorkStep(w) PROVE OpsOK' /\ StatesOK'
  <2> USE <1>2
  <2>1. ~Crash(w)
    BY <1>0 DEF Crash, OInv, RInv, PhaseInv, OpAt, Unrecovered
  <2>   OpsOK'
    BY <1>0, <2>1, OpMoves, WorkAlone, ZenonT(60) DEF Unrecovered, OInv, RInv
  <2>   StatesOK'
    BY WorkStates DEF Unrecovered
  <2> QED BY ZenonT(60)
<1>3. ASSUME NEW w \in Handlers, Request(w) PROVE OpsOK' /\ StatesOK'
  <2>1. UNCHANGED lease
    BY ZenonT(60), <1>3 DEF Request, Fill, Grant, Restart, Release, Lookup, Seize
  <2>   PICK op, l, step, b : Start(w, op, l, step, b) /\ op \notin {"crashTest", "probe", "recover"}
    <3>1. ASSUME NEW l \in Leases, NEW op \in Ops, Lookup(w, l, op) \/ Seize(w, l, op)
          PROVE  /\ op \notin {"crashTest", "probe", "recover"}
                 /\ \E step, b : Start(w, op, l, step, b)
      BY <3>1, ZenonT(60) DEF Lookup, Seize
    <3>2. CASE Fill(w) \/ \E l \in Leases : Grant(w, l) \/ Restart(w, l) \/ Release(w, l)
      <4>   \E op, l, step, b : /\ Start(w, op, l, step, b)
                                 /\ op \in {"fill", "grant", "cold", "fresh", "restart", "release"}
        BY ZenonT(60), <3>2 DEF Fill, Grant, Restart, Release
      <4> QED OBVIOUS
    <3> QED BY ZenonT(60), <1>3, <3>1, <3>2 DEF Request
  <2>   OpsOK'
    BY <1>0, ZenonT(60) DEF Start, Unrecovered
  <2> QED BY <2>1, ZenonT(60) DEF Unrecovered
<1>4. ~Reconcile /\ ~BackendRestart
  BY <1>0 DEF Reconcile, ReconcileList, ReconcileTargets, ReconcileNext, ReconcileEnd,
              BackendRestart, Unrecovered, NoReconcile
<1>5. ASSUME UNCHANGED <<lease, work>> PROVE OpsOK' /\ StatesOK'
  BY <1>5, ZenonT(60) DEF Unrecovered
<1>6. ASSUME Sweep PROVE UNCHANGED <<lease, work>>
  BY ZenonT(60), <1>6 DEF Sweep, SweepStart, SweepPick, SweepClaims, SweepKill, SweepList,
     SweepFlight, SweepClassify, SweepEnd, SweepUnchanged
<1>7. ASSUME NEW l \in Leases, GuestRuns(l) PROVE UNCHANGED <<lease, work>>
  BY <1>7, ZenonT(60) DEF GuestRuns
<1>8. ASSUME NEW s \in Sandboxes, VmCrash(s) PROVE UNCHANGED <<lease, work>>
  BY <1>8, ZenonT(60) DEF VmCrash
<1>9. ASSUME UNCHANGED vars PROVE UNCHANGED <<lease, work>>
  BY <1>9, ZenonT(60) DEF vars
<1> QED BY <1>1, <1>2, <1>3, <1>4, <1>5, <1>6, <1>7, <1>8, <1>9, ZenonT(60) DEF Next, Unrecovered

\* Where guests only stop, the other steps keep the continuity.
LEMMA QuietContinuity ==
    ASSUME CInv, OthersQuiet, GuestsStop
    PROVE  GuestsCurrent' /\ StartedFrom' /\ SavedCurrent' /\ NoneNew'
<1>   /\ OInv /\ inStore \subseteq Leases /\ StoreNamed /\ pool \subseteq Sandboxes
      /\ \A v \in Workers : WorkOK(v)
      /\ UNCHANGED <<inStore, lease, reached>> /\ released \subseteq released' /\ pool' \subseteq pool
      /\ NoVM \notin Moments
  <2>   NoVM \notin Moments
    BY BoundAssumption DEF NoVM, Moments
  <2>   OInv /\ inStore \subseteq Leases /\ StoreNamed /\ pool \subseteq Sandboxes /\ \A v \in Workers : WorkOK(v)
    BY ZenonT(60) DEF CInv, OInv, RInv, IInv, TypeOK, WorkInv
  <2> QED BY ZenonT(60) DEF OthersQuiet, GuestsStop
<1>1. GuestsCurrent'
  <2> SUFFICES ASSUME NEW l \in inStore \ released', vm'[lease[l].sandbox] \in Moments
               PROVE  \/ vm'[lease[l].sandbox] = reached[l]
                      \/ \E v \in Workers : /\ InPlace(v)' /\ work'[v].pc \in {"check", "commit"}
                                            /\ work'[v].lease = l
    BY ZenonT(60) DEF GuestsCurrent
  <2>   lease[l].sandbox \in Sandboxes /\ l \notin released
    BY ZenonT(60) DEF StoreNamed
  <2>   vm'[lease[l].sandbox] = vm[lease[l].sandbox]
    BY DEF GuestsStop
  <2>   \A v \in Workers : InPlace(v) /\ work[v].pc \in {"check", "commit"} => InPlace(v)' /\ work'[v] = work[v]
    BY DEF OthersQuiet, InPlace, Holds
  <2> QED BY ZenonT(60) DEF CInv, GuestsCurrent
<1>2. \A v \in Workers : Holds(v)' => work'[v] = work[v] /\ Holds(v)
  BY ZenonT(60) DEF OthersQuiet, Holds
<1>3. StartedFrom'
  <2>1. ASSUME NEW v \in Workers, Holds(v)', work'[v].pc # "create", vm'[work'[v].id] \in Moments
        PROVE  vm'[work'[v].id] = work'[v].build
    <3> USE <2>1
    <3>   work'[v] = work[v] /\ Holds(v) /\ work[v].id \in Sandboxes
      BY <1>2, ZenonT(60) DEF WorkOK
    <3> QED BY DEF CInv, StartedFrom, GuestsStop
  <2>2. ASSUME NEW v \in Workers, work'[v].op \in {"grant", "fill"}, Holds(v)' \/ work'[v].pc = "pop"
        PROVE  work'[v].build = ImageBuild
    BY <1>2, <2>2 DEF CInv, StartedFrom, OthersQuiet
  <2>3. ASSUME NEW s \in pool', vm'[s] \in Moments PROVE vm'[s] = ImageBuild
    BY <2>3, ZenonT(60) DEF CInv, StartedFrom, GuestsStop
  <2> QED BY <2>1, <2>2, <2>3, ZenonT(60) DEF StartedFrom
<1>   SavedCurrent'
  <2>1. \A l \in inStore' \ released' : lease'[l].state = "suspended" => lease'[l].resumeBuild = reached'[l]
    BY DEF CInv, SavedCurrent
  <2>2. ASSUME NEW v \in Workers, work'[v].lease \notin released',
               \/ work'[v].pc \in {"paused", "ckptResume"}
               \/ InPlace(v)' /\ work'[v].op # "recover"
        PROVE  work'[v].build = reached'[work'[v].lease]
    <3> USE <2>2
    <3>   work'[v] = work[v] /\ (InPlace(v)' => InPlace(v))
      BY <1>2 DEF OthersQuiet, InPlace
    <3> QED BY ZenonT(60) DEF CInv, SavedCurrent
  <2> QED BY <2>1, <2>2, ZenonT(60) DEF SavedCurrent
<1>   NoneNew'
  BY ZenonT(60) DEF CInv, NoneNew
<1> QED BY <1>1, <1>3, ZenonT(60)

\* A guest that runs on is the one its holder sees, and nobody has it in hand.
LEMMA RunsContinuity ==
    ASSUME CInv, NEW l \in Leases, GuestRuns(l)
    PROVE  GuestsCurrent' /\ StartedFrom' /\ SavedCurrent' /\ NoneNew'
<1> DEFINE s == lease[l].sandbox
<1>0. /\ OInv /\ inStore \subseteq Leases /\ StoreNamed /\ pool \subseteq Sandboxes /\ NamedOnce
      /\ \A v \in Workers : WorkOK(v)
      /\ vm \in [Sandboxes -> VMs] /\ reached \in [Leases -> Moments]
  BY ZenonT(60) DEF CInv, OInv, OwnInv, RInv, IInv, TypeOK, WorkInv, VMs
<1>   /\ UNCHANGED <<inStore, lease, released, pool, work>> /\ l \in inStore /\ s \in Sandboxes
      /\ live(l) /\ vm[s] # NoVM /\ \A v \in Workers : ~(Holds(v) /\ work[v].id = s)
      /\ \A t \in Sandboxes : t # s => vm'[t] = vm[t]
      /\ \A k \in Leases : k # l => reached'[k] = reached[k]
      /\ vm'[s] = reached'[l]
  <2>   /\ UNCHANGED <<inStore, lease, released, pool, work>> /\ l \in inStore
        /\ live(l) /\ \A v \in Workers : ~(Holds(v) /\ work[v].id = s)
        /\ vm' = [vm EXCEPT ![s] = vm[s] + 1] /\ reached' = [reached EXCEPT ![l] = vm[s] + 1]
    BY ZenonT(60) DEF GuestRuns, memVars
  <2>   s \in Sandboxes
    BY <1>0, ZenonT(60) DEF StoreNamed
  <2>   vm[s] # NoVM /\ \A t \in Sandboxes : t # s => vm'[t] = vm[t]
    BY <1>0, GuestMoves, ZenonT(60)
  <2>   vm'[s] = reached'[l] /\ \A k \in Leases : k # l => reached'[k] = reached[k]
    BY <1>0, ZenonT(60)
  <2> QED OBVIOUS
<1>2. \A v \in Workers : (InPlace(v)' <=> InPlace(v)) /\ (Holds(v)' <=> Holds(v))
  BY DEF InPlace, Holds
<1>3. GuestsCurrent'
  <2> SUFFICES ASSUME NEW k \in inStore \ released, vm'[lease[k].sandbox] \in Moments
               PROVE  \/ vm'[lease[k].sandbox] = reached'[k]
                      \/ \E v \in Workers : /\ InPlace(v) /\ work[v].pc \in {"check", "commit"}
                                            /\ work[v].lease = k
    BY <1>2, ZenonT(60) DEF GuestsCurrent
  <2>1. CASE k = l
    BY <2>1, ZenonT(60)
  <2>2. CASE k # l
    <3> USE <2>2
    <3>   lease[k].sandbox \in Sandboxes /\ lease[k].sandbox # s /\ k \in Leases
      BY <1>0, ZenonT(60) DEF NamedOnce, StoreNamed
    <3>   vm'[lease[k].sandbox] = vm[lease[k].sandbox] /\ reached'[k] = reached[k]
      BY ZenonT(60)
    <3> QED BY ZenonT(60) DEF CInv, GuestsCurrent
  <2> QED BY <2>1, <2>2, ZenonT(60)
<1>4. StartedFrom'
  <2>1. ASSUME NEW v \in Workers, Holds(v)', work'[v].pc # "create", vm'[work'[v].id] \in Moments
        PROVE  vm'[work'[v].id] = work'[v].build
    <3> USE <2>1
    <3>   Holds(v) /\ work[v].id \in Sandboxes /\ work[v].id # s
      BY <1>0, <1>2, ZenonT(60) DEF WorkOK
    <3> QED BY ZenonT(60) DEF CInv, StartedFrom
  <2>2. ASSUME NEW v \in Workers, work'[v].op \in {"grant", "fill"}, Holds(v)' \/ work'[v].pc = "pop"
        PROVE  work'[v].build = ImageBuild
    BY <1>2, <2>2, ZenonT(60) DEF CInv, StartedFrom
  <2>3. ASSUME NEW t \in pool', vm'[t] \in Moments PROVE vm'[t] = ImageBuild
    <3> USE <2>3
    <3>   t \in Sandboxes /\ t # s
      BY <1>0, ZenonT(60) DEF NamedOnce
    <3> QED BY ZenonT(60) DEF CInv, StartedFrom
  <2> QED BY <2>1, <2>2, <2>3, ZenonT(60) DEF StartedFrom
<1>   SavedCurrent'
  <2>1. ASSUME NEW k \in inStore' \ released', lease'[k].state = "suspended"
        PROVE  lease'[k].resumeBuild = reached'[k]
    BY <1>0, <2>1, ZenonT(60) DEF CInv, SavedCurrent, live
  <2>2. ASSUME NEW v \in Workers, work'[v].lease \notin released',
               \/ work'[v].pc \in {"paused", "ckptResume"}
               \/ InPlace(v)' /\ work'[v].op # "recover"
        PROVE  work'[v].build = reached'[work'[v].lease]
    <3>   /\ work'[v] = work[v] /\ work[v].lease \notin released
          /\ \/ work[v].pc \in {"paused", "ckptResume"}
             \/ InPlace(v) /\ work[v].op # "recover"
      BY <1>2, <2>2, ZenonT(60)
    <3>   work[v].lease # l
      BY ZenonT(60) DEF CInv, StoppedInHand, InPlace, OInv, OwnInv, HeldOnce
    <3>   work[v].lease \in Leases
      BY <1>0, ZenonT(60) DEF WorkOK, InPlace, ResumesInPlace, BusyOps, BusySteps
    <3> QED BY ZenonT(60) DEF CInv, SavedCurrent
  <2> QED BY <2>1, <2>2, ZenonT(60) DEF SavedCurrent
<1>   NoneNew'
  BY ZenonT(60) DEF CInv, NoneNew
<1> QED BY <1>3, <1>4, ZenonT(60)

\* The invariant of the guests' continuity holds when the backend starts.
LEMMA CInitInv == ASSUME Init PROVE CInv
<1>1. OInv
  BY OInitInv, ZenonT(60)
<1>2. StoppedInHand /\ GuestsCurrent
  BY DEF Init, StoppedInHand, GuestsCurrent, IdleWork
<1>   StartedFrom /\ SavedCurrent
  BY ZenonT(60) DEF Init, StartedFrom, SavedCurrent, InPlace, Holds, IdleWork
<1>   NoneNew /\ NoResumeOfRecovered
  BY DEF Init, NoneNew, NewLease, NoResumeOfRecovered, IdleWork
<1> QED BY <1>1, <1>2, ZenonT(60) DEF CInv

\* Every step keeps the continuity, where nothing comes to resume a lease
\* that was recovered.
LEMMA CNextInv ==
    ASSUME MaxRestarts = 0, CInv, NoResumeOfRecovered', [Next]_vars PROVE CInv'
<1>   OInv /\ OInv'
  BY ONextInv DEF CInv
<1>1. CASE \E w \in Workers : WorkStep(w)
  <2>   PICK w \in Workers : WorkStep(w)
    BY <1>1
  <2>   StoppedInHand' /\ GuestsCurrent' /\ StartedFrom' /\ SavedCurrent'
    BY WorkStopped, WorkGuests, WorkStarted, WorkSaved, ZenonT(60) DEF CInv
  <2>   NoneNew'
    BY WorkStates DEF CInv, NoneNew
  <2> QED BY DEF CInv
<1>2. CASE ~(\E w \in Workers : WorkStep(w))
  <2>   OthersQuiet /\ (GuestsStop \/ \E l \in Leases : GuestRuns(l))
    BY <1>2, OthersAreQuiet, ZenonT(60) DEF Next
  <2>   StoppedInHand'
    BY QuietStopped DEF CInv
  <2>   GuestsCurrent' /\ StartedFrom' /\ SavedCurrent' /\ NoneNew'
    BY QuietContinuity, RunsContinuity, ZenonT(60)
  <2> QED BY DEF CInv
<1> QED BY <1>1, <1>2, ZenonT(60)

\* Where nobody has the lease in hand, its guest is the one its holder saw.
LEMMA CurrentIsContinuous == ASSUME CInv PROVE Continuity
<1> SUFFICES ASSUME NEW l \in inStore \ (released \cup busy), vm[lease[l].sandbox] \in Moments
             PROVE  vm[lease[l].sandbox] = reached[l]
  BY ZenonT(60) DEF Continuity
<1>0. l \in Leases /\ BusyExclusive
  BY DEF CInv, OInv, RInv, IInv, TypeOK
<1>1. ASSUME NEW w \in Workers, InPlace(w), work[w].pc \in {"check", "commit"}, work[w].lease = l PROVE FALSE
  <2> USE <1>1
  <2>   HoldsBusy(w)
    BY DEF InPlace, ResumesInPlace, HoldsBusy, BusyOps, CreateSteps
  <2> QED BY <1>0, ZenonT(60) DEF BusyExclusive
<1> QED BY <1>1 DEF CInv, GuestsCurrent

\* Whatever fails, and whatever runs beside it, the guest that runs under a
\* live lease is the one its holder last saw in this generation: a resume
\* starts from the pause of the guest that was paused, a checkpoint goes on
\* where it stopped, and what starts from something older has a new
\* generation.  A backend process restart is left out, and so is the one
\* combination that breaks it: resumeLease lets a recovered lease through,
\* whose pause build is older than its guest (ResumeRecovered).
THEOREM GuestIsContinuous ==
    ASSUME MaxRestarts = 0,
           \/ "resume" \notin Ops /\ "use" \notin Ops
           \/ "crashTest" \notin Ops /\ "probe" \notin Ops /\ "reconcile" \notin Ops
    PROVE  Spec => []Continuity
<1> DEFINE NoRecoveries == "crashTest" \notin Ops /\ "probe" \notin Ops /\ "reconcile" \notin Ops
           Inv == CInv /\ OpInv /\ (NoRecoveries => Unrecovered)
<1>1. Init => Inv
  <2>1. Init => OpInv /\ Unrecovered
    BY DEF Init, OpInv, RunOps, IdleWork, Unrecovered, NoReconcile, NewLease, Workers
  <2> QED BY <2>1, CInitInv, ZenonT(60)
<1>2. Inv /\ [Next]_vars => Inv'
  <2> SUFFICES ASSUME Inv, [Next]_vars PROVE Inv'
    OBVIOUS
  <2>0. OInv /\ IInv
    BY DEF CInv, OInv, RInv
  <2>1. OpInv'
    BY <2>0, OpsRun
  <2>2. NoRecoveries => Unrecovered'
    BY <2>0, StaysUnrecovered, ZenonT(60)
  <2>3. NoResumeOfRecovered'
    <3>1. CASE NoRecoveries
      BY <2>2, <3>1, ZenonT(60) DEF NoResumeOfRecovered
    <3>2. CASE ~NoRecoveries
      <4>1. "resume" \notin RunOps /\ "use" \notin RunOps
        BY <3>2 DEF RunOps
      <4> QED BY <2>1, <4>1, ZenonT(60) DEF OpInv, NoResumeOfRecovered
    <3> QED BY <3>1, <3>2, ZenonT(60)
  <2> QED BY <2>1, <2>2, <2>3, CNextInv, ZenonT(60)
<1>3. Inv => Continuity
  BY CurrentIsContinuous
<1> HIDE DEF Inv, NoRecoveries
<1> QED BY <1>1, <1>2, <1>3, PTL DEF Spec

=============================================================================
