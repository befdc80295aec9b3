-------------------------- MODULE LostLeaseProofs ---------------------------
(***************************************************************************)
(* What becomes of the guest of a lost lease and of the sandboxes the      *)
(* sweep judges, for every value of the constants.  The theorems leave out *)
(* the operations that the model checker shows to break them: a suspend    *)
(* that looked a lease up before it was lost, and a pool fill.             *)
(***************************************************************************)
EXTENDS SandboxOwnershipProofs

-----------------------------------------------------------------------------
(* What the sweep judges. *)

\* Every sandbox on the node, remembered or under the sweep's eyes was drawn.
SweepDrawn ==
    /\ present_ids \subseteq used /\ orphans \subseteq used
    /\ sweep.listed \subseteq used /\ sweep.todo \subseteq used
    /\ sweep.pc \in {"claims", "kill"} => sweep.id \in used

\* The id the sweep found not in flight is no operation's fresh one, and the
\* id it found unclaimed is claimed by lost leases at most.
SweepJudged ==
    /\ sweep.pc \in {"claims", "kill"} => \A w \in Workers : Fresh(w) => work[w].id # sweep.id
    /\ sweep.pc = "kill" => \A l \in Owners(sweep.id) : lease[l].state = "lost"

\* The inductive invariant of the sweep.
SInv == MInv /\ AliveInv /\ OpInv /\ SweepDrawn /\ SweepJudged

-----------------------------------------------------------------------------
(* What the startup stage catches up with. *)

\* Until the backend serves, only the reconcile and then the sweep run, the
\* in-flight marks are the reconcile's, and the sweep sees none.
StartInv ==
    /\ work[Reconciler].op \in {"none", "recover"}
    /\ startup # "no" => \A w \in Handlers : work[w].pc = "idle"
    /\ startup = "sweep" => work[Reconciler].pc = "idle"
    /\ startup # "no" => \A s \in creating : Marking(Reconciler) /\ work[Reconciler].id = s
    /\ sweep.pc # "idle" => startup = "sweep"
    /\ sweep.pc \in {"flight", "classify"} => sweep.phase = "sweep"
    /\ sweep.pc = "classify" => sweep.flight = {}

\* A guest left running under a lost lease is about to be stopped or is
\* remembered, or the startup sweep has yet to come to it.
LostHeld ==
    \A l \in inStore :
        lease[l].state = "lost" /\ vm[lease[l].sandbox] # NoVM =>
            /\ startup = "no" => \/ lease[l].sandbox \in orphans
                                 \/ \E w \in Workers : work[w].pc = "stopLost" /\ work[w].lease = l
            /\ sweep.pc \in {"flight", "classify"} => lease[l].sandbox \in sweep.listed
            /\ sweep.pc \in {"pick", "claims", "kill"} /\ sweep.phase = "sweep" =>
                  lease[l].sandbox \in orphans \cup sweep.todo

\* A checkpoint that stopped the guest of a lost lease, and will resume it,
\* found it running: its id is remembered.
CheckpointsLost ==
    \A w \in Workers :
        work[w].pc = "ckptResume" /\ work[w].lease \in inStore
           /\ lease[work[w].lease].state = "lost"
        => lease[work[w].lease].sandbox \in orphans

\* The inductive invariant of the startup stage.
LInv == OInv /\ AInv /\ StartInv /\ LostHeld /\ CheckpointsLost

-----------------------------------------------------------------------------
(* Every sandbox the sweep meets was drawn. *)

\* Ids once drawn stay drawn.
LEMMA UsedGrows == ASSUME IInv, NEW w \in Workers, WorkStep(w) PROVE used \subseteq used'
<1>1. CASE Admit(w)
  BY ZenonT(60), <1>1 DEF Admit
<1>2. CASE Pop(w) \/ Commit(w)
  BY ZenonT(60), <1>2 DEF Pop, Commit
<1> QED BY <1>1, <1>2, WorkHolds

\* A step of an operation.
LEMMA WorkDrawn ==
    ASSUME OInv, SweepDrawn, NEW w \in Workers, WorkStep(w) PROVE SweepDrawn'
<1>0. IInv /\ NodeStep(w) /\ used \subseteq used'
  BY WorkNode, UsedGrows DEF OInv, RInv
<1>1. ASSUME NEW s \in Sandboxes, vm'[s] # NoVM PROVE s \in used
  <2>1. CASE vm[s] # NoVM
    BY <2>1 DEF SweepDrawn, present_ids
  <2>2. CASE work[w].pc = "create" /\ s = work[w].id
    BY <2>2, HeldUsed DEF Holds
  <2>3. CASE work[w].pc = "ckptResume" /\ s = lease[work[w].lease].sandbox
    <3> USE <2>3
    <3>   work[w].lease \in Leases /\ s # NoSandbox
      BY ZenonT(60), SentinelAssumption DEF OInv, RInv, IInv, WorkInv, WorkOK, BusySteps
    <3> QED BY DEF OInv, OwnInv, UsedDrawn
  <2> QED BY <1>0, <1>1, <2>1, <2>2, <2>3 DEF NodeStep
<1> QED BY <1>0, <1>1 DEF NodeStep, SweepDrawn, present_ids

\* Any other step.
LEMMA OtherDrawn ==
    ASSUME OInv, SweepDrawn,
           \/ \E w \in Handlers : Request(w)
           \/ Reconcile \/ Sweep \/ BackendRestart
           \/ \E l \in Leases : GuestRuns(l)
           \/ \E s \in Sandboxes : VmCrash(s)
           \/ UNCHANGED vars
    PROVE  SweepDrawn'
<1>0. /\ vm \in [Sandboxes -> VMs] /\ sweep \in SweepRecord /\ lease \in [Leases -> LeaseRecord]
      /\ present_ids \subseteq Sandboxes
  BY DEF OInv, RInv, IInv, TypeOK, VMs, present_ids
<1> USE DEF sweepVars
<1>1. CASE UNCHANGED <<vm, orphans, sweep, used>>
  BY <1>1 DEF SweepDrawn, present_ids
<1>2. CASE \/ \E w \in Handlers : Request(w)
           \/ Reconcile
           \/ UNCHANGED vars
  <2>   UNCHANGED <<vm, orphans, sweep, used>>
    BY ZenonT(60), <1>2 DEF Request, Fill, Grant, Restart, Release, Lookup, Seize, Reconcile,
       ReconcileList, ReconcileTargets, ReconcileNext, ReconcileEnd, vars
  <2> QED BY <1>1
<1>3. ASSUME NEW l \in Leases, GuestRuns(l) PROVE SweepDrawn'
  <2>   UNCHANGED <<orphans, sweep, used>> /\ present_ids' \subseteq present_ids
    BY <1>0, <1>3 DEF GuestRuns, present_ids, NoVM
  <2> QED BY DEF SweepDrawn
<1>4. ASSUME NEW s \in Sandboxes, VmCrash(s) PROVE SweepDrawn'
  <2>   UNCHANGED <<orphans, sweep, used>> /\ present_ids' \subseteq present_ids
    BY <1>0, <1>4 DEF VmCrash, present_ids
  <2> QED BY DEF SweepDrawn
<1>5. CASE BackendRestart
  <2> USE <1>5
  <2>   UNCHANGED used /\ sweep' = IdleSweep
    BY DEF BackendRestart
  <2>   present_ids' \subseteq present_ids /\ orphans' \subseteq present_ids
    BY <1>0 DEF BackendRestart, present_ids
  <2> QED BY DEF SweepDrawn, IdleSweep
<1>6. CASE Sweep
  <2>0. UNCHANGED used
    BY ZenonT(60), <1>6 DEF Sweep, SweepStart, SweepClaims, SweepKill, SweepList, SweepFlight,
       SweepClassify, SweepEnd, SweepPick, SweepUnchanged
  <2>1. ASSUME NEW s \in Sandboxes, SweepPick(s) PROVE SweepDrawn'
    <3> USE <2>1
    <3>1. CASE SweepSkip(s)
      BY <1>0, <2>0, <3>1 DEF SweepPick, SweepSkip, SweepDrawn, present_ids, SweepRecord
    <3>2. CASE sweep' = [sweep EXCEPT !.pc = "claims", !.id = s] /\ UNCHANGED orphans
      BY <1>0, <2>0, <3>2 DEF SweepPick, SweepDrawn, present_ids, SweepRecord
    <3> QED BY <3>1, <3>2 DEF SweepPick
  <2>2. CASE SweepStart \/ SweepEnd
    <3>   /\ sweep'.pc \in {"idle", "pick"} /\ sweep'.listed = {}
          /\ sweep'.todo \subseteq orphans /\ UNCHANGED <<orphans, vm>>
      <4>1. CASE SweepStart
        BY <4>1 DEF SweepStart, IdleSweep
      <4>2. CASE SweepEnd
        BY <4>2 DEF SweepEnd, IdleSweep
      <4> QED BY <2>2, <4>1, <4>2
    <3> QED BY <2>0 DEF SweepDrawn, present_ids
  <2>3. CASE SweepClaims
    <3> USE <2>3
    <3>1. CASE SweepSkip(sweep.id)
      BY <1>0, <2>0, <3>1 DEF SweepClaims, SweepSkip, SweepDrawn, present_ids, SweepRecord
    <3>2. CASE sweep' = [sweep EXCEPT !.pc = "kill"] /\ UNCHANGED orphans
      BY <1>0, <2>0, <3>2 DEF SweepClaims, SweepDrawn, present_ids, SweepRecord
    <3> QED BY <3>1, <3>2 DEF SweepClaims
  <2>4. CASE SweepKill
    <3> USE <2>4
    <3>1. present_ids' \subseteq present_ids
      BY <1>0 DEF SweepKill, present_ids
    <3>   orphans' \subseteq orphans \cup {sweep.id}
      BY DEF SweepKill
    <3>   /\ sweep'.pc = "pick" /\ sweep'.listed = sweep.listed /\ sweep'.todo \subseteq sweep.todo
          /\ sweep.id \in used
      BY <1>0 DEF SweepKill, SweepRecord, SweepDrawn
    <3> QED BY <2>0, <3>1 DEF SweepDrawn
  <2>5. CASE SweepList
    <3> USE <2>5
    <3>   /\ sweep'.pc \in {"idle", "flight"} /\ sweep'.listed \subseteq present_ids
          /\ sweep'.todo \subseteq sweep.todo /\ UNCHANGED <<orphans, vm>>
      <4>1. CASE sweep' = IdleSweep
        BY <4>1 DEF SweepList, IdleSweep
      <4>2. CASE sweep' = [sweep EXCEPT !.pc = "flight", !.phase = "sweep",
                                        !.listed = present_ids, !.again = present_ids \cap seen]
        BY <1>0, <4>2 DEF SweepList, SweepRecord
      <4> QED BY <4>1, <4>2 DEF SweepList
    <3> QED BY <2>0 DEF SweepDrawn, present_ids
  <2>6. CASE SweepFlight
    BY <1>0, <2>0, <2>6, ZenonT(60) DEF SweepFlight, SweepDrawn, present_ids, SweepRecord
  <2>7. CASE SweepClassify
    <3> USE <2>7
    <3>   \E t : t \subseteq sweep.listed /\ sweep' = [IdleSweep EXCEPT !.pc = "pick",
                                                      !.phase = "sweep", !.todo = t]
      BY ZenonT(60) DEF SweepClassify
    <3>   /\ sweep'.pc = "pick" /\ sweep'.listed = {} /\ sweep'.todo \subseteq sweep.listed
          /\ UNCHANGED <<orphans, vm>>
      BY DEF SweepClassify, IdleSweep
    <3> QED BY <2>0 DEF SweepDrawn, present_ids
  <2> QED BY ZenonT(60), <1>6, <2>1, <2>2, <2>3, <2>4, <2>5, <2>6, <2>7 DEF Sweep
<1> QED BY <1>2, <1>3, <1>4, <1>5, <1>6, ZenonT(60)

-----------------------------------------------------------------------------
(* What the sweep deletes. *)

\* A step that brings no fresh id.
FreshKept == \A v \in Workers : Fresh(v)' => Fresh(v) /\ work'[v].id = work[v].id

\* Such a step, where no lease changes, keeps what the sweep has judged.
LEMMA JudgedKept ==
    ASSUME SweepJudged, UNCHANGED <<inStore, lease>>, FreshKept,
           sweep'.pc = sweep.pc, sweep'.id = sweep.id
    PROVE  SweepJudged'
<1>   Owners(sweep.id)' = Owners(sweep.id)
  BY DEF Owners
<1> QED BY DEF SweepJudged, FreshKept

\* A step of an operation.
LEMMA WorkJudged ==
    ASSUME "suspend" \notin Ops, SInv, NEW w \in Workers, WorkStep(w) PROVE SweepJudged'
<1>   /\ OInv /\ AInv /\ IInv /\ NodeStep(w) /\ MarkStep(w) /\ inStore \subseteq Leases
      /\ \A v \in Workers \ {w} : work'[v] = work[v]
  BY WorkNode, WorkMarks, WorkAlone DEF SInv, MInv, AInv, OInv, RInv, IInv, TypeOK
<1>1. sweep'.pc = sweep.pc /\ sweep'.id = sweep.id
  BY ZenonT(60) DEF NodeStep
<1>2. ASSUME sweep.pc \in {"claims", "kill"}, NEW v \in Workers, Fresh(v)'
      PROVE  work'[v].id # sweep.id
  <2> USE <1>2
  <2>0. sweep.id \in used
    BY DEF SInv, SweepDrawn
  <2>1. CASE v = w
    BY <2>0, <2>1, ZenonT(60) DEF MarkStep, SInv, SweepJudged
  <2>2. CASE v # w
    <3>   Fresh(v) /\ work'[v].id = work[v].id
      BY <2>2 DEF Fresh, Holds
    <3> QED BY ZenonT(60) DEF SInv, SweepJudged
  <2> QED BY <2>1, <2>2, ZenonT(60)
<1>3. ASSUME sweep.pc = "kill", NEW k \in inStore', lease'[k].sandbox = sweep.id
      PROVE  lease'[k].state = "lost"
  <2>1. ~(Fresh(w) /\ lease'[k].sandbox = work[w].id)
    BY <1>3 DEF SInv, SweepJudged
  <2>2. k \in inStore /\ lease'[k].sandbox = lease[k].sandbox
    BY <1>3, <2>1, NewName
  <2>3. lease[k].state = "lost" /\ k \in Leases
    BY <1>3, <2>2 DEF SInv, SweepJudged, Owners
  <2>4. work[w].op # "suspend"
    BY DEF SInv, OpInv, RunOps
  <2>5. CASE work[w].op = "restore" /\ work[w].pc = "commit" /\ k = work[w].lease /\ lease'[k] # lease[k]
    <3> USE <2>5
    <3>1. Commit(w)
      BY ZenonT(60) DEF WorkStep, Begin, EndBusy, Pause, Paused, Admit, Create, Check, Probe,
         DropOld, DropFirst, EndCreate, Pop, Validate, Checkpoint, CheckpointResume,
         CheckpointRecord, Mark, Crash, Recover, RetryFailed, Lose, StopLost, ReleaseDelete,
         ReleaseDrop
    <3>2. lease' = [lease EXCEPT ![k] = Committed(w)]
      BY ZenonT(60), <3>1 DEF Commit, Save
    <3>   Committed(w).sandbox = work[w].id /\ Fresh(w)
      BY CommittedSandbox, ZenonT(60) DEF Fresh, Holds, ResumesInPlace
    <3>   lease'[k].sandbox = work[w].id
      BY <2>3, <3>2 DEF IInv, TypeOK
    <3> QED BY <2>1, ZenonT(60)
  <2> QED BY <2>3, <2>4, <2>5, UnlostBy, ZenonT(60)
<1> QED BY <1>1, <1>2, <1>3, ZenonT(60) DEF SweepJudged, Owners

\* Beginning an operation brings no fresh id, nor do the loops.
LEMMA OthersFresh ==
    ASSUME IInv, (\E w \in Handlers : Request(w)) \/ Reconcile
    PROVE  FreshKept /\ UNCHANGED <<inStore, lease, sweep>>
<1>0. work \in [Workers -> WorkRecord] /\ Reconciler \in Workers /\ Handlers \subseteq Workers
  BY DEF IInv, TypeOK, Workers
<1> USE DEF memVars, sweepVars
<1>1. ASSUME NEW w \in Workers, NEW op, NEW l, NEW step, NEW b, Start(w, op, l, step, b),
             step \notin HoldSteps
      PROVE  FreshKept
  <2> USE <1>1
  <2>   work'[w].pc = step /\ \A v \in Workers \ {w} : work'[v] = work[v]
    BY <1>0 DEF Start
  <2>   ~Fresh(w)'
    BY DEF Fresh, Holds, HoldSteps
  <2> QED BY DEF FreshKept, Fresh, Holds
<1>2. ASSUME UNCHANGED work PROVE FreshKept
  BY <1>2 DEF FreshKept, Fresh, Holds
<1>a. {"pop", "admit", "dropFirst", "pause", "mark", "relDelete", "found", "recover"}
         \cap HoldSteps = {}
  BY DEF HoldSteps
<1>3. ASSUME NEW w \in Handlers, Request(w) PROVE FreshKept
  <2>   w \in Workers
    BY <1>0
  <2>1. Fill(w) => FreshKept
    BY ZenonT(60), <1>1, <1>a DEF Fill
  <2>   \A l \in Leases : Grant(w, l) \/ Restart(w, l) \/ Release(w, l) => FreshKept
    BY ZenonT(60), <1>1, <1>a DEF Grant, Restart, Release
  <2>   \A l \in Leases, op \in Ops : Lookup(w, l, op) \/ Seize(w, l, op) => FreshKept
    BY ZenonT(60), <1>1, <1>a DEF Lookup, Seize
  <2> QED BY <1>3, <2>1 DEF Request
<1>4. ASSUME Reconcile PROVE FreshKept
  <2>1. CASE ReconcileList \/ ReconcileTargets
    BY <1>0, <2>1 DEF ReconcileList, ReconcileTargets, Goto, FreshKept, Fresh, Holds, WorkRecord
  <2>2. CASE ReconcileEnd
    BY <1>0, <2>2 DEF ReconcileEnd, IdleWork, FreshKept, Fresh, Holds
  <2>   \A l \in Leases : ReconcileNext(l) => FreshKept
    BY ZenonT(60), <1>0, <1>1, <1>2, <1>a DEF ReconcileNext
  <2> QED BY <1>4, <2>1, <2>2, ZenonT(60) DEF Reconcile
<1>   UNCHANGED <<inStore, lease, sweep>>
  BY ZenonT(60) DEF Request, Fill, Grant, Restart, Release, Lookup, Seize, Reconcile,
     ReconcileList, ReconcileTargets, ReconcileNext, ReconcileEnd
<1> QED BY <1>3, <1>4, ZenonT(60)

\* The sweep's own steps: it takes an id up that is not in flight, and goes
\* on to delete it when nothing but lost leases claims it.
LEMMA SweepStepJudged == ASSUME SInv, Sweep PROVE SweepJudged'
<1>   sweep \in SweepRecord /\ UNCHANGED <<inStore, lease, work>>
  <2>   UNCHANGED <<inStore, lease, work>>
    BY ZenonT(60) DEF Sweep, SweepStart, SweepClaims, SweepKill, SweepList, SweepFlight,
       SweepClassify, SweepEnd, SweepPick, SweepUnchanged, memVars
  <2> QED BY DEF SInv, MInv, OInv, RInv, IInv, TypeOK
<1>1. CASE sweep'.pc \notin {"claims", "kill"}
  BY <1>1 DEF SweepJudged
<1>2. ASSUME NEW s \in Sandboxes, SweepPick(s) PROVE SweepJudged'
  <2>1. CASE SweepSkip(s)
    BY <1>1, <2>1 DEF SweepSkip, SweepRecord
  <2>2. CASE s \notin creating /\ sweep' = [sweep EXCEPT !.pc = "claims", !.id = s]
    <3> USE <2>2
    <3>   sweep'.pc = "claims" /\ sweep'.id = s
      BY DEF SweepRecord
    <3>   \A w \in Workers : Fresh(w)' => work'[w].id # s
      BY DEF SInv, MInv, MarkInv, Fresh, Holds
    <3> QED BY DEF SweepJudged
  <2> QED BY <1>2, <2>1, <2>2 DEF SweepPick
<1>3. CASE SweepClaims
  <2>1. CASE SweepSkip(sweep.id)
    BY <1>1, <2>1 DEF SweepSkip, SweepRecord
  <2>2. CASE LostOnly(sweep.id) /\ sweep' = [sweep EXCEPT !.pc = "kill"]
    <3> USE <2>2
    <3>1. sweep'.pc = "kill" /\ sweep'.id = sweep.id
      BY DEF SweepRecord
    <3>   \A w \in Workers : Fresh(w)' => work'[w].id # sweep.id
      BY <1>3 DEF SweepClaims, SInv, SweepJudged, Fresh, Holds
    <3>   \A l \in Owners(sweep.id)' : lease'[l].state = "lost"
      BY DEF LostOnly, Owners
    <3> QED BY <3>1 DEF SweepJudged
  <2> QED BY ZenonT(60), <1>3, <2>1, <2>2 DEF SweepClaims
<1>4. CASE SweepStart
  BY <1>1, <1>4 DEF SweepStart, IdleSweep
<1>5. CASE SweepKill
  BY <1>1, <1>5 DEF SweepKill, SweepRecord
<1>6. CASE SweepList
  <2>1. CASE sweep' = IdleSweep
    BY <1>1, <2>1 DEF IdleSweep
  <2>2. CASE sweep' = [sweep EXCEPT !.pc = "flight", !.phase = "sweep",
                                    !.listed = present_ids, !.again = present_ids \cap seen]
    BY <1>1, <2>2 DEF SweepRecord
  <2> QED BY <1>6, <2>1, <2>2 DEF SweepList
<1>7. CASE SweepFlight
  BY <1>1, <1>7 DEF SweepFlight, SweepRecord
<1>8. CASE SweepClassify
  <2>   \E t : sweep' = [IdleSweep EXCEPT !.pc = "pick", !.phase = "sweep", !.todo = t]
    BY ZenonT(60), <1>8 DEF SweepClassify
  <2> QED BY <1>1 DEF IdleSweep
<1>9. CASE SweepEnd
  BY <1>1, <1>9 DEF SweepEnd, IdleSweep
<1> QED BY ZenonT(60), <1>2, <1>3, <1>4, <1>5, <1>6, <1>7, <1>8, <1>9 DEF Sweep

\* The sweep has judged nothing initially ...
LEMMA SInitInv == ASSUME Init PROVE SInv
<1>1. MInv /\ AInv
  BY MInitInv, AInitInv, ZenonT(60)
<1>   OpInv /\ SweepJudged
  BY DEF Init, OpInv, RunOps, IdleWork, SweepJudged, IdleSweep
<1>   SweepDrawn
  BY DEF Init, SweepDrawn, present_ids, IdleSweep
<1> QED BY <1>1 DEF SInv, AInv

\* ... and no step makes it wrong.
LEMMA SNextInv ==
    ASSUME "fill" \notin Ops, "suspend" \notin Ops, SInv, [Next]_vars PROVE SInv'
<1>0. AInv /\ OInv /\ IInv
  BY DEF SInv, MInv, AInv, OInv, RInv
<1>1. MInv' /\ AliveInv' /\ OpInv'
  <2>   MInv'
    BY MNextInv DEF SInv
  <2>   AInv' /\ OpInv'
    BY <1>0, ANextInv, OpsRun DEF SInv
  <2> QED BY DEF AInv
<1>2. SweepDrawn'
  BY <1>0, WorkDrawn, OtherDrawn DEF Next, SInv
<1>3. ASSUME (\E w \in Handlers : Request(w)) \/ Reconcile PROVE SweepJudged'
  BY <1>0, <1>3, OthersFresh, JudgedKept, ZenonT(60) DEF SInv
<1>4. ASSUME BackendRestart PROVE SweepJudged'
  BY <1>4 DEF BackendRestart, SweepJudged, IdleSweep
<1>5. ASSUME \/ \E l \in Leases : GuestRuns(l)
             \/ \E s \in Sandboxes : VmCrash(s)
             \/ UNCHANGED vars
      PROVE  SweepJudged'
  <2>   UNCHANGED <<inStore, lease, sweep, work>>
    BY ZenonT(60), <1>5 DEF GuestRuns, VmCrash, vars, memVars, sweepVars
  <2>   FreshKept
    BY DEF FreshKept, Fresh, Holds
  <2> QED BY JudgedKept DEF SInv
<1>   SweepJudged'
  BY <1>3, <1>4, <1>5, WorkJudged, SweepStepJudged, ZenonT(60) DEF Next
<1> QED BY <1>1, <1>2 DEF SInv

\* What the judgement means at the moment of the delete.
LEMMA JudgedSpares == ASSUME SInv PROVE SweepSpares
<1>0. OInv /\ AliveInv
  BY DEF SInv, MInv
<1>1. ASSUME sweep.pc = "kill", NEW w \in Workers, Holds(w), work[w].id = sweep.id,
             work[w].lease \notin released
      PROVE  FALSE
  <2> USE <1>1
  <2>   ResumesInPlace(work[w].op)
    BY DEF SInv, SweepJudged, Fresh
  <2>   work[w].lease \in inStore /\ work[w].id = lease[work[w].lease].sandbox
        /\ work[w].op \in BusyOps /\ work[w].pc # "validate"
    BY ZenonT(60), <1>0
    DEF OInv, OwnInv, HeldOnce, RInv, IInv, WorkInv, WorkOK, ResumesInPlace, BusyOps
  <2>   lease[work[w].lease].state = "lost"
    BY DEF SInv, SweepJudged, Owners
  <2> QED BY <1>0
      DEF AliveInv, AliveOK, ResumesInPlace, Holds, AliveSteps, CreatePath, CreateSteps
<1>   sweep.pc = "kill" => sweep.id \notin pool /\ \A l \in Owners(sweep.id) : lease[l].state = "lost"
  BY DEF SInv, MInv, NoPool, SweepJudged
<1> QED BY <1>1 DEF SweepSpares

\* SweepSpares, where no pool is filled and nothing suspends: at the moment
\* the sweep deletes a sandbox, however long ago it read the in-flight set
\* and the claims, no operation of an unreleased lease holds it and only
\* lost leases own it.  With a pool fill it is false of the code
\* (PoolMarkLost); a suspend that looked its lease up before the lease was
\* lost can take it out of "lost" under the sweep's eyes.
THEOREM SweepSparesTheLiving ==
    ASSUME "fill" \notin Ops, "suspend" \notin Ops PROVE Spec => []SweepSpares
BY SInitInv, SNextInv, JudgedSpares, PTL DEF Spec

-----------------------------------------------------------------------------
(* The startup stage. *)

\* Until the backend serves, the goroutine that takes a step is the
\* reconcile's, and once its pass is over none does.
LEMMA StepsAtStartup ==
    ASSUME OInv, StartInv, NEW w \in Workers, WorkStep(w)
    PROVE  /\ work[w].pc # "idle"
           /\ startup # "no" => w = Reconciler /\ startup = "reconcile"
           /\ UNCHANGED startup
           /\ w = Reconciler => ~Pop(w)
<1>   work[w].pc # "idle" /\ UNCHANGED startup
  BY ZenonT(60) DEF WorkStep, Begin, EndBusy, Pause, Paused, Admit, Create, Check, Probe, DropOld,
     DropFirst, Commit, EndCreate, Pop, Validate, Checkpoint, CheckpointResume,
     CheckpointRecord, Mark, Crash, Recover, RetryFailed, Lose, StopLost, ReleaseDelete,
     ReleaseDrop, bootVars
<1>   startup \in {"reconcile", "sweep", "no"} /\ (Pop(w) => work[w].op = "grant")
  BY ZenonT(60) DEF OInv, RInv, IInv, TypeOK, WorkInv, WorkOK, Pop
<1> QED BY ZenonT(60) DEF StartInv, Workers

\* A step of an operation.
LEMMA WorkStarts == ASSUME OInv, StartInv, NEW w \in Workers, WorkStep(w) PROVE StartInv'
<1>   /\ NodeStep(w) /\ IInv /\ Reconciler \in Workers
      /\ \A v \in Workers \ {w} : work'[v] = work[v]
      /\ work'[w].op \in {work[w].op, "none", "recover"}
  BY WorkNode, WorkAlone, OpMoves, ZenonT(60) DEF OInv, RInv, Workers
<1>1. /\ startup # "no" => w = Reconciler /\ startup = "reconcile"
      /\ startup' = startup
      /\ w = Reconciler => MarkStep(w)
  BY StepsAtStartup, StepMarks, ZenonT(60)
<1>2. work'[Reconciler].op \in {"none", "recover"}
  BY ZenonT(60) DEF StartInv
<1>3. startup # "no" => \A v \in Handlers : work'[v].pc = "idle"
  BY <1>1, SentinelAssumption, ZenonT(60) DEF StartInv, Workers
<1>4. ASSUME startup # "no", NEW s \in creating'
      PROVE  Marking(Reconciler)' /\ work'[Reconciler].id = s
  <2> USE <1>4
  <2>   MarkStep(Reconciler)
    BY <1>1
  <2>2. CASE s \in creating
    BY <2>2, ZenonT(60) DEF MarkStep, StartInv
  <2>3. CASE s \notin creating
    BY <2>3 DEF MarkStep
  <2> QED BY <2>2, <2>3
<1>   /\ sweep'.pc = sweep.pc /\ sweep'.phase = sweep.phase /\ sweep'.flight = sweep.flight
  BY DEF NodeStep
<1> QED BY <1>1, <1>2, <1>3, <1>4, ZenonT(60) DEF StartInv

\* The requests wait for the backend to serve; the reconcile's own steps and
\* the sweep's follow each other.
LEMMA OtherStarts ==
    ASSUME "sweep" \notin Ops, OInv, StartInv,
           \/ \E w \in Handlers : Request(w)
           \/ Reconcile \/ Sweep \/ BackendRestart
           \/ \E l \in Leases : GuestRuns(l)
           \/ \E s \in Sandboxes : VmCrash(s)
           \/ UNCHANGED vars
    PROVE  StartInv'
<1>0. /\ work \in [Workers -> WorkRecord] /\ sweep \in SweepRecord /\ OpAt(Reconciler)
      /\ Reconciler \in Workers /\ Handlers \subseteq Workers /\ Reconciler \notin Handlers
  BY SentinelAssumption, ZenonT(60) DEF OInv, RInv, IInv, TypeOK, PhaseInv, Workers
<1> USE DEF sweepVars, bootVars
<1>1. ASSUME NEW w \in Handlers, Request(w) PROVE StartInv'
  <2> USE <1>1
  <2>1. startup = "no" /\ startup' = startup /\ sweep' = sweep
    BY ZenonT(60) DEF Request, Fill, Grant, Restart, Release, Lookup, Seize, Idle
  <2>   work'[Reconciler] = work[Reconciler]
    <3>   \A op, l, step, b : Start(w, op, l, step, b) => work'[Reconciler] = work[Reconciler]
      BY <1>0, ZenonT(60) DEF Start
    <3> QED BY ZenonT(60) DEF Request, Fill, Grant, Restart, Release, Lookup, Seize
  <2> QED BY <2>1, ZenonT(60) DEF StartInv
<1>2. ASSUME Reconcile PROVE StartInv'
  <2>   /\ sweep' = sweep /\ creating' = creating
        /\ work[Reconciler].pc \in {"idle", "listed", "next"} /\ work[Reconciler].op = "none"
    BY ZenonT(60), <1>0, <1>2
    DEF Reconcile, ReconcileList, ReconcileTargets, ReconcileNext, ReconcileEnd, OpAt
  <2>2. startup # "no" => creating = {}
    BY ZenonT(60) DEF StartInv, Marking, Holds
  <2>   /\ \A v \in Handlers : work'[v] = work[v]
        /\ work'[Reconciler].op \in {"none", "recover"}
        /\ startup = "no" <=> startup' = "no"
        /\ startup' = "sweep" => work'[Reconciler].pc = "idle" /\ sweep.pc = "idle"
        /\ sweep.pc # "idle" => startup' = "sweep"
    <3>1. CASE ReconcileList
      BY <1>0, <3>1 DEF ReconcileList, Goto, StartInv, WorkRecord
    <3>2. CASE ReconcileTargets
      BY <1>0, <3>2 DEF ReconcileTargets, Goto, StartInv, WorkRecord
    <3>3. CASE ReconcileEnd
      BY <1>0, <3>3, ZenonT(60) DEF ReconcileEnd, IdleWork, StartInv
    <3>4. ASSUME NEW l \in Leases, ReconcileNext(l)
          PROVE  /\ \A v \in Handlers : work'[v] = work[v]
                 /\ work'[Reconciler].op \in {"none", "recover"}
                 /\ startup' = startup /\ startup # "sweep"
      <4> USE <3>4
      <4>   startup # "sweep"
        BY <1>0, NextTarget DEF StartInv
      <4> QED BY <1>0, NextTarget, ZenonT(60)
    <3> QED BY <1>2, <3>1, <3>2, <3>3, <3>4, ZenonT(60) DEF Reconcile, StartInv
  <2> QED BY <2>2 DEF StartInv
<1>3. ASSUME Sweep PROVE StartInv'
  <2>0. work' = work /\ creating' = creating
    BY ZenonT(60), <1>3 DEF Sweep, SweepStart, SweepClaims, SweepKill, SweepList, SweepFlight,
       SweepClassify, SweepEnd, SweepPick, SweepUnchanged
  <2>1. startup = "sweep"
    BY ZenonT(60), <1>3 DEF Sweep, SweepStart, SweepClaims, SweepKill, SweepList, SweepFlight,
       SweepClassify, SweepEnd, SweepPick, StartInv
  <2>2. creating = {}
    BY <2>1 DEF StartInv, Marking, Holds
  <2>3. Marking(Reconciler)' <=> Marking(Reconciler)
    BY <2>0 DEF Marking, Holds
  <2>4. ASSUME startup' = "no" \/ startup' = "sweep", sweep'.pc # "idle" => startup' = "sweep",
               sweep'.pc \in {"flight", "classify"} => sweep'.phase = "sweep",
               sweep'.pc = "classify" => sweep'.flight = {}
        PROVE  StartInv'
    BY <2>0, <2>1, <2>2, <2>3, <2>4, ZenonT(60) DEF StartInv
  <2>5. CASE sweep' = IdleSweep /\ startup' = "no"
    BY <2>4, <2>5, ZenonT(60) DEF IdleSweep
  <2>6. CASE startup' = startup /\ sweep'.pc \notin {"flight", "classify"}
    BY <2>1, <2>4, <2>6, ZenonT(60)
  <2>7. CASE SweepFlight
    <3> USE <2>7
    <3>   sweep'.pc = "classify" /\ sweep'.phase = sweep.phase /\ sweep'.flight = {} /\ startup' = startup
      BY <1>0, <2>2, ZenonT(60) DEF SweepFlight, SweepRecord
    <3> QED BY <2>1, <2>4, ZenonT(60) DEF SweepFlight, StartInv
  <2>8. CASE SweepList /\ sweep'.pc = "flight"
    <3> USE <2>8
    <3>   sweep'.phase = "sweep" /\ startup' = startup
      <4>   sweep' # IdleSweep
        BY DEF IdleSweep
      <4> QED BY <1>0, ZenonT(60) DEF SweepList, SweepRecord
    <3> QED BY <2>1, <2>4, ZenonT(60)
  <2>9. CASE SweepList
    <3> USE <2>9
    <3>   sweep'.pc = "flight" \/ (sweep' = IdleSweep /\ startup' = "no")
      BY <1>0, ZenonT(60) DEF SweepList, SweepRecord
    <3> QED BY <2>5, <2>8
  <2>10. CASE SweepStart
    BY <2>6, <2>10 DEF SweepStart, IdleSweep
  <2>11. ASSUME NEW s, SweepSkip(s) PROVE sweep'.pc = "pick"
    BY <1>0, <2>11 DEF SweepSkip, SweepRecord
  <2>12. CASE SweepClaims
    <3>   sweep'.pc \in {"pick", "kill"} /\ startup' = startup
      BY <1>0, <2>11, <2>12 DEF SweepClaims, SweepRecord
    <3> QED BY <2>6
  <2>13. ASSUME NEW s \in Sandboxes, SweepPick(s) PROVE StartInv'
    <3>   sweep'.pc \in {"pick", "claims"} /\ startup' = startup
      BY <1>0, <2>11, <2>13, ZenonT(60) DEF SweepPick, SweepRecord
    <3> QED BY <2>6
  <2>14. CASE SweepKill
    BY <1>0, <2>6, <2>14 DEF SweepKill, SweepRecord
  <2>15. CASE SweepClassify
    <3> USE <2>15
    <3>   \E t : sweep' = [IdleSweep EXCEPT !.pc = "pick", !.phase = "sweep", !.todo = t]
      BY ZenonT(60) DEF SweepClassify
    <3>   sweep'.pc = "pick" /\ startup' = startup
      BY DEF SweepClassify, IdleSweep
    <3> QED BY <2>6
  <2>16. CASE SweepEnd
    BY <2>5, <2>16 DEF SweepEnd
  <2> QED BY ZenonT(60), <1>3, <2>7, <2>9, <2>10, <2>12, <2>13, <2>14, <2>15, <2>16 DEF Sweep
<1>4. ASSUME BackendRestart PROVE StartInv'
  <2>   /\ work' = [v \in Workers |-> IdleWork] /\ creating' = {} /\ sweep' = IdleSweep
        /\ startup' = "reconcile"
    BY <1>0, <1>4 DEF BackendRestart
  <2> QED BY <1>0, ZenonT(60) DEF StartInv, IdleWork, IdleSweep
<1>5. ASSUME \/ \E l \in Leases : GuestRuns(l)
             \/ \E s \in Sandboxes : VmCrash(s)
             \/ UNCHANGED vars
      PROVE  StartInv'
  <2>   UNCHANGED <<work, creating, sweep, startup>>
    BY ZenonT(60), <1>5 DEF GuestRuns, VmCrash, vars
  <2> QED BY ZenonT(60) DEF StartInv, Marking, Holds
<1> QED BY <1>1, <1>2, <1>3, <1>4, <1>5, ZenonT(60)

-----------------------------------------------------------------------------
(* The guests of lost leases. *)

\* A lost lease was lost before the step, with the sandbox it still names,
\* or the step is the one that loses it and its sandbox is stopped next.
LEMMA LostBefore ==
    ASSUME OInv, AInv, NEW w \in Workers, WorkStep(w), NEW k \in inStore', lease'[k].state = "lost"
    PROVE  /\ k \in inStore /\ lease'[k].sandbox = lease[k].sandbox
           /\ \/ lease[k].state = "lost"
              \/ /\ k = work[w].lease /\ HoldsBusy(w)
                 /\ work'[w].pc = "stopLost" /\ work'[w].lease = k
<1>   /\ OInv /\ IInv /\ TypeOK /\ lease \in [Leases -> LeaseRecord] /\ inStore \subseteq Leases
      /\ inStore' \subseteq Leases /\ work \in [Workers -> WorkRecord] /\ WorkOK(w) /\ GrantFresh
  BY TypeWork, ZenonT(60) DEF AInv, OInv, RInv, IInv, TypeOK, WorkInv
<1>1. ASSUME Commit(w), lease'[k] # lease[k] PROVE FALSE
  <2> USE <1>1
  <2>   lease' = [lease EXCEPT ![work[w].lease] = Committed(w)] /\ work[w].op # "fill"
    BY ZenonT(60) DEF Commit, Save
  <2>   work[w].lease \in Leases /\ work[w].id \in Sandboxes
    BY ZenonT(60), CommittedSandbox DEF Commit, WorkOK, Holds
  <2>   Committed(w).state \in {"running", "recovered"}
    BY CommittedHeld, ZenonT(60)
  <2>   lease'[k].state \in {"running", "recovered"}
    BY ZenonT(60)
  <2> QED OBVIOUS
<1>2. ASSUME lease'[k] = lease[k] PROVE k \in inStore /\ lease'[k].sandbox = lease[k].sandbox
  <2> USE <1>2
  <2>1. CASE Fresh(w) /\ lease'[k].sandbox = work[w].id
    BY <2>1, ZenonT(60) DEF OInv, OwnInv, HeldOnce
  <2> QED BY <2>1, NewName, ZenonT(60)
<1>3. ASSUME ~Commit(w) PROVE k \in inStore /\ lease'[k].sandbox = lease[k].sandbox
  <2>   work[w].pc # "commit"
    BY ZenonT(60), <1>3 DEF WorkStep, Begin, EndBusy, Pause, Paused, Admit, Create, Check, Probe,
       DropOld, DropFirst, EndCreate, Pop, Validate, Checkpoint, CheckpointResume,
       CheckpointRecord, Mark, Crash, Recover, RetryFailed, Lose, StopLost, ReleaseDelete,
       ReleaseDrop
  <2> QED BY NewName, ZenonT(60)
<1>4. ASSUME lease[k].state # "lost"
      PROVE  /\ k = work[w].lease /\ HoldsBusy(w)
             /\ work'[w].pc = "stopLost" /\ work'[w].lease = k
  <2> USE <1>4
  <2>1. CASE Lose(w)
    <3> USE <2>1
    <3>1. work'[w].pc = "stopLost" /\ work'[w].lease = work[w].lease
      BY DEF Lose, Goto, WorkRecord
    <3>   k = work[w].lease
      BY DEF Lose, Save
    <3>   HoldsBusy(w)
      BY DEF Lose, WorkOK, HoldsBusy, BusySteps
    <3> QED BY <3>1
  <2>2. CASE CheckpointRecord(w) \/ Mark(w) \/ Paused(w)
    <3>1. CASE CheckpointRecord(w)
      BY <3>1 DEF CheckpointRecord, Save, LeaseRecord
    <3>2. CASE Mark(w)
      BY <3>2, ZenonT(60) DEF Mark, Save, LeaseRecord
    <3>3. CASE Paused(w)
      BY <3>3, ZenonT(60) DEF Paused, Save, LeaseRecord
    <3> QED BY <2>2, <3>1, <3>2, <3>3, ZenonT(60)
  <2>3. CASE Commit(w)
    BY <1>1, <2>3, ZenonT(60)
  <2>4. CASE UNCHANGED lease
    BY <2>4, ZenonT(60)
  <2> QED BY ZenonT(60), <2>1, <2>2, <2>3, <2>4
      DEF WorkStep, Begin, EndBusy, Pause, Admit, Create, Check, Probe, DropOld, DropFirst,
          EndCreate, Pop, Validate, Checkpoint, CheckpointResume, Crash, Recover, RetryFailed,
          StopLost, ReleaseDelete, ReleaseDrop, memVars
<1> QED BY <1>1, <1>2, <1>3, <1>4, ZenonT(60)

\* No step boots a lost lease's sandbox but a checkpoint's resume.
LEMMA LostBoots ==
    ASSUME OInv, AInv, NEW w \in Workers, WorkStep(w), NEW k \in inStore, lease[k].state = "lost",
           vm[lease[k].sandbox] = NoVM, vm'[lease[k].sandbox] # NoVM
    PROVE  work[w].pc = "ckptResume" /\ work[w].lease = k
<1>   /\ OInv /\ k \in Leases /\ lease[k].sandbox \in Sandboxes /\ NodeStep(w)
  BY WorkNode, ZenonT(60) DEF AInv, OInv, RInv, IInv, TypeOK, StoreNamed
<1>1. CASE work[w].pc = "create" /\ lease[k].sandbox = work[w].id
  <2> USE <1>1
  <2>1. Holds(w) /\ ~Fresh(w)
    BY ZenonT(60) DEF OInv, OwnInv, HeldOnce, Holds
  <2>   ResumesInPlace(work[w].op) /\ work[w].id = lease[work[w].lease].sandbox
    BY <2>1, ZenonT(60) DEF Fresh, OInv, OwnInv, HeldOnce
  <2>   work[w].lease \in Leases
    BY ZenonT(60) DEF AInv, OInv, RInv, IInv, WorkInv, WorkOK, ResumesInPlace, BusyOps
  <2>   work[w].lease = k
    BY ZenonT(60) DEF OInv, OwnInv, NamedOnce
  <2> QED BY ZenonT(60) DEF AInv, AliveInv, AliveOK, AliveSteps, CreatePath, CreateSteps,
         ResumesInPlace, BusyOps
<1>2. CASE work[w].pc = "ckptResume" /\ lease[k].sandbox = lease[work[w].lease].sandbox
  <2> USE <1>2
  <2>   work[w].lease \in Leases
    BY ZenonT(60) DEF AInv, OInv, RInv, IInv, WorkInv, WorkOK, BusySteps
  <2> QED BY ZenonT(60) DEF OInv, OwnInv, NamedOnce
<1> QED BY <1>1, <1>2 DEF NodeStep

\* A step of an operation.
LEMMA WorkLost ==
    ASSUME LInv, NEW w \in Workers, WorkStep(w) PROVE LostHeld' /\ CheckpointsLost'
<1>   /\ AInv /\ OInv /\ IInv /\ StartInv /\ NodeStep(w) /\ WorkOK(w) /\ OpAt(w)
      /\ work \in [Workers -> WorkRecord] /\ lease \in [Leases -> LeaseRecord] /\ inStore \subseteq Leases
      /\ startup' = startup /\ (startup # "no" => startup = "reconcile")
      /\ \A v \in Workers \ {w} : work'[v] = work[v]
      /\ vm \in [Sandboxes -> VMs] /\ StoreNamed
  BY WorkNode, WorkAlone, StepsAtStartup, ZenonT(60)
  DEF LInv, AInv, OInv, RInv, IInv, TypeOK, WorkInv, PhaseInv, VMs
<1>1. orphans \subseteq orphans' /\ sweep.pc = "idle" /\ sweep'.pc = "idle"
  BY ZenonT(60) DEF NodeStep, StartInv
<1>2. ASSUME NEW k \in inStore', lease'[k].state = "lost", vm'[lease'[k].sandbox] # NoVM, startup = "no"
      PROVE  \/ lease'[k].sandbox \in orphans'
             \/ \E v \in Workers : work'[v].pc = "stopLost" /\ work'[v].lease = k
  <2> USE <1>2
  <2>   k \in inStore /\ lease'[k].sandbox = lease[k].sandbox
    BY LostBefore
  <2>2. CASE lease[k].state # "lost"
    BY <2>2, LostBefore, ZenonT(60)
  <2>3. CASE lease[k].state = "lost" /\ vm[lease[k].sandbox] = NoVM
    <3> USE <2>3
    <3>   work[w].pc = "ckptResume" /\ work[w].lease = k
      BY LostBoots, ZenonT(60)
    <3> QED BY <1>1 DEF LInv, CheckpointsLost
  <2>4. CASE lease[k].state = "lost" /\ vm[lease[k].sandbox] # NoVM
    <3>1. \/ lease[k].sandbox \in orphans
          \/ \E v \in Workers : work[v].pc = "stopLost" /\ work[v].lease = k
      BY <2>4, ZenonT(60) DEF LInv, LostHeld
    <3>2. CASE work[w].pc = "stopLost" /\ work[w].lease = k
      <4>   Delete(lease[k].sandbox, {lease[k].sandbox})
        BY ZenonT(60), <3>2 DEF WorkStep, Begin, EndBusy, Pause, Paused, Admit, Create, Check,
           Probe, DropOld, DropFirst, Commit, EndCreate, Pop, Validate, Checkpoint,
           CheckpointResume, CheckpointRecord, Mark, Crash, Recover, RetryFailed, Lose, StopLost,
           ReleaseDelete, ReleaseDrop
      <4> QED BY ZenonT(60) DEF Delete, StoreNamed
    <3>3. CASE \E v \in Workers \ {w} : work[v].pc = "stopLost" /\ work[v].lease = k
      BY <3>3, ZenonT(60)
    <3> QED BY <1>1, <3>1, <3>2, <3>3, ZenonT(60)
  <2> QED BY <2>2, <2>3, <2>4, ZenonT(60)
<1>3. LostHeld'
  BY <1>1, <1>2, ZenonT(60) DEF LostHeld
<1>4. ASSUME NEW v \in Workers, work'[v].pc = "ckptResume", work'[v].lease \in inStore',
             lease'[work'[v].lease].state = "lost"
      PROVE  lease'[work'[v].lease].sandbox \in orphans'
  <2> DEFINE k == work'[v].lease
  <2>1. k \in inStore /\ lease'[k].sandbox = lease[k].sandbox
    BY <1>4, LostBefore, ZenonT(60)
  <2>2. CASE v # w
    <3> USE <2>2
    <3>   work[v] = work'[v] /\ HoldsBusy(v)
      BY ZenonT(60), <1>4 DEF IInv, WorkInv, WorkOK, HoldsBusy, BusySteps
    <3>   lease[k].state = "lost"
      <4>   ~(k = work[w].lease /\ HoldsBusy(w))
        BY ZenonT(60) DEF IInv, BusyExclusive
      <4> QED BY <1>4, LostBefore, ZenonT(60)
    <3> QED BY <1>1, <1>4, <2>1, ZenonT(60) DEF LInv, CheckpointsLost
  <2>3. CASE v = w
    <3>1. lease[k].state = "lost"
      BY <1>4, <2>3, LostBefore
    <3>2. Checkpoint(w) /\ ~Leave(w)
      BY <1>4, <2>3, ToStopped, ZenonT(60)
    <3>   lease[k].sandbox \in orphans
      <4>   /\ work[w].pc = "ckpt" /\ vm[lease[work[w].lease].sandbox] \in Moments
            /\ \E b : work' = [work EXCEPT ![w] = [@ EXCEPT !.pc = "ckptResume", !.build = b]]
        BY ZenonT(60), <3>2 DEF Checkpoint
      <4>   work[w].lease = k /\ work[w].op = "checkpoint"
        BY <2>3, ZenonT(60) DEF OpAt, WorkRecord
      <4>3. vm[lease[k].sandbox] # NoVM
        BY BoundAssumption DEF Moments, NoVM
      <4>4. startup = "no"
        BY DEF StartInv, Workers
      <4>   ~\E u \in Workers : work[u].pc = "stopLost" /\ work[u].lease = k
        <5>1. HoldsBusy(w)
          BY DEF HoldsBusy, BusyOps, BusySteps
        <5>2. ASSUME NEW u \in Workers, work[u].pc = "stopLost", work[u].lease = k PROVE FALSE
          <6> USE <5>2
          <6>   HoldsBusy(u)
            BY ZenonT(60) DEF IInv, WorkInv, WorkOK, HoldsBusy, BusySteps
          <6> QED BY <5>1, ZenonT(60) DEF IInv, BusyExclusive
        <5> QED BY <5>2
      <4> QED BY <2>1, <3>1, <4>3, <4>4, ZenonT(60) DEF LInv, LostHeld
    <3> QED BY <1>1, <2>1, ZenonT(60)
  <2> QED BY <2>2, <2>3, ZenonT(60)
<1> QED BY <1>3, <1>4 DEF CheckpointsLost

\* A step that starts no guest and leaves the leases, the sweep and what is
\* remembered alone, and puts no worker where it may leave a guest behind.
LEMMA LostKept ==
    ASSUME LInv, UNCHANGED <<inStore, lease, orphans, sweep>>,
           startup' = "no" => startup = "no",
           \A l \in inStore : lease[l].state = "lost" /\ vm'[lease[l].sandbox] # NoVM =>
                                  vm[lease[l].sandbox] # NoVM,
           \A v \in Workers : work[v].pc = "stopLost" => work'[v] = work[v],
           \A v \in Workers : work'[v].pc = "ckptResume" => work'[v] = work[v]
    PROVE  LostHeld' /\ CheckpointsLost'
<1>1. LostHeld'
  <2> SUFFICES ASSUME NEW l \in inStore, lease[l].state = "lost", vm'[lease[l].sandbox] # NoVM
               PROVE  /\ startup' = "no" => \/ lease[l].sandbox \in orphans
                                            \/ \E w \in Workers : work'[w].pc = "stopLost" /\ work'[w].lease = l
                      /\ sweep.pc \in {"flight", "classify"} => lease[l].sandbox \in sweep.listed
                      /\ sweep.pc \in {"pick", "claims", "kill"} /\ sweep.phase = "sweep" =>
                            lease[l].sandbox \in orphans \cup sweep.todo
    BY ZenonT(60) DEF LostHeld
  <2>1. vm[lease[l].sandbox] # NoVM
    OBVIOUS
  <2> QED BY <2>1, ZenonT(60) DEF LInv, LostHeld
<1>2. CheckpointsLost'
  BY DEF LInv, CheckpointsLost
<1> QED BY <1>1, <1>2, ZenonT(60)

\* The requests, the reconcile's own steps, the environment and a restart.
LEMMA OtherLost ==
    ASSUME LInv,
           \/ \E w \in Handlers : Request(w)
           \/ Reconcile \/ BackendRestart
           \/ \E l \in Leases : GuestRuns(l)
           \/ \E s \in Sandboxes : VmCrash(s)
           \/ UNCHANGED vars
    PROVE  LostHeld' /\ CheckpointsLost'
<1>   /\ IInv /\ OInv /\ work \in [Workers -> WorkRecord] /\ Reconciler \in Workers
      /\ Handlers \subseteq Workers /\ vm \in [Sandboxes -> VMs] /\ inStore \subseteq Leases /\ StoreNamed
  BY DEF LInv, AInv, OInv, RInv, IInv, TypeOK, Workers, VMs
<1> USE DEF memVars, sweepVars, bootVars, recVars
<1>1. ASSUME NEW w \in Handlers, Request(w) PROVE LostHeld' /\ CheckpointsLost'
  <2> USE <1>1
  <2>1. /\ UNCHANGED <<inStore, lease, orphans, sweep, startup, vm>> /\ Idle(w)
    BY ZenonT(60) DEF Request, Fill, Grant, Restart, Release, Lookup, Seize
  <2>   \E op, l, step, b : Start(w, op, l, step, b)
           /\ step \in {"pop", "admit", "dropFirst", "pause", "mark", "relDelete", "found", "ckpt", "crash"}
    BY ZenonT(60) DEF Request, Fill, Grant, Restart, Release, Lookup, Seize
  <2>   /\ work'[w].pc \notin {"ckptResume"} /\ \A v \in Workers \ {w} : work'[v] = work[v]
    BY DEF Start
  <2> QED BY <2>1, LostKept, ZenonT(60) DEF Idle
<1>2. ASSUME Reconcile PROVE LostHeld' /\ CheckpointsLost'
  <2>   /\ UNCHANGED <<inStore, lease, orphans, sweep, vm>> /\ (startup' = "no" => startup = "no")
        /\ work[Reconciler].pc \in {"idle", "listed", "next"}
    BY ZenonT(60), <1>2 DEF Reconcile, ReconcileList, ReconcileTargets, ReconcileNext, ReconcileEnd
  <2>   /\ work'[Reconciler].pc # "ckptResume" /\ \A v \in Workers \ {Reconciler} : work'[v] = work[v]
    <3>1. CASE ReconcileList
      BY <3>1 DEF ReconcileList, Goto, WorkRecord
    <3>2. CASE ReconcileTargets
      BY <3>2, ZenonT(60) DEF ReconcileTargets, Goto, WorkRecord
    <3>3. CASE ReconcileEnd
      BY <3>3, ZenonT(60) DEF ReconcileEnd, IdleWork
    <3>4. ASSUME NEW l \in Leases, ReconcileNext(l)
          PROVE  /\ work'[Reconciler].pc # "ckptResume"
                 /\ \A v \in Workers \ {Reconciler} : work'[v] = work[v]
      BY <3>4, NextTarget, ZenonT(60)
    <3> QED BY <1>2, <3>1, <3>2, <3>3, <3>4, ZenonT(60) DEF Reconcile
  <2> QED BY LostKept, ZenonT(60)
<1>3. ASSUME BackendRestart PROVE LostHeld' /\ CheckpointsLost'
  <2>   startup' = "reconcile" /\ sweep' = IdleSweep /\ work' = [v \in Workers |-> IdleWork]
    BY <1>3, ZenonT(60) DEF BackendRestart
  <2> QED BY ZenonT(60) DEF LostHeld, CheckpointsLost, IdleSweep, IdleWork
<1>4. ASSUME NEW l \in Leases, GuestRuns(l) PROVE LostHeld' /\ CheckpointsLost'
  <2> USE <1>4
  <2>1. UNCHANGED <<inStore, lease, orphans, sweep, startup, work>>
    BY ZenonT(60) DEF GuestRuns
  <2>   vm[lease[l].sandbox] # NoVM /\ \A s \in Sandboxes : s # lease[l].sandbox => vm'[s] = vm[s]
    BY GuestMoves, ZenonT(60)
  <2>   \A k \in inStore : vm'[lease[k].sandbox] # NoVM => vm[lease[k].sandbox] # NoVM
    BY ZenonT(60) DEF StoreNamed
  <2> QED BY <2>1, LostKept, ZenonT(60)
<1>5. ASSUME NEW s \in Sandboxes, VmCrash(s) PROVE LostHeld' /\ CheckpointsLost'
  <2> USE <1>5
  <2>1. UNCHANGED <<inStore, lease, orphans, sweep, startup, work>>
    BY ZenonT(60) DEF VmCrash
  <2>   \A t \in Sandboxes : vm'[t] # NoVM => vm[t] # NoVM
    BY ZenonT(60) DEF VmCrash
  <2>   \A k \in inStore : vm'[lease[k].sandbox] # NoVM => vm[lease[k].sandbox] # NoVM
    BY ZenonT(60) DEF StoreNamed
  <2> QED BY <2>1, LostKept, ZenonT(60)
<1>6. ASSUME UNCHANGED vars PROVE LostHeld' /\ CheckpointsLost'
  <2>   UNCHANGED <<inStore, lease, orphans, sweep, startup, work, vm>>
    BY <1>6 DEF vars
  <2> QED BY LostKept, ZenonT(60)
<1> QED BY <1>1, <1>2, <1>3, <1>4, <1>5, <1>6, ZenonT(60)

\* The startup sweep reaches every guest left running under a lost lease:
\* no operation runs beside it, so none of its looks passes one over.
LEMMA SweepLost ==
    ASSUME "sweep" \notin Ops, "list" \notin Faults, LInv, Sweep
    PROVE  LostHeld' /\ CheckpointsLost'
<1>0. /\ IInv /\ OInv /\ vm \in [Sandboxes -> VMs] /\ inStore \subseteq Leases /\ StoreNamed
      /\ sweep \in SweepRecord /\ NamedOnce /\ lease \in [Leases -> LeaseRecord]
  BY DEF LInv, AInv, OInv, OwnInv, RInv, IInv, TypeOK, VMs
<1>1. UNCHANGED <<inStore, lease, work, busy>>
  BY ZenonT(60) DEF Sweep, SweepStart, SweepClaims, SweepKill, SweepList, SweepFlight,
     SweepClassify, SweepEnd, SweepPick, SweepUnchanged, memVars
<1>2. startup = "sweep"
  BY ZenonT(60) DEF Sweep, SweepStart, SweepClaims, SweepKill, SweepList, SweepFlight,
     SweepClassify, SweepEnd, SweepPick, LInv, StartInv
<1>3. \A w \in Workers : work[w].pc = "idle"
  BY <1>2, ZenonT(60) DEF LInv, StartInv, Workers
<1>4. creating = {} /\ busy = {}
  <2>   creating = {}
    BY <1>2, <1>3, ZenonT(60) DEF LInv, StartInv, Marking, Holds, Workers
  <2>   busy = {}
    BY <1>0, <1>3, ZenonT(60) DEF IInv, TypeOK, BusyExclusive, HoldsBusy, BusySteps, CreateSteps
  <2> QED OBVIOUS
<1>5. CheckpointsLost'
  BY <1>1, <1>3 DEF CheckpointsLost
<1>6. ASSUME NEW k \in inStore, lease[k].state = "lost", NEW s, s = lease[k].sandbox
      PROVE  s \in Sandboxes /\ s \notin pool /\ LostOnly(s) /\ k \in Owners(s)
  <2> USE <1>6
  <2>   s \in Sandboxes /\ s \notin pool
    BY <1>0 DEF StoreNamed, NamedOnce
  <2>   \A j \in Owners(s) : j = k
    BY <1>0 DEF Owners, NamedOnce
  <2> QED BY <1>4, ZenonT(60) DEF LostOnly, Owners
\* A pass over an id leaves the others to do.
<1>7. ASSUME vm' = vm, orphans' = orphans, startup' = startup, sweep'.pc \in {"pick", "claims", "kill"},
             sweep'.phase = sweep.phase, sweep'.todo = sweep.todo, sweep.pc \in {"pick", "claims", "kill"}
      PROVE  LostHeld'
  BY <1>1, <1>2, <1>7, ZenonT(60) DEF LInv, LostHeld
<1>8. ASSUME startup' = startup, sweep'.phase = "retry", sweep'.pc \notin {"flight", "classify"}
      PROVE  LostHeld'
  BY <1>2, <1>8 DEF LostHeld
<1>9. ASSUME SweepStart PROVE LostHeld'
  BY <1>8, <1>9 DEF SweepStart, IdleSweep
<1>10. ASSUME NEW s \in Sandboxes, SweepPick(s) PROVE LostHeld'
  <2>   /\ sweep' = [sweep EXCEPT !.pc = "claims", !.id = s]
        /\ UNCHANGED <<orphans, startup, vm>> /\ sweep.pc = "pick"
    BY <1>4, <1>10 DEF SweepPick
  <2> QED BY <1>0, <1>7 DEF SweepRecord
<1>11. ASSUME SweepClaims PROVE LostHeld'
  <2>1. sweep.pc = "claims" /\ startup' = startup /\ vm' = vm
    BY <1>11 DEF SweepClaims
  <2>2. CASE sweep' = [sweep EXCEPT !.pc = "kill"] /\ orphans' = orphans
    BY <1>0, <1>7, <2>1, <2>2, ZenonT(60) DEF SweepRecord
  <2>3. CASE SweepSkip(sweep.id) /\ (sweep.id \in pool \/ ~LostOnly(sweep.id))
    <3> USE <2>3
    <3>   sweep'.phase = sweep.phase /\ sweep'.pc = "pick" /\ sweep'.todo = sweep.todo \ {sweep.id}
      BY <1>0 DEF SweepSkip, SweepRecord
    <3>2. CASE sweep.phase = "retry"
      BY <1>8, <2>1, <3>2, ZenonT(60)
    <3>3. CASE sweep.phase = "sweep"
      <4> USE <3>3
      <4>   orphans' = orphans
        BY DEF SweepSkip
      <4>   \A k \in inStore : lease[k].state = "lost" => lease[k].sandbox # sweep.id
        BY <1>6, ZenonT(60)
      <4> QED BY <1>1, <1>2, <2>1, ZenonT(60) DEF LInv, LostHeld
    <3> QED BY <1>0, <3>2, <3>3, ZenonT(60) DEF SweepRecord
  <2> QED BY ZenonT(60), <1>11, <2>2, <2>3 DEF SweepClaims
<1>12. ASSUME SweepKill PROVE LostHeld'
  <2>   /\ sweep.pc = "kill" /\ startup' = startup
        /\ sweep'.phase = sweep.phase /\ sweep'.pc = "pick" /\ sweep'.todo = sweep.todo \ {sweep.id}
    BY <1>0, <1>12 DEF SweepKill, SweepRecord
  <2>2. CASE sweep.phase = "retry"
    BY <1>8, <2>2, ZenonT(60)
  <2>3. CASE sweep.phase = "sweep"
    <3> USE <2>3
    <3>   /\ orphans \subseteq orphans'
          /\ \A s \in Sandboxes : vm'[s] # NoVM => vm[s] # NoVM /\ (s # sweep.id \/ s \in orphans')
      BY <1>0, <1>12, ZenonT(60) DEF SweepKill
    <3>   \A k \in inStore : lease[k].sandbox \in Sandboxes
      BY <1>0 DEF StoreNamed
    <3> QED BY <1>1, <1>2, ZenonT(60) DEF LInv, LostHeld
  <2> QED BY <1>0, <2>2, <2>3, ZenonT(60) DEF SweepRecord
<1>13. ASSUME SweepList PROVE LostHeld'
  <2>   /\ sweep' = [sweep EXCEPT !.pc = "flight", !.phase = "sweep",
                                    !.listed = present_ids, !.again = present_ids \cap seen]
        /\ startup' = startup /\ vm' = vm
    BY <1>13 DEF SweepList
  <2>   sweep'.pc = "flight" /\ sweep'.listed = present_ids
    BY <1>0 DEF SweepRecord
  <2>   \A k \in inStore : vm[lease[k].sandbox] # NoVM => lease[k].sandbox \in present_ids
    BY <1>0, ZenonT(60) DEF StoreNamed, present_ids
  <2> QED BY <1>1, <1>2, ZenonT(60) DEF LostHeld
<1>14. ASSUME SweepFlight PROVE LostHeld'
  <2>   /\ sweep'.pc = "classify" /\ sweep'.listed = sweep.listed /\ sweep.pc = "flight"
        /\ startup' = startup /\ vm' = vm
    BY <1>0, <1>14 DEF SweepFlight, SweepRecord
  <2> QED BY <1>1, <1>2 DEF LInv, LostHeld
<1>15. ASSUME SweepClassify PROVE LostHeld'
  <2> DEFINE candidates == sweep.listed \ (sweep.flight \cup pool)
             unclaimed == {s \in candidates : Owners(s) = {}}
             lost == {s \in candidates : Owners(s) # {} /\ LostOnly(s)}
             todo == lost \cup (unclaimed \cap sweep.again)
  <2>   /\ sweep.pc = "classify" /\ startup' = startup /\ vm' = vm
        /\ sweep' = [IdleSweep EXCEPT !.pc = "pick", !.phase = "sweep", !.todo = todo]
    BY <1>15 DEF SweepClassify
  <2>2. sweep'.pc = "pick" /\ sweep'.todo = todo
    BY DEF IdleSweep
  <2>3. sweep.flight = {}
    BY DEF LInv, StartInv
  <2>4. ASSUME NEW k \in inStore, lease[k].state = "lost", vm[lease[k].sandbox] # NoVM
        PROVE  lease[k].sandbox \in todo
    <3> USE <2>4
    <3>   lease[k].sandbox \in candidates
      BY <1>6, <2>3 DEF LInv, LostHeld
    <3> QED BY <1>6, ZenonT(60)
  <2> HIDE DEF todo
  <2> QED BY <1>1, <1>2, <2>2, <2>4, ZenonT(60) DEF LostHeld
<1>16. ASSUME SweepEnd PROVE LostHeld'
  <2>   /\ sweep.pc = "pick" /\ sweep.phase = "sweep" /\ sweep.todo = {}
        /\ UNCHANGED <<orphans, vm>> /\ sweep' = IdleSweep
    BY <1>16 DEF SweepEnd
  <2> QED BY <1>1, ZenonT(60) DEF LInv, LostHeld, IdleSweep
<1> QED BY ZenonT(60), <1>5, <1>9, <1>10, <1>11, <1>12, <1>13, <1>14, <1>15, <1>16 DEF Sweep

\* No lease is lost initially ...
LEMMA LInitInv == ASSUME Init PROVE LInv
<1>1. OInv /\ AInv
  BY OInitInv, AInitInv
<1>   StartInv
  BY ZenonT(60) DEF Init, StartInv, IdleWork, IdleSweep, Workers
<1>   LostHeld /\ CheckpointsLost
  BY ZenonT(60) DEF Init, LostHeld, CheckpointsLost, IdleWork
<1> QED BY <1>1, ZenonT(60) DEF LInv

\* ... and no step leaves a lost lease's guest to itself.
LEMMA LNextInv ==
    ASSUME "sweep" \notin Ops, "list" \notin Faults, LInv, [Next]_vars PROVE LInv'
<1>   AInv /\ OInv /\ StartInv
  BY DEF LInv
<1>1. OInv' /\ AInv'
  BY ONextInv, ANextInv, ZenonT(60)
<1>   StartInv'
  BY WorkStarts, OtherStarts DEF Next
<1>   LostHeld' /\ CheckpointsLost'
  BY WorkLost, OtherLost, SweepLost, ZenonT(60) DEF Next
<1> QED BY <1>1 DEF LInv

\* An operation that has yet to stop the guest still holds busy.
LEMMA HeldStopped == ASSUME LInv PROVE LostStopped
<1>1. ASSUME NEW w \in Workers, work[w].pc = "stopLost", work[w].lease \in inStore
      PROVE  work[w].lease \in busy
  <2> USE <1>1
  <2>   HoldsBusy(w)
    BY ZenonT(60) DEF LInv, AInv, OInv, RInv, IInv, WorkInv, WorkOK, HoldsBusy, BusySteps
  <2> QED BY ZenonT(60) DEF LInv, AInv, OInv, RInv, IInv, TypeOK, BusyExclusive
<1> QED BY <1>1, ZenonT(60) DEF LInv, LostHeld, LostStopped

\* LostStopped, where no periodic sweep runs and the substrate's list
\* answers: a lost lease means a stopped guest or a remembered one, through
\* every failed delete, every checkpoint that resumes the guest of a lease
\* lost under it, and every restart of the backend at any step in between,
\* whose startup sweep catches up before requests are served.  The periodic
\* sweep may forget an id it finds claimed and find it again on its own
\* (StraysSwept); a failed list ends the startup sweep early.
THEOREM LostGuestsAreStopped ==
    ASSUME "sweep" \notin Ops, "list" \notin Faults PROVE Spec => []LostStopped
BY LInitInv, LNextInv, HeldStopped, PTL DEF Spec

=============================================================================
