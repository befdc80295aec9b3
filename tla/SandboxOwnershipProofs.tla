----------------------- MODULE SandboxOwnershipProofs -----------------------
(***************************************************************************)
(* Who owns a sandbox, for every value of the constants.  SoleOwner holds  *)
(* without condition.  The in-flight marks are exact where no pool is      *)
(* filled: a fill's late endCreatingSandbox can end the mark of the grant  *)
(* that popped its sandbox (PoolMarkLost).                                 *)
(***************************************************************************)
EXTENDS LeaseRefinementProofs

\* The goroutine holds an id that is no lease's yet.
Fresh(w) == Holds(w) /\ ~ResumesInPlace(work[w].op)

\* A sandbox is named by one lease at most, for good, and a named one is not
\* stocked.
NamedOnce ==
    /\ \A k, l \in Leases :
          lease[k].sandbox \in Sandboxes /\ lease[k].sandbox = lease[l].sandbox => k = l
    /\ \A l \in Leases : lease[l].sandbox \notin pool

\* An id an operation holds is its lease's, or nobody else's.
HeldOnce ==
    /\ \A w \in Workers : Holds(w) /\ ResumesInPlace(work[w].op) =>
          work[w].id = lease[work[w].lease].sandbox
    /\ \A w \in Workers : Fresh(w) =>
          /\ work[w].id \notin pool
          /\ \A l \in Leases : lease[l].sandbox # work[w].id
    /\ \A v, w \in Workers : Fresh(v) /\ Fresh(w) /\ work[v].id = work[w].id => v = w

\* Every id in use was drawn, so none is drawn again.
UsedDrawn ==
    /\ pool \subseteq used
    /\ \A l \in Leases : lease[l].sandbox \in used \cup {NoSandbox}
    /\ \A w \in Workers : Fresh(w) \/ work[w].pc = "endCreate" => work[w].id \in used

OwnInv == NamedOnce /\ HeldOnce /\ UsedDrawn

\* The inductive invariant of the ownership.
OInv == RInv /\ OwnInv

-----------------------------------------------------------------------------
(* Without a pool. *)

\* No goroutine fills the pool, and it stays empty.
NoPool == pool = {} /\ \A w \in Workers : work[w].op # "fill"

\* A fresh id is marked in flight, no operation that is about to end a mark
\* ends this one, and every mark is some operation's.
MarkInv ==
    /\ \A w \in Workers : Fresh(w) => work[w].id \in creating
    /\ \A v, w \in Workers :
          Fresh(w) /\ work[v].pc = "endCreate" => work[v].id # work[w].id
    /\ \A s \in creating : \E w \in Workers :
          work[w].id = s /\ (Holds(w) \/ work[w].pc = "endCreate")

MInv == OInv /\ NoPool /\ MarkInv

-----------------------------------------------------------------------------
(* The ownership of sandboxes. *)

\* A step that gives no lease another sandbox.
SandboxesKept == \A l \in Leases : lease'[l].sandbox = lease[l].sandbox

\* A goroutine that holds an id after its step held it before.
HoldKept(w) ==
    /\ Holds(w)' => /\ Holds(w) /\ work'[w].id = work[w].id
                    /\ work'[w].op = work[w].op /\ work'[w].lease = work[w].lease
    /\ work'[w].pc = "endCreate" =>
          (Holds(w) \/ work[w].pc = "endCreate") /\ work'[w].id = work[w].id

\* Every id an operation holds was drawn.
LEMMA HeldUsed == ASSUME OInv, NEW w \in Workers, Holds(w) PROVE work[w].id \in used
<1>   work[w].id \in Sandboxes /\ (ResumesInPlace(work[w].op) => work[w].lease \in Leases)
  BY ZenonT(60) DEF OInv, RInv, IInv, WorkInv, WorkOK, ResumesInPlace, BusyOps
<1>   NoSandbox \notin Sandboxes
  BY SentinelAssumption
<1> QED BY DEF OInv, OwnInv, HeldOnce, UsedDrawn, Fresh

\* A step that draws, names and stocks nothing keeps the ownership.
LEMMA OwnKept ==
    ASSUME OInv, NEW w \in Workers, \A v \in Workers \ {w} : work'[v] = work[v],
           SandboxesKept, pool' \subseteq pool, used \subseteq used', HoldKept(w)
    PROVE  OwnInv'
<1>0. \A v \in Workers : ResumesInPlace(work[v].op) => work[v].lease \in Leases
  BY ZenonT(60) DEF OInv, RInv, IInv, WorkInv, WorkOK, ResumesInPlace, BusyOps
<1>1. NamedOnce'
  BY DEF OInv, OwnInv, NamedOnce, SandboxesKept
<1>2. \A v \in Workers : Holds(v)' => /\ Holds(v) /\ work'[v].id = work[v].id
                                      /\ work'[v].op = work[v].op /\ work'[v].lease = work[v].lease
  BY DEF HoldKept, Holds
<1>3. \A v \in Workers : Fresh(v)' => Fresh(v) /\ work'[v].id = work[v].id
  BY <1>2 DEF Fresh
<1>4. HeldOnce'
  <2>1. ASSUME NEW v \in Workers, Holds(v)', ResumesInPlace(work'[v].op)
        PROVE  work'[v].id = lease'[work'[v].lease].sandbox
    BY <1>0, <1>2, <2>1 DEF OInv, OwnInv, HeldOnce, SandboxesKept
  <2>2. ASSUME NEW v \in Workers, Fresh(v)'
        PROVE  work'[v].id \notin pool' /\ \A l \in Leases : lease'[l].sandbox # work'[v].id
    BY <1>3, <2>2 DEF OInv, OwnInv, HeldOnce, SandboxesKept
  <2>3. ASSUME NEW u \in Workers, NEW v \in Workers, Fresh(u)', Fresh(v)', work'[u].id = work'[v].id
        PROVE  u = v
    BY <1>3, <2>3 DEF OInv, OwnInv, HeldOnce
  <2> QED BY <2>1, <2>2, <2>3 DEF HeldOnce, Holds, ResumesInPlace
<1>   UsedDrawn'
  <2>1. ASSUME NEW v \in Workers, Fresh(v)' \/ work'[v].pc = "endCreate" PROVE work'[v].id \in used'
    <3>1. CASE Fresh(v)'
      BY <1>3, <3>1, HeldUsed DEF Fresh
    <3>2. CASE v = w /\ work'[v].pc = "endCreate"
      BY <3>2, HeldUsed DEF HoldKept, OInv, OwnInv, UsedDrawn
    <3>3. CASE v # w /\ work'[v].pc = "endCreate"
      BY <3>3 DEF OInv, OwnInv, UsedDrawn
    <3> QED BY <2>1, <3>1, <3>2, <3>3
  <2>   pool' \subseteq used' /\ \A l \in Leases : lease'[l].sandbox \in used' \cup {NoSandbox}
    BY DEF OInv, OwnInv, UsedDrawn, SandboxesKept
  <2> QED BY <2>1 DEF UsedDrawn
<1> QED BY <1>1, <1>4 DEF OwnInv

\* The steps at which an id is held or has just been handed over.
HoldSteps == {"validate", "create", "check", "dropOld", "probe", "commit", "endCreate"}

\* Returning, or going on to a step, draws no id.
LEMMA HoldMoves ==
    ASSUME work \in [Workers -> WorkRecord], NEW w \in Workers,
           \/ Leave(w)
           \/ \E step : Goto(w, step) /\ (Holds(w) \/ step \notin HoldSteps)
           \/ \E r : work' = [work EXCEPT ![w] = r] /\ r.pc \notin HoldSteps
    PROVE  HoldKept(w)
<1>1. CASE Leave(w)
  BY <1>1 DEF Leave, HoldKept, Holds, IdleWork
<1>2. ASSUME NEW step, Goto(w, step), Holds(w) \/ step \notin HoldSteps PROVE HoldKept(w)
  BY <1>2 DEF Goto, HoldKept, Holds, WorkRecord, HoldSteps
<1>3. ASSUME NEW r, work' = [work EXCEPT ![w] = r], r.pc \notin HoldSteps PROVE HoldKept(w)
  BY <1>3 DEF HoldKept, Holds, HoldSteps
<1> QED BY <1>1, <1>2, <1>3

\* Every step of an operation that neither admits, pops nor commits leaves
\* the sandboxes with their owners.
LEMMA WorkHolds ==
    ASSUME IInv, NEW w \in Workers, WorkStep(w), ~Admit(w), ~Pop(w), ~Commit(w)
    PROVE  HoldKept(w) /\ SandboxesKept /\ UNCHANGED <<pool, used>>
<1> DEFINE l == work[w].lease
<1>   work \in [Workers -> WorkRecord] /\ lease \in [Leases -> LeaseRecord]
  BY DEF IInv, TypeOK
<1>a. IdleWork.pc \notin HoldSteps
  BY DEF IdleWork, HoldSteps
<1>   UNCHANGED lease => SandboxesKept
  BY DEF SandboxesKept
<1> USE DEF memVars
<1>1. CASE Begin(w)
  <2>   FirstStep(work[w].op) \notin HoldSteps
    BY DEF FirstStep, HoldSteps
  <2> QED BY <1>1, <1>a, HoldMoves DEF Begin
<1>2. CASE EndBusy(w)
  <2>   [IdleWork EXCEPT !.pc = "next"].pc \notin HoldSteps
    BY DEF IdleWork, HoldSteps
  <2> QED BY ZenonT(60), <1>2, <1>a, HoldMoves DEF EndBusy
<1>3. CASE EndCreate(w) \/ StopLost(w)
  BY ZenonT(60), <1>3, HoldMoves DEF EndCreate, StopLost
<1>4. CASE Create(w) \/ Check(w) \/ Probe(w) \/ DropOld(w)
  BY ZenonT(60), <1>4, HoldMoves
  DEF Create, CreateFailed, Check, Probe, DropOld, StopFresh, Holds
<1>5. CASE DropFirst(w) \/ CheckpointResume(w) \/ Recover(w) \/ RetryFailed(w) \/ ReleaseDelete(w)
  <2>   {"admit", "ckptRecord", "lose", "relDrop"} \cap HoldSteps = {}
    BY DEF HoldSteps
  <2> QED BY ZenonT(60), <1>5, HoldMoves
    DEF DropFirst, CheckpointResume, Recover, RetryFailed, ReleaseDelete
<1>6. CASE Validate(w)
  BY ZenonT(60), <1>6, HoldMoves DEF Validate, Holds
<1>7. CASE ReleaseDrop(w)
  BY <1>7, <1>a, HoldMoves, ZenonT(60) DEF ReleaseDrop
<1>8. CASE Crash(w)
  BY <1>8 DEF Crash, HoldKept, Holds
<1>c. ASSUME NEW step, NEW b, step \notin HoldSteps,
             work' = [work EXCEPT ![w] = [@ EXCEPT !.pc = step, !.build = b]]
      PROVE  HoldKept(w)
  BY <1>c DEF HoldKept, Holds, WorkRecord, HoldSteps
<1>d. {"paused", "ckptResume"} \cap HoldSteps = {}
  BY DEF HoldSteps
<1>9. CASE Pause(w)
  BY ZenonT(60), <1>9, <1>c, <1>d, HoldMoves DEF Pause
<1>10. CASE Checkpoint(w)
  BY ZenonT(60), <1>10, <1>c, <1>d, HoldMoves DEF Checkpoint
<1>11. ASSUME NEW r, Save(l, r), r.sandbox = lease[l].sandbox PROVE SandboxesKept
  BY <1>11 DEF Save, SandboxesKept
<1>12. CASE Paused(w)
  <2> USE <1>12
  <2>1. HoldKept(w)
    <3>   {"admit", "endBusy"} \cap HoldSteps = {}
      BY DEF HoldSteps
    <3> QED BY ZenonT(60), HoldMoves DEF Paused
  <2>   l \in Leases => [lease[l] EXCEPT !.state = "suspended", !.resumeBuild = work[w].build].sandbox
                           = lease[l].sandbox
    BY DEF LeaseRecord
  <2>   l \in Leases
    BY DEF Paused, IInv, WorkInv, WorkOK, BusySteps
  <2> QED BY ZenonT(60), <1>11, <2>1 DEF Paused
<1>13. CASE CheckpointRecord(w)
  <2> USE <1>13
  <2>   l \in Leases => [lease[l] EXCEPT !.checkpoint = work[w].build].sandbox = lease[l].sandbox
    BY DEF LeaseRecord
  <2>   l \in Leases
    BY DEF CheckpointRecord, IInv, WorkInv, WorkOK, BusySteps
  <2> QED BY ZenonT(60), <1>11, HoldMoves DEF CheckpointRecord
<1>14. CASE Mark(w)
  <2>   "crash" \notin HoldSteps
    BY DEF HoldSteps
  <2> QED BY ZenonT(60), <1>11, <1>14, HoldMoves DEF Mark
<1>15. CASE Lose(w)
  <2> USE <1>15
  <2>1. l \in Leases => [lease[l] EXCEPT !.state = "lost"].sandbox = lease[l].sandbox
    BY DEF LeaseRecord
  <2>   l \in Leases
    BY DEF Lose, IInv, WorkInv, WorkOK, BusySteps
  <2>   "stopLost" \notin HoldSteps
    BY DEF HoldSteps
  <2> QED BY ZenonT(60), <1>11, <2>1, HoldMoves DEF Lose
<1> QED
  BY ZenonT(60), <1>1, <1>2, <1>3, <1>4, <1>5, <1>6, <1>7, <1>8, <1>9, <1>10, <1>12, <1>13, <1>14, <1>15
  DEF WorkStep

\* The goroutine's own id, drawn, popped or handed to its lease, is the only
\* thing a step may disturb; everybody else's stays where it was.
LEMMA OwnMoved ==
    ASSUME OInv, NEW w \in Workers, \A v \in Workers \ {w} : work'[v] = work[v],
           used \subseteq used', pool' \subseteq used', NamedOnce',
           \A l \in Leases : lease'[l].sandbox \in used' \cup {NoSandbox},
           \A v \in Workers \ {w} : Holds(v) /\ ResumesInPlace(work[v].op) =>
               lease'[work[v].lease].sandbox = lease[work[v].lease].sandbox,
           \A v \in Workers \ {w} : Fresh(v) =>
               /\ work[v].id \notin pool' /\ \A l \in Leases : lease'[l].sandbox # work[v].id
               /\ Fresh(w)' => work[v].id # work'[w].id,
           Holds(w)' /\ ResumesInPlace(work'[w].op) =>
               work'[w].id = lease'[work'[w].lease].sandbox,
           Fresh(w)' => /\ work'[w].id \notin pool'
                        /\ \A l \in Leases : lease'[l].sandbox # work'[w].id,
           Fresh(w)' \/ work'[w].pc = "endCreate" => work'[w].id \in used'
    PROVE  OwnInv'
<1>   \A v \in Workers \ {w} : (Holds(v)' <=> Holds(v)) /\ (Fresh(v)' <=> Fresh(v))
  BY ZenonT(60) DEF Holds, Fresh
<1>2. HeldOnce'
  <2>1. ASSUME NEW v \in Workers, Holds(v)', ResumesInPlace(work'[v].op)
        PROVE  work'[v].id = lease'[work'[v].lease].sandbox
    BY <2>1 DEF OInv, OwnInv, HeldOnce
  <2>2. ASSUME NEW v \in Workers, Fresh(v)'
        PROVE  work'[v].id \notin pool' /\ \A l \in Leases : lease'[l].sandbox # work'[v].id
    BY <2>2
  <2>3. ASSUME NEW u \in Workers, NEW v \in Workers, Fresh(u)', Fresh(v)', work'[u].id = work'[v].id
        PROVE  u = v
    BY <2>3 DEF OInv, OwnInv, HeldOnce
  <2> QED BY <2>1, <2>2, <2>3, ZenonT(60) DEF HeldOnce, Holds, ResumesInPlace
<1>   UsedDrawn'
  <2>1. ASSUME NEW v \in Workers, Fresh(v)' \/ work'[v].pc = "endCreate" PROVE work'[v].id \in used'
    BY <2>1 DEF OInv, OwnInv, UsedDrawn
  <2> QED BY <2>1, ZenonT(60) DEF UsedDrawn
<1> QED BY <1>2, ZenonT(60) DEF OwnInv

\* An admission draws a fresh id, or its lease's own to resume in place.
LEMMA AdmitOwn == ASSUME OInv, NEW w \in Workers, Admit(w) PROVE OwnInv'
<1>0. /\ work \in [Workers -> WorkRecord] /\ lease \in [Leases -> LeaseRecord]
      /\ ResumesInPlace(work[w].op) => work[w].lease \in Leases
  BY ZenonT(60) DEF OInv, RInv, IInv, TypeOK, WorkInv, WorkOK, ResumesInPlace, BusyOps
<1>   UNCHANGED <<lease, pool>> /\ SandboxesKept
  BY ZenonT(60) DEF Admit, memVars, SandboxesKept
<1>2. CASE CreateFailed(w) /\ UNCHANGED used
  <2> USE <1>2
  <2>1. \A v \in Workers \ {w} : work'[v] = work[v]
    BY WorkAlone DEF OInv, RInv, WorkStep
  <2>   HoldKept(w)
    <3>   "failed" \notin HoldSteps
      BY ZenonT(60) DEF HoldSteps
    <3> QED BY <1>0, HoldMoves DEF CreateFailed
  <2> QED BY <2>1, OwnKept, ZenonT(60)
<1>3. ASSUME NEW s \in IF ResumesInPlace(work[w].op)
                       THEN {lease[work[w].lease].sandbox} ELSE Sandboxes \ used,
             used' = used \cup {s},
             work' = [work EXCEPT ![w] = [@ EXCEPT !.pc = "create", !.id = s, !.build = SourceBuild(w)]]
      PROVE  OwnInv'
  <2> USE <1>3
  <2>   /\ \A v \in Workers \ {w} : work'[v] = work[v]
        /\ work'[w].id = s /\ work'[w].op = work[w].op /\ work'[w].lease = work[w].lease
        /\ work'[w].pc = "create"
    BY <1>0 DEF WorkRecord
  <2>2. NamedOnce'
    BY DEF OInv, OwnInv, NamedOnce
  <2>3. pool \subseteq used /\ \A l \in Leases : lease[l].sandbox \in used \cup {NoSandbox}
    BY DEF OInv, OwnInv, UsedDrawn
  <2>4. \A v \in Workers : Fresh(v) =>
          /\ work[v].id \in used /\ work[v].id \notin pool
          /\ \A l \in Leases : lease[l].sandbox # work[v].id
    BY DEF OInv, OwnInv, UsedDrawn, HeldOnce
  <2>   Fresh(w)' => s \in Sandboxes \ used /\ s # NoSandbox
    BY SentinelAssumption DEF Fresh
  <2>6. ResumesInPlace(work'[w].op) => s = lease[work[w].lease].sandbox
    OBVIOUS
  <2>7. \A v \in Workers \ {w} : Fresh(v) =>
          /\ work[v].id \notin pool' /\ \A l \in Leases : lease'[l].sandbox # work[v].id
          /\ Fresh(w)' => work[v].id # work'[w].id
    BY <2>4
  <2>   Fresh(w)' => work'[w].id \notin pool' /\ \A l \in Leases : lease'[l].sandbox # work'[w].id
    BY <2>3
  <2>   /\ used \subseteq used' /\ pool' \subseteq used'
        /\ \A l \in Leases : lease'[l].sandbox \in used' \cup {NoSandbox}
        /\ Fresh(w)' \/ work'[w].pc = "endCreate" => work'[w].id \in used'
    BY <2>3
  <2> QED BY <2>2, <2>6, <2>7, OwnMoved, ZenonT(60)
<1> QED BY ZenonT(60), <1>2, <1>3 DEF Admit

\* A popped sandbox leaves the pool in the same step.
LEMMA PopOwn == ASSUME OInv, NEW w \in Workers, Pop(w) PROVE OwnInv'
<1>0. /\ work \in [Workers -> WorkRecord] /\ work[w].op = "grant"
  BY ZenonT(60) DEF OInv, RInv, IInv, TypeOK, WorkInv, WorkOK, PhaseInv, OpAt, Pop
<1>1. UNCHANGED <<lease, used>> /\ SandboxesKept
  BY ZenonT(60) DEF Pop, memVars, SandboxesKept
<1>2. CASE Goto(w, "admit") /\ UNCHANGED pool
  <2> USE <1>2
  <2>   \A v \in Workers \ {w} : work'[v] = work[v]
    BY DEF Goto
  <2>   "admit" \notin HoldSteps
    BY ZenonT(60) DEF HoldSteps
  <2> QED BY <1>0, <1>1, HoldMoves, OwnKept, ZenonT(60)
<1>3. ASSUME NEW s \in pool, pool' = pool \ {s},
             work' = [work EXCEPT ![w] = [@ EXCEPT !.pc = "validate", !.id = s]]
      PROVE  OwnInv'
  <2>   /\ \A v \in Workers \ {w} : work'[v] = work[v]
        /\ work'[w].id = s /\ work'[w].op = "grant" /\ work'[w].pc = "validate"
    BY <1>0, <1>3 DEF WorkRecord
  <2>2. NamedOnce' /\ \A l \in Leases : lease[l].sandbox \notin pool
    BY <1>1, <1>3, ZenonT(60) DEF OInv, OwnInv, NamedOnce
  <2>3. pool \subseteq used /\ \A l \in Leases : lease[l].sandbox \in used \cup {NoSandbox}
    BY ZenonT(60) DEF OInv, OwnInv, UsedDrawn
  <2>4. \A v \in Workers : Fresh(v) =>
          work[v].id \notin pool /\ \A l \in Leases : lease[l].sandbox # work[v].id
    BY DEF OInv, OwnInv, HeldOnce
  <2>5. \A v \in Workers \ {w} : Fresh(v) =>
          /\ work[v].id \notin pool' /\ \A l \in Leases : lease'[l].sandbox # work[v].id
          /\ Fresh(w)' => work[v].id # work'[w].id
    BY <1>1, <1>3, <2>4, ZenonT(60)
  <2>6. ~ResumesInPlace(work'[w].op)
    <3>   work'[w].op = "grant"
      OBVIOUS
    <3> QED BY DEF ResumesInPlace
  <2>   work'[w].id \notin pool' /\ \A l \in Leases : lease'[l].sandbox # work'[w].id
    <3>1. ASSUME NEW l \in Leases PROVE lease'[l].sandbox # s
      BY <1>1, <2>2
    <3>   s \notin pool'
      BY <1>3
    <3>   work'[w].id = s
      OBVIOUS
    <3> QED BY <3>1
  <2>   /\ used \subseteq used' /\ pool' \subseteq used'
        /\ \A l \in Leases : lease'[l].sandbox \in used' \cup {NoSandbox}
        /\ work'[w].id \in used'
    BY <1>1, <1>3, <2>3, ZenonT(60)
  <2> QED BY <1>1, <2>2, <2>5, <2>6, OwnMoved, ZenonT(60)
<1> QED BY ZenonT(60), <1>2, <1>3 DEF Pop

\* What a commit makes of the lease: an operation in place leaves it its
\* sandbox, any other hands it the one it holds.
LEMMA CommittedSandbox ==
    ASSUME OInv, NEW w \in Workers, work[w].pc = "commit", work[w].op # "fill"
    PROVE  /\ work[w].lease \in Leases
           /\ Committed(w).sandbox = work[w].id
           /\ Fresh(w) \/ work[w].id = lease[work[w].lease].sandbox
<1>   /\ lease \in [Leases -> LeaseRecord] /\ work[w].lease \in Leases
      /\ work[w].op \in CreatingOps /\ Holds(w)
  BY ZenonT(60) DEF OInv, RInv, IInv, TypeOK, WorkInv, WorkOK, PhaseInv, OpAt, CreateSteps, Holds
<1>1. CASE ResumesInPlace(work[w].op)
  <2> USE <1>1
  <2>   work[w].id = lease[work[w].lease].sandbox
    BY DEF OInv, OwnInv, HeldOnce
  <2>   Committed(w).sandbox = lease[work[w].lease].sandbox
    BY DEF Committed, ResumesInPlace, LeaseRecord
  <2> QED BY ZenonT(60)
<1>2. CASE ~ResumesInPlace(work[w].op)
  <2> USE <1>2
  <2>   Committed(w).sandbox = work[w].id
    BY DEF Committed, ResumesInPlace, LeaseRecord, NewLease
  <2> QED BY DEF Fresh
<1> QED BY <1>1, <1>2, ZenonT(60)

\* A commit hands the id on: to the pool, to the lease, or to nobody.
LEMMA CommitOwn == ASSUME OInv, NEW w \in Workers, Commit(w) PROVE OwnInv'
<1> DEFINE l == work[w].lease
<1>0. /\ work \in [Workers -> WorkRecord] /\ lease \in [Leases -> LeaseRecord]
      /\ work[w].pc = "commit" /\ Holds(w) /\ work[w].id \in Sandboxes
  BY ZenonT(60) DEF OInv, RInv, IInv, TypeOK, WorkInv, WorkOK, Commit, Holds
<1>1. \A v \in Workers \ {w} : work'[v] = work[v]
  BY WorkAlone, ZenonT(60) DEF OInv, RInv, WorkStep
<1>2. used' = used /\ work[w].id \in used
  BY <1>0, HeldUsed, ZenonT(60) DEF Commit
<1>3. CASE StopFresh(w, {work[w].id}) /\ UNCHANGED <<lease, pool>>
  <2> USE <1>3
  <2>   HoldKept(w)
    BY <1>0, HoldMoves DEF StopFresh
  <2> QED BY <1>1, <1>2, OwnKept, ZenonT(60) DEF SandboxesKept
<1>4. ASSUME Goto(w, "endCreate")
      PROVE  ~Holds(w)' /\ ~Fresh(w)' /\ work'[w].id = work[w].id /\ work'[w].pc = "endCreate"
  BY <1>0, <1>4, ZenonT(60) DEF Goto, Holds, Fresh, WorkRecord
<1>5. pool \subseteq used /\ \A k \in Leases : lease[k].sandbox \in used \cup {NoSandbox}
  BY DEF OInv, OwnInv, UsedDrawn
<1>6. \A v \in Workers : Fresh(v) =>
        /\ work[v].id \notin pool /\ \A k \in Leases : lease[k].sandbox # work[v].id
        /\ Fresh(w) /\ v # w => work[v].id # work[w].id
  BY DEF OInv, OwnInv, HeldOnce
<1>7. \A v \in Workers : ResumesInPlace(work[v].op) => work[v].lease \in Leases
  BY ZenonT(60) DEF OInv, RInv, IInv, WorkInv, WorkOK, ResumesInPlace, BusyOps
<1>8. CASE work[w].op = "fill" /\ pool' = pool \cup {work[w].id} /\ Goto(w, "endCreate") /\ UNCHANGED lease
  <2> USE <1>8
  <2>   Fresh(w)
    <3>   ~ResumesInPlace("fill")
      BY DEF ResumesInPlace
    <3> QED BY <1>0 DEF Fresh
  <2>2. NamedOnce'
    BY <1>6 DEF OInv, OwnInv, NamedOnce
  <2>   \A v \in Workers \ {w} : Fresh(v) =>
          /\ work[v].id \notin pool' /\ \A k \in Leases : lease'[k].sandbox # work[v].id
    BY <1>6
  <2>   pool' \subseteq used' /\ \A k \in Leases : lease'[k].sandbox \in used' \cup {NoSandbox}
    BY <1>2, <1>5, ZenonT(60)
  <2> QED BY <1>1, <1>2, <1>4, <2>2, OwnMoved, ZenonT(60)
<1>9. CASE work[w].op # "fill" /\ Save(l, Committed(w)) /\ Goto(w, "endCreate") /\ UNCHANGED pool
  <2>1. /\ l \in Leases /\ lease'[l].sandbox = work[w].id
        /\ \A k \in Leases \ {l} : lease'[k] = lease[k]
        /\ Fresh(w) \/ work[w].id = lease[l].sandbox
    <3>   l \in Leases /\ Committed(w).sandbox = work[w].id /\ (Fresh(w) \/ work[w].id = lease[l].sandbox)
      BY <1>0, <1>9, CommittedSandbox
    <3>   lease' = [lease EXCEPT ![l] = Committed(w)]
      BY <1>9 DEF Save
    <3> QED BY <1>0
  <2>2. ASSUME NEW k \in Leases PROVE lease'[k].sandbox = IF k = l THEN work[w].id ELSE lease[k].sandbox
    BY <2>1
  <2>3. NamedOnce'
    <3>   work[w].id \notin pool
      BY <1>6, <2>1, ZenonT(60) DEF OInv, OwnInv, NamedOnce
    <3>   \A k \in Leases \ {l} : lease[k].sandbox # work[w].id
      BY <1>0, <1>6, <2>1, ZenonT(60) DEF OInv, OwnInv, NamedOnce
    <3> QED BY <1>9, <2>2 DEF OInv, OwnInv, NamedOnce
  <2>4. \A v \in Workers \ {w} : Fresh(v) =>
          /\ work[v].id \notin pool' /\ \A k \in Leases : lease'[k].sandbox # work[v].id
    BY <1>6, <1>9, <2>1, <2>2, ZenonT(60)
  <2>5. pool' \subseteq used' /\ \A k \in Leases : lease'[k].sandbox \in used' \cup {NoSandbox}
    BY <1>2, <1>5, <1>9, <2>2
  <2>6. ASSUME NEW v \in Workers \ {w}, Holds(v), ResumesInPlace(work[v].op)
        PROVE  lease'[work[v].lease].sandbox = lease[work[v].lease].sandbox
    <3>1. CASE work[v].lease = l
      <4> USE <3>1
      <4>   work[v].id = lease[l].sandbox /\ HoldsBusy(v)
        BY ZenonT(60), <2>6 DEF OInv, OwnInv, HeldOnce, Holds, HoldsBusy, ResumesInPlace, BusyOps, CreateSteps, RInv, IInv, WorkInv, WorkOK
      <4>2. HoldsBusy(w) => FALSE
        BY <2>6 DEF OInv, RInv, IInv, BusyExclusive
      <4>3. work[w].op = "grant"
        BY ZenonT(60), <1>0, <1>9, <4>2 DEF OInv, RInv, IInv, WorkInv, WorkOK, HoldsBusy, CreateSteps
      <4>   lease[l].state = "none"
        BY <1>0, <4>3 DEF OInv, RInv, GrantFresh
      <4>   l \in inStore \cup released
        BY ZenonT(60) DEF OInv, RInv, IInv, WorkInv, WorkOK, HoldsBusy
      <4> QED BY DEF OInv, RInv, StoreGranted
    <3>2. CASE work[v].lease # l
      BY <1>7, <2>1, <2>6, <3>2
    <3> QED BY <3>1, <3>2
  <2> QED BY <1>1, <1>2, <1>4, <1>9, <2>3, <2>4, <2>5, <2>6, OwnMoved, ZenonT(60)
<1> QED BY ZenonT(60), <1>3, <1>8, <1>9 DEF Commit

\* Every step of an operation keeps the ownership.
LEMMA WorkOwn == ASSUME OInv, NEW w \in Workers, WorkStep(w) PROVE OwnInv'
<1>1. CASE ~Admit(w) /\ ~Pop(w) /\ ~Commit(w)
  <2>   HoldKept(w) /\ SandboxesKept /\ UNCHANGED <<pool, used>>
    BY <1>1, WorkHolds DEF OInv, RInv
  <2>   \A v \in Workers \ {w} : work'[v] = work[v]
    BY WorkAlone DEF OInv, RInv
  <2> QED BY OwnKept
<1> QED BY <1>1, AdmitOwn, PopOwn, CommitOwn

\* So does a step that begins an operation: it draws nothing yet.
LEMMA StartOwn ==
    ASSUME OInv, NEW w \in Workers, NEW op, NEW l, NEW step, NEW b, Start(w, op, l, step, b),
           step \notin HoldSteps, UNCHANGED <<lease, pool, used>>
    PROVE  OwnInv'
<1>   work \in [Workers -> WorkRecord]
  BY DEF OInv, RInv, IInv, TypeOK
<1>   HoldKept(w) /\ \A v \in Workers \ {w} : work'[v] = work[v]
  BY DEF Start, HoldKept, Holds, HoldSteps
<1> QED BY OwnKept DEF SandboxesKept

\* The requests.
LEMMA RequestOwn == ASSUME OInv, NEW w \in Handlers, Request(w) PROVE OwnInv'
<1>0. w \in Workers
  BY DEF Workers
<1>a. {"pop", "admit", "dropFirst", "pause", "mark", "relDelete", "found"} \cap HoldSteps = {}
  BY DEF HoldSteps
<1> USE <1>0, <1>a DEF memVars
<1>1. CASE Fill(w)
  BY ZenonT(60), <1>1, StartOwn DEF Fill
<1>2. ASSUME NEW l \in Leases, Grant(w, l) PROVE OwnInv'
  BY ZenonT(60), <1>2, StartOwn DEF Grant
<1>3. ASSUME NEW l \in Leases, Restart(w, l) PROVE OwnInv'
  BY ZenonT(60), <1>3, StartOwn DEF Restart
<1>4. ASSUME NEW l \in Leases, Release(w, l) PROVE OwnInv'
  BY ZenonT(60), <1>4, StartOwn DEF Release
<1>5. ASSUME NEW l \in Leases, NEW op \in Ops, Lookup(w, l, op) PROVE OwnInv'
  BY ZenonT(60), <1>5, StartOwn DEF Lookup
<1>6. ASSUME NEW l \in Leases, NEW op \in Ops, Seize(w, l, op) PROVE OwnInv'
  BY ZenonT(60), <1>6, StartOwn DEF Seize
<1> QED BY <1>1, <1>2, <1>3, <1>4, <1>5, <1>6 DEF Request

\* The loops, the guests and the faults draw no id; the reconcile may drop
\* sandboxes from the pool.
LEMMA OtherOwn ==
    ASSUME OInv,
           \/ Reconcile \/ Sweep
           \/ \E l \in Leases : GuestRuns(l)
           \/ \E s \in Sandboxes : VmCrash(s)
           \/ UNCHANGED vars
    PROVE  OwnInv'
<1> DEFINE w == Reconciler
<1>   w \in Workers /\ work \in [Workers -> WorkRecord]
  BY DEF OInv, RInv, IInv, TypeOK, Workers
<1>a. {"idle", "listed", "next", "recover"} \cap HoldSteps = {}
  BY DEF HoldSteps
<1> USE DEF memVars
<1>1. CASE UNCHANGED <<lease, pool, used, work>>
  <2> USE <1>1
  <2>   HoldKept(w)
    BY DEF HoldKept, Holds
  <2> QED BY OwnKept DEF SandboxesKept
<1>2. ASSUME NEW step, Goto(w, step), step \notin HoldSteps, UNCHANGED <<lease, pool, used>>
      PROVE  OwnInv'
  <2> USE <1>2
  <2>   HoldKept(w) /\ \A v \in Workers \ {w} : work'[v] = work[v]
    BY HoldMoves, ZenonT(60) DEF Goto
  <2> QED BY OwnKept DEF SandboxesKept
<1>3. CASE ReconcileList
  BY ZenonT(60), <1>1, <1>2, <1>3, <1>a DEF ReconcileList
<1>4. CASE ReconcileTargets
  BY ZenonT(60), <1>1, <1>2, <1>4, <1>a DEF ReconcileTargets
<1>5. CASE ReconcileEnd
  <2> USE <1>5
  <2>1. IdleWork.pc \notin HoldSteps
    BY DEF IdleWork, HoldSteps
  <2>   HoldKept(w) /\ \A v \in Workers \ {w} : work'[v] = work[v]
    BY <2>1, HoldMoves, ZenonT(60) DEF ReconcileEnd
  <2>   pool' \subseteq pool /\ UNCHANGED <<lease, used>>
    BY DEF ReconcileEnd
  <2> QED BY OwnKept DEF SandboxesKept
<1>6. ASSUME NEW l \in Leases, ReconcileNext(l) PROVE OwnInv'
  BY ZenonT(60), <1>1, <1>6, <1>a, StartOwn DEF ReconcileNext
<1>7. CASE \/ Sweep
           \/ \E l \in Leases : GuestRuns(l)
           \/ \E s \in Sandboxes : VmCrash(s)
           \/ UNCHANGED vars
  <2>   UNCHANGED <<lease, pool, used, work>>
    BY ZenonT(60), <1>7
    DEF Sweep, SweepStart, SweepClaims, SweepKill, SweepList, SweepFlight, SweepClassify,
       SweepEnd, SweepPick, SweepUnchanged, GuestRuns, VmCrash, vars
  <2> QED BY <1>1
<1> QED BY <1>3, <1>4, <1>5, <1>6, <1>7, ZenonT(60) DEF Reconcile

\* A backend restart loads the sandboxes the leases had, and ends every
\* operation.
LEMMA RestartOwn == ASSUME OInv, BackendRestart PROVE OwnInv'
<1>   /\ work' = [w \in Workers |-> IdleWork] /\ UNCHANGED <<pool, used>>
      /\ \A l \in Leases : lease'[l] = lease[l]
  BY DEF BackendRestart, OInv, RInv, IInv, TypeOK, RowsAgree
<1>   \A w \in Workers : ~Holds(w)' /\ ~Fresh(w)' /\ work'[w].pc # "endCreate"
  BY DEF Holds, Fresh, IdleWork
<1>3. NamedOnce'
  BY DEF OInv, OwnInv, NamedOnce
<1>   HeldOnce'
  BY DEF HeldOnce
<1>   UsedDrawn'
  BY ZenonT(60) DEF OInv, OwnInv, UsedDrawn
<1> QED BY <1>3, ZenonT(60) DEF OwnInv

\* The initial state has no owners ...
LEMMA OInitInv == ASSUME Init PROVE OInv
BY RInitInv, SentinelAssumption
   DEF Init, OInv, OwnInv, NamedOnce, HeldOnce, UsedDrawn, Fresh, Holds, IdleWork, NewLease

\* ... and every step keeps the ownership.
LEMMA ONextInv == ASSUME OInv, [Next]_vars PROVE OInv'
<1>   RInv'
  BY RNextInv DEF OInv
<1>   OwnInv'
  BY WorkOwn, RequestOwn, OtherOwn, RestartOwn DEF Next
<1> QED BY DEF OInv

\* Every sandbox id in use was drawn once, and is with one lease, one
\* operation or the pool.
THEOREM OwnershipInvariance == Spec => []OInv
BY OInitInv, ONextInv, PTL DEF Spec

\* What the ownership means for two operations and the leases.
LEMMA OwnershipIsSole == ASSUME OInv PROVE SoleOwner
<1>   /\ inStore \subseteq Leases /\ StoreNamed
      /\ \A w \in Workers : ResumesInPlace(work[w].op) => work[w].lease \in Leases
  BY ZenonT(60) DEF OInv, RInv, IInv, TypeOK, WorkInv, WorkOK, ResumesInPlace, BusyOps
<1>   \A w \in Workers : Holds(w) => Fresh(w) \/ (ResumesInPlace(work[w].op) /\ HoldsBusy(w)
                                                   /\ work[w].id = lease[work[w].lease].sandbox
                                                   /\ work[w].id \in Sandboxes)
  <2>1. ASSUME NEW w \in Workers, Holds(w), ResumesInPlace(work[w].op) PROVE HoldsBusy(w) /\ work[w].id \in Sandboxes
    <3> USE <2>1
    <3>   work[w].op \in BusyOps /\ work[w].pc # "validate" /\ work[w].id \in Sandboxes
      BY ZenonT(60) DEF OInv, RInv, IInv, WorkInv, WorkOK, ResumesInPlace, BusyOps
    <3> QED BY DEF Holds, HoldsBusy, CreateSteps
  <2> QED BY <2>1 DEF Fresh, OInv, OwnInv, HeldOnce
<1>2. \A k, l \in inStore : lease[k].sandbox = lease[l].sandbox => k = l
  BY DEF OInv, OwnInv, NamedOnce, StoreNamed
<1>3. \A l \in inStore : lease[l].sandbox \notin pool
  BY DEF OInv, OwnInv, NamedOnce
<1>4. ASSUME NEW v \in Workers, NEW w \in Workers, Holds(v), Holds(w), work[v].id = work[w].id
      PROVE  v = w
  <2> USE <1>4
  <2>1. CASE Fresh(v) /\ Fresh(w)
    BY <2>1, ZenonT(60) DEF OInv, OwnInv, HeldOnce
  <2>2. CASE ~Fresh(v) /\ ~Fresh(w)
    <3> USE <2>2
    <3>   work[v].lease = work[w].lease
      BY ZenonT(60) DEF OInv, OwnInv, NamedOnce
    <3> QED BY DEF OInv, RInv, IInv, BusyExclusive
  <2>3. CASE Fresh(v) /\ ~Fresh(w)
    BY <2>3, ZenonT(60) DEF OInv, OwnInv, HeldOnce
  <2>4. CASE ~Fresh(v) /\ Fresh(w)
    BY <2>4 DEF OInv, OwnInv, HeldOnce
  <2> QED BY <2>1, <2>2, <2>3, <2>4, ZenonT(60)
<1>5. ASSUME NEW w \in Workers, NEW l \in inStore, Holds(w), lease[l].sandbox = work[w].id
      PROVE  work[w].lease = l
  <2> USE <1>5
  <2>   ~Fresh(w)
    BY DEF OInv, OwnInv, HeldOnce
  <2> QED BY DEF OInv, OwnInv, NamedOnce
<1>6. ASSUME NEW w \in Workers, Holds(w) PROVE work[w].id \notin pool
  BY <1>6 DEF OInv, OwnInv, NamedOnce, HeldOnce
<1> QED BY <1>2, <1>3, <1>4, <1>5, <1>6 DEF SoleOwner

\* SoleOwner: two leases never name one sandbox, no lease names a pooled
\* one, no two operations hold one, and an operation that holds a lease's
\* sandbox works for that lease: no create, resume, restart or restore ever
\* boots over a sandbox that is somebody else's.
THEOREM SandboxHasOneOwner == Spec => []SoleOwner
BY OwnershipInvariance, OwnershipIsSole, PTL

-----------------------------------------------------------------------------
(* The in-flight marks, where no pool is filled. *)

\* The pool stays empty where nothing fills it.
LEMMA PoolStaysEmpty ==
    ASSUME "fill" \notin Ops, OInv, NoPool, [Next]_vars PROVE NoPool'
<1>0. work \in [Workers -> WorkRecord] /\ IInv
  BY DEF OInv, RInv, IInv, TypeOK
<1>1. ASSUME NEW w \in Workers, WorkStep(w) PROVE NoPool'
  <2> USE <1>1
  <2>1. \A v \in Workers : work'[v].op # "fill"
    BY <1>0, OpMoves, WorkAlone DEF NoPool
  <2>   pool' = {}
    <3>1. CASE Pop(w) \/ Commit(w)
      BY ZenonT(60), <3>1 DEF Pop, Commit, NoPool
    <3>2. CASE Admit(w)
      BY <3>2, ZenonT(60) DEF Admit, NoPool
    <3> QED BY <1>0, <3>1, <3>2, WorkHolds DEF NoPool
  <2> QED BY <2>1 DEF NoPool
<1>2. ASSUME NEW w \in Workers, NEW op, NEW l, NEW step, NEW b, Start(w, op, l, step, b),
             op # "fill", UNCHANGED pool
      PROVE  NoPool'
  BY <1>0, <1>2, ZenonT(60) DEF NoPool, Start
<1>3. ASSUME NEW w \in Handlers, Request(w) PROVE NoPool'
  <2>   w \in Workers
    BY DEF Workers
  <2>1. ASSUME NEW l \in Leases, Grant(w, l) \/ Restart(w, l) \/ Release(w, l) PROVE NoPool'
    BY ZenonT(60), <1>2, <2>1 DEF Grant, Restart, Release
  <2>2. ASSUME NEW l \in Leases, NEW op \in Ops, Lookup(w, l, op) \/ Seize(w, l, op) PROVE NoPool'
    BY ZenonT(60), <1>2, <2>2 DEF Lookup, Seize
  <2> QED BY <1>3, <2>1, <2>2 DEF Request, Fill
<1>4. CASE Reconcile
  <2>   Reconciler \in Workers
    BY DEF Workers
  <2>1. CASE ReconcileList \/ ReconcileTargets
    BY <1>0, <2>1, ZenonT(60) DEF ReconcileList, ReconcileTargets, Goto, NoPool, WorkRecord
  <2>2. CASE ReconcileEnd
    BY <1>0, <2>2 DEF ReconcileEnd, NoPool, IdleWork
  <2>3. ASSUME NEW l \in Leases, ReconcileNext(l) PROVE NoPool'
    BY ZenonT(60), <1>2, <2>3 DEF ReconcileNext, NoPool
  <2> QED BY <1>4, <2>1, <2>2, <2>3 DEF Reconcile
<1>5. CASE BackendRestart
  BY <1>0, <1>5 DEF BackendRestart, NoPool, IdleWork
<1>6. CASE \/ Sweep
           \/ \E l \in Leases : GuestRuns(l)
           \/ \E s \in Sandboxes : VmCrash(s)
           \/ UNCHANGED vars
  <2>   UNCHANGED <<pool, work>>
    BY ZenonT(60), <1>6
    DEF Sweep, SweepStart, SweepClaims, SweepKill, SweepList, SweepFlight, SweepClassify,
       SweepEnd, SweepPick, SweepUnchanged, GuestRuns, VmCrash, vars
  <2> QED BY DEF NoPool
<1> QED BY <1>1, <1>3, <1>4, <1>5, <1>6, ZenonT(60) DEF Next

\* The goroutine is between the mark of its id and the end of that mark.
Marking(w) == Holds(w) \/ work[w].pc = "endCreate"

\* What a step of w may do to the in-flight marks: mark the id it draws, end
\* the mark of the id it had, and never forget to.
MarkStep(w) ==
    /\ \A s \in creating' \ creating : Marking(w)' /\ work'[w].id = s
    /\ \A s \in creating \ creating' : Marking(w) /\ work[w].id = s
    /\ Marking(w) => \/ Marking(w)' /\ work'[w].id = work[w].id
                     \/ work[w].id \notin creating'
    /\ Fresh(w)' => \/ Fresh(w) /\ work'[w].id = work[w].id /\ UNCHANGED creating
                    \/ work'[w].id \in creating' \ used
    /\ work'[w].pc = "endCreate" => Marking(w) /\ work'[w].id = work[w].id

\* A step that marks nothing and ends no mark.
LEMMA MarkKept ==
    ASSUME NEW w \in Workers, HoldKept(w), UNCHANGED creating,
           Marking(w) => Marking(w)' /\ work'[w].id = work[w].id
    PROVE  MarkStep(w)
BY ZenonT(60) DEF MarkStep, HoldKept, Fresh, Marking

\* A step that ends the mark of the id the goroutine held, and holds none.
LEMMA MarkEnded ==
    ASSUME NEW w \in Workers, Marking(w), endCreatingSandbox(work[w].id), ~Marking(w)'
    PROVE  MarkStep(w)
BY ZenonT(60) DEF MarkStep, Fresh, Marking, endCreatingSandbox

\* Every step of an operation is such a step, but for the pop: the id it
\* marks may be the one a fill has yet to end the mark of.
LEMMA StepMarks == ASSUME IInv, NEW w \in Workers, WorkStep(w), ~Pop(w) PROVE MarkStep(w)
<1>0. work \in [Workers -> WorkRecord] /\ IInv
  BY DEF IInv, TypeOK
<1>1. Leave(w) => ~Marking(w)'
  BY <1>0 DEF Leave, Marking, Holds, IdleWork, WorkRecord
<1>2. \A step \in HoldSteps : Goto(w, step) => Marking(w)' /\ work'[w].id = work[w].id
  BY <1>0 DEF Goto, Marking, Holds, HoldSteps, WorkRecord
<1>3. \A step : Goto(w, step) /\ step \notin HoldSteps => ~Marking(w)'
  BY <1>0, ZenonT(60) DEF Goto, Marking, Holds, HoldSteps, WorkRecord
<1>4. CASE ~Marking(w) /\ ~Admit(w) /\ ~Pop(w) /\ ~Commit(w)
  <2> USE <1>4
  <2>   UNCHANGED creating
    BY ZenonT(60) DEF WorkStep, Begin, EndBusy, Pause, Paused, Create, Check, Probe,
       DropOld, DropFirst, EndCreate, Validate, Checkpoint, CheckpointResume, CheckpointRecord,
       Mark, Crash, Recover, RetryFailed, Lose, StopLost, ReleaseDelete, ReleaseDrop, Marking, Holds
  <2> QED BY <1>0, WorkHolds, MarkKept, ZenonT(60)
<1>5. CASE EndCreate(w)
  BY ZenonT(60), <1>1, <1>5, MarkEnded DEF EndCreate, Marking
<1>a. {"check", "probe", "dropOld", "commit"} \subseteq HoldSteps /\ "failed" \notin HoldSteps /\ "pop" \notin HoldSteps
  BY DEF HoldSteps
<1>6. CASE Create(w)
  <2> USE <1>6
  <2>1. CASE Goto(w, "check") /\ UNCHANGED creating
    BY <1>0, <1>2, <1>a, <2>1, WorkHolds, MarkKept, ZenonT(60) DEF Create, Admit, Pop, Commit
  <2>2. CASE endCreatingSandbox(work[w].id) /\ CreateFailed(w)
    BY ZenonT(60), <1>1, <1>3, <1>a, <2>2, MarkEnded DEF Create, CreateFailed, Marking, Holds
  <2> QED BY ZenonT(60), <2>1, <2>2 DEF Create
<1>7. CASE Check(w) \/ Probe(w) \/ DropOld(w)
  <2> USE <1>7
  <2>1. CASE \E step \in HoldSteps : Goto(w, step) /\ UNCHANGED creating
    BY <1>0, <1>2, <2>1, WorkHolds, MarkKept, ZenonT(60) DEF Check, Probe, DropOld, Admit, Pop, Commit
  <2>2. CASE endCreatingSandbox(work[w].id) /\ Leave(w)
    BY ZenonT(60), <1>1, <2>2, MarkEnded DEF Check, Probe, DropOld, Marking, Holds
  <2> QED BY ZenonT(60), <1>a, <2>1, <2>2 DEF Check, Probe, DropOld, StopFresh
<1>8. CASE Validate(w)
  <2> USE <1>8
  <2>1. CASE Goto(w, "probe") /\ UNCHANGED creating
    BY <1>0, <1>2, <1>a, <2>1, WorkHolds, MarkKept, ZenonT(60) DEF Validate, Admit, Pop, Commit
  <2>2. CASE endCreatingSandbox(work[w].id) /\ (Goto(w, "pop") \/ Leave(w))
    BY ZenonT(60), <1>1, <1>3, <1>a, <2>2, MarkEnded DEF Validate, Marking, Holds
  <2> QED BY ZenonT(60), <2>1, <2>2 DEF Validate
<1>9. CASE Admit(w)
  <2>   ~Marking(w)
    BY <1>9, ZenonT(60) DEF Admit, Marking, Holds
  <2>1. CASE CreateFailed(w) /\ UNCHANGED creating
    BY ZenonT(60), <1>1, <1>3, <1>a, <2>1 DEF CreateFailed, MarkStep, Fresh, Marking
  <2>2. ASSUME NEW s \in IF ResumesInPlace(work[w].op)
                         THEN {lease[work[w].lease].sandbox} ELSE Sandboxes \ used,
               creating' = creating \cup {s},
               work' = [work EXCEPT ![w] = [@ EXCEPT !.pc = "create", !.id = s, !.build = SourceBuild(w)]]
        PROVE  MarkStep(w)
    <3> USE <2>2
    <3>   work'[w].id = s /\ work'[w].pc = "create" /\ work'[w].op = work[w].op
      BY <1>0 DEF WorkRecord
    <3>   Marking(w)' /\ (Fresh(w)' => s \notin used)
      BY DEF Marking, Holds, Fresh
    <3> QED BY DEF MarkStep
  <2> QED BY ZenonT(60), <1>9, <2>1, <2>2 DEF Admit
<1>11. CASE Commit(w)
  <2>   Marking(w)
    BY <1>11, ZenonT(60) DEF Commit, Marking, Holds
  <2>1. CASE Goto(w, "endCreate") /\ UNCHANGED creating
    <3> USE <2>1
    <3>   work'[w].pc = "endCreate" /\ work'[w].id = work[w].id
      BY <1>0, ZenonT(60) DEF Goto, WorkRecord
    <3>   ~Holds(w)'
      BY ZenonT(60) DEF Holds
    <3> QED BY DEF MarkStep, Marking, Fresh
  <2>2. CASE StopFresh(w, {work[w].id})
    BY <1>1, <2>2, MarkEnded, ZenonT(60) DEF StopFresh
  <2> QED BY ZenonT(60), <1>11, <2>1, <2>2 DEF Commit
<1>    Marking(w) => Create(w) \/ Check(w) \/ Probe(w) \/ DropOld(w) \/ Validate(w) \/ Commit(w) \/ EndCreate(w)
  BY ZenonT(60) DEF WorkStep, Begin, EndBusy, Pause, Paused, Admit, DropFirst, Pop, Checkpoint,
     CheckpointResume, CheckpointRecord, Mark, Crash, Recover, RetryFailed, Lose, StopLost,
     ReleaseDelete, ReleaseDrop, Marking, Holds
<1> QED BY <1>4, <1>5, <1>6, <1>7, <1>8, <1>9, <1>11, ZenonT(60)

\* An empty pool leaves the pop nothing to mark.
LEMMA WorkMarks == ASSUME MInv, NEW w \in Workers, WorkStep(w) PROVE MarkStep(w)
<1>   work \in [Workers -> WorkRecord] /\ IInv
  BY ZenonT(60) DEF MInv, OInv, RInv, IInv, TypeOK
<1>1. CASE Pop(w)
  <2>   ~Marking(w) /\ Goto(w, "admit") /\ UNCHANGED creating
    BY <1>1 DEF Pop, Marking, Holds, MInv, NoPool
  <2>   ~Marking(w)'
    BY DEF Goto, Marking, Holds, WorkRecord
  <2> QED BY DEF MarkStep, Fresh, Marking
<1> QED BY <1>1, StepMarks, ZenonT(60)

\* So every step of an operation keeps the marks exact.
LEMMA MarkFrame ==
    ASSUME MInv, NEW w \in Workers, \A v \in Workers \ {w} : work'[v] = work[v], MarkStep(w)
    PROVE  MarkInv'
<1>0. \A v \in Workers \ {w} : /\ Marking(v)' <=> Marking(v)
                               /\ Fresh(v)' <=> Fresh(v)
  BY DEF Marking, Holds, Fresh
<1>1. SoleOwner /\ UsedDrawn /\ MarkInv
  BY OwnershipIsSole DEF MInv, OInv, OwnInv
<1>2. ASSUME NEW v \in Workers, Fresh(v)' PROVE work'[v].id \in creating'
  <2>1. CASE v = w
    BY <1>1, <1>2, <2>1, ZenonT(60) DEF MarkStep, MarkInv
  <2>2. CASE v # w
    <3>1. Fresh(v) /\ work'[v].id = work[v].id /\ work[v].id \in creating
      BY <1>0, <1>1, <1>2, <2>2, ZenonT(60) DEF MarkInv
    <3>2. Marking(w) => work[v].id # work[w].id
      BY <1>1, <2>2, <3>1, ZenonT(60) DEF MarkInv, SoleOwner, Marking, Fresh
    <3> QED BY <3>1, <3>2, ZenonT(60) DEF MarkStep
  <2> QED BY <2>1, <2>2, ZenonT(60)
<1>3. ASSUME NEW u \in Workers, NEW v \in Workers, Fresh(v)', work'[u].pc = "endCreate"
      PROVE  work'[u].id # work'[v].id
  <2>1. \/ Fresh(v) /\ work'[v].id = work[v].id
        \/ v = w /\ work'[v].id \notin used
    <3>1. CASE v = w
      BY <1>3, <3>1, ZenonT(60) DEF MarkStep
    <3>2. CASE v # w
      BY <1>0, <1>3, <3>2, ZenonT(60)
    <3> QED BY <3>1, <3>2
  <2>2. Marking(u) /\ work'[u].id = work[u].id
    BY <1>3, ZenonT(60) DEF MarkStep, Marking
  <2>3. work[u].id \in used
    BY <1>1, <2>2, HeldUsed, ZenonT(60) DEF Marking, UsedDrawn, MInv
  <2>4. CASE Fresh(v) /\ work'[v].id = work[v].id /\ u # v
    <3>1. Marking(u) /\ Fresh(v) /\ u # v
      BY <2>2, <2>4, ZenonT(60)
    <3>2. work[u].id # work[v].id
      BY <1>1, <3>1, ZenonT(60) DEF MarkInv, SoleOwner, Marking, Fresh
    <3> QED BY <2>2, <2>4, <3>2, ZenonT(60)
  <2>5. u # v
    BY <1>3 DEF Fresh, Holds
  <2> QED BY <2>1, <2>2, <2>3, <2>4, <2>5, ZenonT(60)
<1>4. ASSUME NEW s \in creating' PROVE \E v \in Workers : work'[v].id = s /\ Marking(v)'
  <2>1. CASE s \notin creating
    BY <1>4, <2>1, ZenonT(60) DEF MarkStep
  <2>2. CASE s \in creating
    <3>1. PICK v \in Workers : work[v].id = s /\ Marking(v)
      BY <1>1, <2>2, ZenonT(60) DEF MarkInv, Marking
    <3>2. CASE v = w
      BY <1>4, <3>1, <3>2 DEF MarkStep
    <3> QED BY <1>0, <3>1, <3>2, ZenonT(60)
  <2> QED BY <2>1, <2>2, ZenonT(60)
<1> QED BY <1>2, <1>3, <1>4, ZenonT(60) DEF MarkInv, Marking, Holds

\* The steps that begin an operation, the loops and the faults touch no mark.
LEMMA OtherMarks ==
    ASSUME MInv,
           \/ \E w \in Handlers : Request(w)
           \/ Reconcile \/ Sweep
           \/ \E l \in Leases : GuestRuns(l)
           \/ \E s \in Sandboxes : VmCrash(s)
           \/ UNCHANGED vars
    PROVE  MarkInv'
<1>0. work \in [Workers -> WorkRecord] /\ Reconciler \in Workers /\ Handlers \subseteq Workers
  BY ZenonT(60) DEF MInv, OInv, RInv, IInv, TypeOK, Workers
<1>1. ASSUME NEW w \in Workers, ~Marking(w), ~Marking(w)', UNCHANGED creating,
             \A v \in Workers \ {w} : work'[v] = work[v]
      PROVE  MarkInv'
  BY <1>1, MarkFrame, ZenonT(60) DEF MarkStep, Marking, Fresh
<1>2. CASE UNCHANGED <<creating, work>>
  BY <1>2 DEF MInv, MarkInv, Fresh, Holds
<1>3. ASSUME NEW w \in Workers, NEW op, NEW l, NEW step, NEW b, Start(w, op, l, step, b),
             work[w].pc \in {"idle", "next"}, step \notin HoldSteps, UNCHANGED creating
      PROVE  MarkInv'
  <2> USE <1>3
  <2>   ~Marking(w) /\ ~Marking(w)' /\ \A v \in Workers \ {w} : work'[v] = work[v]
    BY <1>0 DEF Start, Marking, Holds, HoldSteps
  <2> QED BY <1>1
<1>a. {"pop", "admit", "dropFirst", "pause", "mark", "relDelete", "found", "recover"}
         \cap HoldSteps = {}
  BY DEF HoldSteps
<1>4. ASSUME NEW w \in Handlers, Request(w) PROVE MarkInv'
  <2>   w \in Workers
    BY <1>0
  <2>1. Fill(w) => MarkInv'
    BY ZenonT(60), <1>3, <1>a DEF Fill, Idle
  <2>   \A l \in Leases : Grant(w, l) \/ Restart(w, l) \/ Release(w, l) => MarkInv'
    BY ZenonT(60), <1>3, <1>a DEF Grant, Restart, Release, Idle
  <2>   \A l \in Leases, op \in Ops : Lookup(w, l, op) \/ Seize(w, l, op) => MarkInv'
    BY ZenonT(60), <1>3, <1>a DEF Lookup, Seize, Idle
  <2> QED BY <1>4, <2>1 DEF Request
<1>5. CASE Reconcile
  <2> DEFINE w == Reconciler
  <2>1. CASE ReconcileList \/ ReconcileTargets
    <3> USE <2>1
    <3>1. CASE UNCHANGED work
      BY <1>2, <3>1, ZenonT(60) DEF ReconcileList, ReconcileTargets
    <3>2. CASE ~UNCHANGED work
      <4>   ~Marking(w) /\ ~Marking(w)' /\ UNCHANGED creating /\ \A v \in Workers \ {w} : work'[v] = work[v]
        BY <1>0, <3>2 DEF ReconcileList, ReconcileTargets, Goto, Marking, Holds, WorkRecord
      <4> QED BY <1>0, <1>1
    <3> QED BY <3>1, <3>2, ZenonT(60)
  <2>2. CASE ReconcileEnd
    <3>   ~Marking(w) /\ ~Marking(w)' /\ UNCHANGED creating /\ \A v \in Workers \ {w} : work'[v] = work[v]
      BY <1>0, <2>2 DEF ReconcileEnd, IdleWork, Marking, Holds
    <3> QED BY <1>0, <1>1, ZenonT(60)
  <2>   \A l \in Leases : ReconcileNext(l) => MarkInv'
    BY ZenonT(60), <1>0, <1>2, <1>3, <1>a DEF ReconcileNext
  <2> QED BY <1>5, <2>1, <2>2 DEF Reconcile
<1>6. CASE \/ Sweep
           \/ \E l \in Leases : GuestRuns(l)
           \/ \E s \in Sandboxes : VmCrash(s)
           \/ UNCHANGED vars
  <2>   UNCHANGED <<creating, work>>
    BY ZenonT(60), <1>6
    DEF Sweep, SweepStart, SweepClaims, SweepKill, SweepList, SweepFlight, SweepClassify,
       SweepEnd, SweepPick, SweepUnchanged, GuestRuns, VmCrash, vars
  <2> QED BY <1>2
<1> QED BY <1>4, <1>5, <1>6, ZenonT(60)

\* The marks of an initial state ...
LEMMA MInitInv == ASSUME Init PROVE MInv
<1>   OInv
  BY OInitInv, ZenonT(60)
<1>   NoPool /\ MarkInv
  BY DEF Init, NoPool, MarkInv, Fresh, Holds, IdleWork
<1> QED BY DEF MInv

\* ... and of every later one.
LEMMA MNextInv == ASSUME "fill" \notin Ops, MInv, [Next]_vars PROVE MInv'
<1>1. OInv' /\ NoPool'
  BY ONextInv, PoolStaysEmpty DEF MInv
<1>2. ASSUME NEW w \in Workers, WorkStep(w) PROVE MarkInv'
  BY <1>2, WorkMarks, WorkAlone, MarkFrame DEF MInv, OInv, RInv
<1>3. ASSUME BackendRestart PROVE MarkInv'
  <2>   work' = [w \in Workers |-> IdleWork] /\ creating' = {}
    BY <1>3, ZenonT(60) DEF BackendRestart, MInv, OInv, RInv, IInv, TypeOK
  <2>   \A w \in Workers : ~Holds(w)' /\ ~Fresh(w)'
    BY DEF Holds, Fresh, IdleWork
  <2> QED BY DEF MarkInv
<1> QED BY <1>1, <1>2, <1>3, OtherMarks DEF Next, MInv

\* Every fresh id is marked in flight by exactly the operation that draws it.
LEMMA MarksInvariance == ASSUME "fill" \notin Ops PROVE Spec => []MInv
BY MInitInv, MNextInv, PTL DEF Spec

\* What the marks mean for the sweep.
LEMMA MarksAreExact == ASSUME MInv PROVE InFlightExact
<1>1. ASSUME NEW w \in Workers, Holds(w)
      PROVE  work[w].id \in creating \/ Owners(work[w].id) # {} \/ work[w].lease \in released
  <2>1. CASE Fresh(w)
    BY <2>1, ZenonT(60) DEF MInv, MarkInv
  <2>2. CASE ~Fresh(w)
    <3>   work[w].lease \in inStore \cup released /\ work[w].id = lease[work[w].lease].sandbox
      BY ZenonT(60), <1>1, <2>2
      DEF Fresh, MInv, OInv, OwnInv, HeldOnce, RInv, IInv, WorkInv, WorkOK, ResumesInPlace, BusyOps
    <3> QED BY DEF Owners
  <2> QED BY <2>1, <2>2, ZenonT(60)
<1> QED BY <1>1 DEF InFlightExact, MInv, MarkInv

\* InFlightExact, where no pool is filled: an id an operation holds is
\* marked, named by a lease in the store, or a released lease's, whatever
\* fails and whenever the backend restarts; and no mark outlives the
\* operation that set it.  With a pool the first half is false of the code
\* (PoolMarkLost).
THEOREM MarksCoverCreates == ASSUME "fill" \notin Ops PROVE Spec => []InFlightExact
BY MarksInvariance, MarksAreExact, PTL

-----------------------------------------------------------------------------
(* What an operation does to the node and to the sweep. *)

\* A step of w deletes sandboxes, or boots the id it creates or the one it
\* checkpointed; it remembers ids it may have left running and forgets none;
\* of the sweep it touches only the sightings.
NodeStep(w) ==
    /\ \A s \in Sandboxes : vm'[s] \in {vm[s], NoVM}
          \/ (work[w].pc = "create" /\ s = work[w].id)
          \/ (work[w].pc = "ckptResume" /\ s = lease[work[w].lease].sandbox)
    /\ orphans \subseteq orphans' /\ orphans' \subseteq orphans \cup used
    /\ sweep'.pc = sweep.pc /\ sweep'.phase = sweep.phase /\ sweep'.listed = sweep.listed
    /\ sweep'.flight = sweep.flight /\ sweep'.todo = sweep.todo /\ sweep'.id = sweep.id

\* That is all a step of an operation does there.
LEMMA WorkNode == ASSUME OInv, NEW w \in Workers, WorkStep(w) PROVE NodeStep(w)
<1> DEFINE l == work[w].lease
           vmOK == \A s \in Sandboxes : vm'[s] \in {vm[s], NoVM}
                     \/ (work[w].pc = "create" /\ s = work[w].id)
                     \/ (work[w].pc = "ckptResume" /\ s = lease[l].sandbox)
           orOK == orphans \subseteq orphans' /\ orphans' \subseteq orphans \cup used
           swOK == /\ sweep'.pc = sweep.pc /\ sweep'.phase = sweep.phase
                   /\ sweep'.listed = sweep.listed /\ sweep'.flight = sweep.flight
                   /\ sweep'.todo = sweep.todo /\ sweep'.id = sweep.id
<1>0. /\ vm \in [Sandboxes -> VMs] /\ orphans \subseteq Sandboxes /\ sweep \in SweepRecord
      /\ orphans' \subseteq Sandboxes
      /\ l \in Leases => lease[l].sandbox \in used \cup {NoSandbox}
      /\ Holds(w) => work[w].id \in used
  BY HeldUsed, TypeWork, ZenonT(60) DEF OInv, RInv, IInv, TypeOK, OwnInv, UsedDrawn, VMs
<1>1. ASSUME NEW s, NEW keep, Delete(s, keep), keep \cap Sandboxes \subseteq used
      PROVE  vmOK /\ orOK
  <2> USE <1>1
  <2>   vmOK
    BY <1>0, ZenonT(60) DEF Delete
  <2> QED BY <1>0, ZenonT(60) DEF Delete
<1>2. ASSUME NEW s, NEW m, Boot(s, m),
             (work[w].pc = "create" /\ s = work[w].id)
               \/ (work[w].pc = "ckptResume" /\ s = lease[l].sandbox)
      PROVE  vmOK /\ swOK
  <2> USE <1>2
  <2>   vmOK
    BY <1>0 DEF Boot
  <2>   swOK
    BY <1>0, ZenonT(60) DEF Boot, SweepRecord
  <2> QED BY ZenonT(60)
<1>3. UNCHANGED vm => vmOK
  OBVIOUS
<1>4. UNCHANGED orphans => orOK
  OBVIOUS
<1>5. UNCHANGED sweep => swOK
  BY ZenonT(60)
<1>6. ASSUME NEW keep, StopFresh(w, keep), Holds(w), keep \subseteq {work[w].id}
      PROVE  vmOK /\ orOK
  <2> USE <1>6
  <2>   keep \cap Sandboxes \subseteq used
    BY <1>0, ZenonT(60)
  <2> QED BY <1>1, ZenonT(60) DEF StopFresh
<1>7. \A s : vm' = [vm EXCEPT ![s] = NoVM] => vmOK
  BY <1>0, ZenonT(60)
<1>8. work[w].pc \in BusySteps \cup {"relDelete"} => {lease[l].sandbox} \cap Sandboxes \subseteq used
  <2>   NoSandbox \notin Sandboxes
    BY SentinelAssumption
  <2>   work[w].pc \in BusySteps \cup {"relDelete"} => l \in Leases
    BY ZenonT(60) DEF OInv, RInv, IInv, WorkInv, WorkOK
  <2> QED BY <1>0
<1> HIDE DEF vmOK, orOK, swOK
<1>9. vmOK
  <2>1. CASE Create(w)
    BY ZenonT(60), <1>2, <1>3, <1>7, <2>1 DEF Create
  <2>2. CASE CheckpointResume(w)
    BY ZenonT(60), <1>2, <1>3, <2>2 DEF CheckpointResume
  <2>3. CASE Check(w) \/ Probe(w) \/ DropOld(w) \/ Commit(w) \/ Validate(w) \/ DropFirst(w)
    <3>   \A s, keep : Delete(s, keep) => vmOK
      BY ZenonT(60), <1>3, <1>7 DEF Delete
    <3> QED BY ZenonT(60), <1>3, <2>3
        DEF Check, Probe, DropOld, Commit, Validate, DropFirst, StopFresh
  <2>4. CASE CheckpointRecord(w) \/ Crash(w) \/ StopLost(w) \/ ReleaseDelete(w)
    <3>   \A s, keep : Delete(s, keep) => vmOK
      BY ZenonT(60), <1>3, <1>7 DEF Delete
    <3> QED BY ZenonT(60), <1>3, <2>4
        DEF CheckpointRecord, Crash, StopLost, ReleaseDelete
  <2>5. CASE Pause(w) \/ Checkpoint(w)
    BY ZenonT(60), <1>3, <1>7, <2>5 DEF Pause, Checkpoint
  <2> QED BY ZenonT(60), <1>3, <2>1, <2>2, <2>3, <2>4, <2>5
      DEF WorkStep, Begin, EndBusy, Paused, Admit, EndCreate, Pop, Mark, Recover, RetryFailed,
          Lose, ReleaseDrop
<1>10. orOK
  <2>1. CASE Create(w)
    <3> USE <2>1
    <3>   Holds(w)
      BY ZenonT(60) DEF Create, Holds
    <3>   orphans' \subseteq orphans \cup {work[w].id} /\ orphans \subseteq orphans'
      BY ZenonT(60) DEF Create
    <3> QED BY <1>0, ZenonT(60) DEF orOK
  <2>2. CASE Check(w) \/ Probe(w) \/ DropOld(w) \/ Commit(w) \/ Validate(w) \/ DropFirst(w)
    <3>   \A s : Delete(s, {}) => orOK
      BY <1>1, ZenonT(60)
    <3>2. work[w].pc \in {"check", "commit"} => {work[w].id} \cap Sandboxes \subseteq used
      BY <1>0, ZenonT(60) DEF Holds
    <3>   work[w].pc \in {"check", "commit"} => (StopFresh(w, {work[w].id}) => orOK)
      BY <1>1, <3>2, ZenonT(60) DEF StopFresh
    <3>   StopFresh(w, {}) => orOK
      BY DEF StopFresh
    <3> QED BY ZenonT(60), <1>4, <2>2
        DEF Check, Probe, DropOld, Commit, Validate, DropFirst
  <2>3. CASE CheckpointRecord(w) \/ Crash(w) \/ StopLost(w) \/ ReleaseDelete(w)
    <3> USE <2>3
    <3>1. {lease[l].sandbox} \cap Sandboxes \subseteq used
      BY ZenonT(60), <1>8 DEF CheckpointRecord, Crash, StopLost, ReleaseDelete, BusySteps
    <3>   \A s : Delete(s, {}) => orOK
      BY <1>1, ZenonT(60)
    <3>   \A s : Delete(s, {lease[l].sandbox}) => orOK
      BY <1>1, <3>1, ZenonT(60)
    <3> QED BY ZenonT(60), <1>4
        DEF CheckpointRecord, Crash, StopLost, ReleaseDelete
  <2> QED BY ZenonT(60), <1>4, <2>1, <2>2, <2>3
      DEF WorkStep, Begin, EndBusy, Pause, Paused, Admit, EndCreate, Pop, Checkpoint,
          CheckpointResume, Mark, Recover, RetryFailed, Lose, ReleaseDrop
<1>    swOK
  <2>1. CASE Create(w) \/ CheckpointResume(w)
    BY ZenonT(60), <1>2, <1>5, <2>1 DEF Create, CheckpointResume, sweepVars
  <2> QED BY ZenonT(60), <1>5, <2>1
      DEF WorkStep, Begin, EndBusy, Pause, Paused, Admit, Check, Probe, DropOld, DropFirst,
          Commit, EndCreate, Pop, Validate, Checkpoint, CheckpointRecord, Mark, Crash, Recover,
          RetryFailed, Lose, StopLost, ReleaseDelete, ReleaseDrop, sweepVars
<1> QED BY <1>9, <1>10 DEF NodeStep, vmOK, orOK, swOK

\* An operation names a sandbox only when it commits the fresh one it holds.
LEMMA NewName ==
    ASSUME OInv, NEW w \in Workers, WorkStep(w), NEW k \in inStore'
    PROVE  \/ k \in inStore /\ lease'[k].sandbox = lease[k].sandbox
           \/ Fresh(w) /\ work[w].pc = "commit" /\ lease'[k].sandbox = work[w].id
<1>0. IInv /\ inStore \subseteq Leases /\ inStore' \subseteq Leases /\ lease \in [Leases -> LeaseRecord]
  BY TypeWork, ZenonT(60) DEF OInv, RInv, IInv, TypeOK
<1>1. CASE ~Commit(w)
  <2> USE <1>1
  <2>   inStore' \subseteq inStore
    BY ZenonT(60)
    DEF WorkStep, Begin, EndBusy, Pause, Paused, Admit, Create, Check, Probe, DropOld, DropFirst,
        EndCreate, Pop, Validate, Checkpoint, CheckpointResume, CheckpointRecord, Mark, Crash,
        Recover, RetryFailed, Lose, StopLost, ReleaseDelete, ReleaseDrop, memVars
  <2>2. CASE Admit(w) \/ Pop(w)
    BY <2>2, ZenonT(60) DEF Admit, Pop, memVars
  <2> QED BY <1>0, <2>2, WorkHolds, ZenonT(60) DEF SandboxesKept
<1>2. CASE Commit(w)
  <2> USE <1>2
  <2>1. CASE UNCHANGED <<inStore, lease>>
    BY <2>1, ZenonT(60)
  <2>2. CASE /\ work[w].op # "fill" /\ Save(work[w].lease, Committed(w))
             /\ inStore' = inStore \cup (IF work[w].op = "grant" THEN {work[w].lease} ELSE {})
    <3> USE <2>2
    <3>1. /\ work[w].lease \in Leases /\ Committed(w).sandbox = work[w].id
          /\ Fresh(w) \/ work[w].id = lease[work[w].lease].sandbox
      BY CommittedSandbox, ZenonT(60) DEF Commit
    <3>   lease' = [lease EXCEPT ![work[w].lease] = Committed(w)]
      BY DEF Save
    <3>3. work[w].op = "grant" => Fresh(w)
      BY ZenonT(60) DEF Commit, Fresh, Holds, ResumesInPlace
    <3>4. CASE k = work[w].lease
      BY <1>0, <3>1, <3>3, <3>4, ZenonT(60) DEF Commit
    <3>5. CASE k # work[w].lease
      BY <1>0, <3>5
    <3> QED BY <3>4, <3>5, ZenonT(60)
  <2> QED BY ZenonT(60), <2>1, <2>2 DEF Commit
<1> QED BY <1>1, <1>2, ZenonT(60)

\* Only an operation that has just stopped the guest goes on to put its
\* build away or to resume it.
LEMMA ToStopped ==
    ASSUME OInv, NEW w \in Workers, WorkStep(w), work'[w].pc \in {"paused", "ckptResume"}
    PROVE  ~Leave(w) /\ IF work'[w].pc = "paused" THEN Pause(w) ELSE Checkpoint(w)
<1>   work \in [Workers -> WorkRecord]
  BY DEF OInv, RInv, IInv, TypeOK
<1>   ~Leave(w)
  BY DEF Leave, IdleWork, WorkRecord
<1>2. \A step : Goto(w, step) => step = "paused" \/ step = "ckptResume"
  BY DEF Goto, WorkRecord
<1>3. work' # [work EXCEPT ![w] = IdleWork]
  BY DEF IdleWork
<1>4. CASE Begin(w)
  <2>   FirstStep(work[w].op) \notin {"paused", "ckptResume"}
    BY DEF FirstStep
  <2> QED BY ZenonT(60), <1>2, <1>3, <1>4 DEF Begin
<1>5. CASE EndBusy(w)
  BY <1>5 DEF EndBusy, IdleWork
<1>6. CASE Pause(w)
  BY <1>6, ZenonT(60) DEF Pause, WorkRecord
<1>7. CASE Admit(w)
  <2>1. ASSUME NEW s, NEW b,
               work' = [work EXCEPT ![w] = [@ EXCEPT !.pc = "create", !.id = s, !.build = b]]
        PROVE  FALSE
    <3>   work'[w] = [work[w] EXCEPT !.pc = "create", !.id = s, !.build = b]
      BY <2>1
    <3> QED BY DEF WorkRecord
  <2> QED BY ZenonT(60), <1>2, <1>7, <2>1 DEF Admit, CreateFailed
<1>8. CASE Pop(w)
  <2>1. ASSUME NEW s, work' = [work EXCEPT ![w] = [@ EXCEPT !.pc = "validate", !.id = s]] PROVE FALSE
    <3>   work'[w] = [work[w] EXCEPT !.pc = "validate", !.id = s]
      BY <2>1
    <3> QED BY DEF WorkRecord
  <2> QED BY ZenonT(60), <1>2, <1>8, <2>1 DEF Pop
<1>9. CASE Crash(w)
  BY <1>9, ZenonT(60) DEF Crash, WorkRecord
<1>10. CASE Check(w) \/ Paused(w)
  <2>1. CASE Check(w)
    BY <2>1 DEF Check, StopFresh, Goto, WorkRecord
  <2>2. CASE Paused(w)
    BY <2>2 DEF Paused, Goto, WorkRecord
  <2> QED BY <1>10, <2>1, <2>2
<1>11. CASE Create(w) \/ Probe(w) \/ DropOld(w) \/ DropFirst(w) \/ Validate(w) \/ Commit(w) \/ EndCreate(w)
  BY ZenonT(60), <1>2, <1>11
  DEF Create, CreateFailed, Probe, DropOld, DropFirst, Validate, Commit, EndCreate, StopFresh
<1>12. CASE CheckpointResume(w) \/ CheckpointRecord(w) \/ Mark(w) \/ Recover(w) \/ RetryFailed(w)
  BY ZenonT(60), <1>2, <1>12
  DEF CheckpointResume, CheckpointRecord, Mark, Recover, RetryFailed
<1>13. CASE Lose(w) \/ StopLost(w) \/ ReleaseDelete(w) \/ ReleaseDrop(w)
  BY ZenonT(60), <1>2, <1>3, <1>13 DEF Lose, StopLost, ReleaseDelete, ReleaseDrop
<1>14. CASE Checkpoint(w)
  BY <1>14, ZenonT(60) DEF Checkpoint, WorkRecord
<1> QED
  BY ZenonT(60), <1>4, <1>5, <1>6, <1>7, <1>8, <1>9, <1>10, <1>11, <1>12, <1>13, <1>14 DEF WorkStep

=============================================================================
