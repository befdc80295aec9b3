----------------------------- MODULE ForkClone -----------------------------
(***************************************************************************)
(* Clone and fork (api/service.go): one checkpoint of the source, then one *)
(* or several children started from it, every reservation taken before the *)
(* first child and all of it undone when a child fails.  The source's      *)
(* release, a deletion of the owner, the owner's own calls on a child      *)
(* already in the store and the orphan sweep run between the steps.  A     *)
(* delete may fail: every path here ignores its error.                     *)
(***************************************************************************)
EXTENDS Integers, FiniteSets

CONSTANTS
    FkChildren,    \* the children a fork can make, 1..n
    FkScenarios    \* what may happen: one set of names per behaviour

\* The children are numbered from one.
ASSUME ForkAssumption ==
    /\ FkChildren \subseteq Nat \ {0} /\ 1 \in FkChildren
    /\ \A n \in FkChildren : 1..n \subseteq FkChildren

VARIABLES
    fk,         \* the request: operation, step, children wanted, child in hand
    fkSrc,      \* the source lease: busy, released, self token wanted
    fkStore,    \* the children in the store, and what each is doing
    fkRows,     \* children with a leases row
    fkVM,       \* children whose sandbox runs on the node
    fkVMRow,    \* children with a sandboxes row
    fkCreating, \* sandboxes the orphan sweep must not touch
    fkMemo,     \* children with an applied-egress memo
    fkHeld,     \* the request's reservations: quota, disk, memory
    fkOwner,    \* the owner: live, marked deleted, cleaned up
    fkmay

fkvars == <<fk, fkSrc, fkStore, fkRows, fkVM, fkVMRow, fkCreating, fkMemo, fkHeld,
            fkOwner, fkmay>>

NoChild == 0
NothingHeld == [quota |-> 0, disk |-> 0, memory |-> 0]

FKInit ==
    /\ fkmay \in FkScenarios
    /\ fk = [op |-> "none", pc |-> "idle", count |-> 0, child |-> NoChild, made |-> {}]
    /\ fkSrc = [busy |-> FALSE, released |-> FALSE, token |-> "token" \in fkmay]
    /\ fkStore = [c \in FkChildren |-> "none"]
    /\ fkRows = {} /\ fkVM = {} /\ fkVMRow = {} /\ fkCreating = {} /\ fkMemo = {}
    /\ fkHeld = NothingHeld
    /\ fkOwner = "live"

FkMay(x) == x \in fkmay

\* A delete of a sandbox, whose error nobody looks at.
DeleteIgnored(c) ==
    \/ fkVM' = fkVM \ {c}
    \/ FkMay("stray") /\ fkVM' = fkVM

\* What an error after a step gives back before the handler answers: clone by
\* its deferred calls, fork on each path.
Refused ==
    /\ fk' = [fk EXCEPT !.pc = "failed", !.child = NoChild]
    /\ fkSrc' = [fkSrc EXCEPT !.busy = FALSE]
    /\ fkHeld' = NothingHeld

-----------------------------------------------------------------------------
(***************************************************************************)
(* The request.                                                            *)
(***************************************************************************)

ForkCount == IF FkMay("clone") THEN {1} ELSE {n \in FkChildren : n > 1}

\* handleFork / handleClone up to the source's busy flag.
ForkBegin ==
    /\ fk.pc = "idle" /\ fkOwner = "live" /\ ~fkSrc.released /\ ~fkSrc.busy
    /\ \E n \in ForkCount :
         fk' = [fk EXCEPT !.op = IF FkMay("clone") THEN "clone" ELSE "fork",
                          !.pc = "quota", !.count = n]
    /\ fkSrc' = [fkSrc EXCEPT !.busy = TRUE]
    /\ UNCHANGED <<fkStore, fkRows, fkVM, fkVMRow, fkCreating, fkMemo, fkHeld, fkOwner, fkmay>>

\* checkSaturation and reserveQuota: the whole batch at once.
ForkReserve ==
    /\ fk.pc = "quota"
    /\ IF fkOwner # "live"
       THEN Refused
       ELSE /\ fk' = [fk EXCEPT !.pc = "checkpoint"]
            /\ fkHeld' = [fkHeld EXCEPT !.quota = fk.count]
            /\ UNCHANGED fkSrc
    /\ UNCHANGED <<fkStore, fkRows, fkVM, fkVMRow, fkCreating, fkMemo, fkOwner, fkmay>>

\* The host is saturated, the checkpoint fails, or a release overtook it.
ForkRefuse ==
    /\ fk.pc \in {"quota", "checkpoint", "disk", "memory"}
    /\ FkMay("fail") \/ (fk.pc = "checkpoint" /\ fkSrc.released)
    /\ Refused
    /\ UNCHANGED <<fkStore, fkRows, fkVM, fkVMRow, fkCreating, fkMemo, fkOwner, fkmay>>

ForkCheckpoint ==
    /\ fk.pc = "checkpoint" /\ ~fkSrc.released
    /\ fk' = [fk EXCEPT !.pc = "disk"]
    /\ UNCHANGED <<fkSrc, fkStore, fkRows, fkVM, fkVMRow, fkCreating, fkMemo, fkHeld, fkOwner, fkmay>>

ForkDisk ==
    /\ fk.pc = "disk"
    /\ fk' = [fk EXCEPT !.pc = "memory"]
    /\ fkHeld' = [fkHeld EXCEPT !.disk = fk.count]
    /\ UNCHANGED <<fkSrc, fkStore, fkRows, fkVM, fkVMRow, fkCreating, fkMemo, fkOwner, fkmay>>

ForkMemory ==
    /\ fk.pc = "memory"
    /\ fk' = [fk EXCEPT !.pc = "create", !.child = 1]
    /\ fkHeld' = [fkHeld EXCEPT !.memory = fk.count]
    /\ UNCHANGED <<fkSrc, fkStore, fkRows, fkVM, fkVMRow, fkCreating, fkMemo, fkOwner, fkmay>>

\* createSandbox: VM, sandbox row, egress memo, and the mark that keeps the
\* orphan sweep away until the lease is in the store.
ForkCreate ==
    /\ fk.pc = "create"
    /\ fk' = [fk EXCEPT !.pc = IF fkSrc.token THEN "stage" ELSE "commit"]
    /\ fkVM' = fkVM \cup {fk.child}
    /\ fkVMRow' = fkVMRow \cup {fk.child}
    /\ fkCreating' = fkCreating \cup {fk.child}
    /\ fkMemo' = fkMemo \cup {fk.child}
    /\ UNCHANGED <<fkSrc, fkStore, fkRows, fkHeld, fkOwner, fkmay>>

\* A create that fails ends its window itself; the sandbox may have started.
ForkCreateFails ==
    /\ fk.pc = "create" /\ FkMay("fail")
    /\ fk' = [fk EXCEPT !.pc = "rollback", !.child = NoChild]
    /\ \/ UNCHANGED fkVM
       \/ FkMay("stray") /\ fkVM' = fkVM \cup {fk.child}
    /\ UNCHANGED <<fkSrc, fkStore, fkRows, fkVMRow, fkCreating, fkMemo, fkHeld, fkOwner, fkmay>>

ForkStage ==
    /\ fk.pc = "stage"
    /\ fk' = [fk EXCEPT !.pc = "commit"]
    /\ UNCHANGED <<fkSrc, fkStore, fkRows, fkVM, fkVMRow, fkCreating, fkMemo, fkHeld, fkOwner, fkmay>>

\* Everything the child in hand has outside the store.
ChildDropped(c) ==
    /\ DeleteIgnored(c)
    /\ fkVMRow' = fkVMRow \ {c}
    /\ fkCreating' = fkCreating \ {c}
    /\ fkMemo' = fkMemo \ {c}

\* The self token cannot be staged.  Clone stops the child's sandbox; fork goes
\* to its rollback, which knows only the children already made, and the child
\* stays in hand for good.
ForkStageFails ==
    /\ fk.pc = "stage" /\ FkMay("unstaged")
    /\ IF fk.op = "clone"
       THEN ChildDropped(fk.child) /\ fk' = [fk EXCEPT !.pc = "rollback", !.child = NoChild]
       ELSE UNCHANGED <<fkVM, fkVMRow, fkCreating, fkMemo>> /\ fk' = [fk EXCEPT !.pc = "rollback"]
    /\ UNCHANGED <<fkSrc, fkStore, fkRows, fkHeld, fkOwner, fkmay>>

\* Mutant: the deletion of the owner is not looked at again.
OwnerGoneNever == FALSE

\* The final guard, read under the store lock.
OwnerGone == fkOwner # "live"

\* The commit: refused for a deleted owner, else into the store and its row.
ForkCommit ==
    /\ fk.pc = "commit"
    /\ IF OwnerGone
       THEN /\ fk' = [fk EXCEPT !.pc = "rollback", !.child = NoChild]
            /\ ChildDropped(fk.child)
            /\ UNCHANGED <<fkStore, fkRows>>
       ELSE /\ fkStore' = [fkStore EXCEPT ![fk.child] = "live"]
            /\ fkRows' = fkRows \cup {fk.child}
            /\ fkCreating' = fkCreating \ {fk.child}
            /\ fk' = [fk EXCEPT !.made = @ \cup {fk.child},
                                !.pc = IF fk.child = fk.count THEN "finish" ELSE "create",
                                !.child = IF fk.child = fk.count THEN NoChild ELSE @ + 1]
            /\ UNCHANGED <<fkVM, fkVMRow, fkMemo>>
    /\ UNCHANGED <<fkSrc, fkHeld, fkOwner, fkmay>>

\* Mutant: the rollback forgets the children's lease rows.
RollbackRowsKept(c) == fkRows

\* deleteLeaseLocked
RollbackRows(c) == fkRows \ {c}

\* rollback, child by child: the sandbox, its marks, the store entry, the row.
\* The child is taken out of the store without its released mark.
ForkRollback ==
    /\ fk.pc = "rollback" /\ fk.made # {}
    /\ \E c \in fk.made :
         /\ ChildDropped(c)
         /\ fkStore' = [fkStore EXCEPT ![c] = IF @ = "pausing" THEN "dropped" ELSE "none"]
         /\ fkRows' = RollbackRows(c)
         /\ fk' = [fk EXCEPT !.made = @ \ {c}]
    /\ UNCHANGED <<fkSrc, fkHeld, fkOwner, fkmay>>

\* Mutant: a failed batch keeps its quota reservation.
HeldAfterRollbackQuota == [NothingHeld EXCEPT !.quota = fkHeld.quota]

HeldAfterRollback == NothingHeld

ForkRolledBack ==
    /\ fk.pc = "rollback" /\ fk.made = {}
    /\ fk' = [fk EXCEPT !.pc = "failed"]
    /\ fkSrc' = [fkSrc EXCEPT !.busy = FALSE]
    /\ fkHeld' = HeldAfterRollback
    /\ UNCHANGED <<fkStore, fkRows, fkVM, fkVMRow, fkCreating, fkMemo, fkOwner, fkmay>>

\* The debit stays with the children; quota and disk go back.
ForkFinish ==
    /\ fk.pc = "finish"
    /\ fk' = [fk EXCEPT !.pc = "done"]
    /\ fkSrc' = [fkSrc EXCEPT !.busy = FALSE]
    /\ fkHeld' = NothingHeld
    /\ UNCHANGED <<fkStore, fkRows, fkVM, fkVMRow, fkCreating, fkMemo, fkOwner, fkmay>>

-----------------------------------------------------------------------------
(***************************************************************************)
(* Meanwhile.                                                              *)
(***************************************************************************)

\* Release ignores busy.
SourceReleased ==
    /\ FkMay("release") /\ ~fkSrc.released
    /\ fkSrc' = [fkSrc EXCEPT !.released = TRUE]
    /\ UNCHANGED <<fk, fkStore, fkRows, fkVM, fkVMRow, fkCreating, fkMemo, fkHeld, fkOwner, fkmay>>

\* A child in the store is listed, so its owner may release it before the fork
\* has answered.
ChildReleasedAs(c) ==
    /\ fkStore' = [fkStore EXCEPT ![c] = IF @ = "pausing" THEN "ended" ELSE "none"]
    /\ fkRows' = fkRows \ {c}
    /\ ChildDropped(c)

ChildRelease ==
    /\ FkMay("child")
    /\ \E c \in FkChildren :
         /\ fkStore[c] = "live"
         /\ ChildReleasedAs(c)
    /\ UNCHANGED <<fk, fkSrc, fkHeld, fkOwner, fkmay>>

\* The owner pauses a child: the VM ends in a snapshot, then the commit saves
\* the row unless the lease was released meanwhile.
ChildPause ==
    /\ FkMay("child")
    /\ fk.pc = "done" \/ FkMay("early")
    /\ \E c \in FkChildren :
         /\ fkStore[c] = "live"
         /\ fkStore' = [fkStore EXCEPT ![c] = "pausing"]
         /\ fkVM' = fkVM \ {c}
    /\ UNCHANGED <<fk, fkSrc, fkRows, fkVMRow, fkCreating, fkMemo, fkHeld, fkOwner, fkmay>>

\* saveLeaseLocked drops the save of a released lease; a child the rollback
\* took out is not marked released.
ChildPaused ==
    \E c \in FkChildren :
        /\ fkStore[c] \in {"pausing", "dropped", "ended"}
        /\ fkStore' = [fkStore EXCEPT ![c] = IF @ = "pausing" THEN "paused" ELSE "none"]
        /\ fkRows' = IF fkStore[c] = "ended" THEN fkRows ELSE fkRows \cup {c}
        /\ fkVMRow' = fkVMRow \ {c}
        /\ UNCHANGED <<fk, fkSrc, fkVM, fkCreating, fkMemo, fkHeld, fkOwner, fkmay>>

\* handleUsersDelete: the mark, then the leases one by one until a scan of the
\* store finds none.
OwnerMarked ==
    /\ FkMay("delete") /\ fkOwner = "live"
    /\ fkOwner' = "marked"
    /\ UNCHANGED <<fk, fkSrc, fkStore, fkRows, fkVM, fkVMRow, fkCreating, fkMemo, fkHeld, fkmay>>

OwnerCleanup ==
    /\ fkOwner = "marked"
    /\ \/ /\ \E c \in FkChildren : fkStore[c] \in {"live", "pausing", "paused"} /\ ChildReleasedAs(c)
          /\ UNCHANGED <<fkSrc, fkOwner>>
       \/ /\ ~fkSrc.released
          /\ fkSrc' = [fkSrc EXCEPT !.released = TRUE]
          /\ UNCHANGED <<fkStore, fkRows, fkVM, fkVMRow, fkCreating, fkMemo, fkOwner>>
       \/ /\ fkSrc.released /\ \A c \in FkChildren : fkStore[c] \notin {"live", "pausing", "paused"}
          /\ fkOwner' = "gone"
          /\ UNCHANGED <<fkSrc, fkStore, fkRows, fkVM, fkVMRow, fkCreating, fkMemo>>
    /\ UNCHANGED <<fk, fkHeld, fkmay>>

\* A lease in the store keeps its sandbox.
Stored(c) == fkStore[c] \in {"live", "pausing", "paused"}

\* No create holds the sandbox in flight and no lease names it.
orphanSafeToDelete(c) == c \notin fkCreating /\ ~Stored(c)

\* The orphan sweep reaches a sandbox it found unclaimed twice.
ForkSwept ==
    /\ \E c \in fkVM : orphanSafeToDelete(c) /\ fkVM' = fkVM \ {c}
    /\ UNCHANGED <<fk, fkSrc, fkStore, fkRows, fkVMRow, fkCreating, fkMemo, fkHeld, fkOwner, fkmay>>

FkQuiet == UNCHANGED fkvars

ForkStep ==
    \/ ForkBegin \/ ForkReserve \/ ForkRefuse \/ ForkCheckpoint \/ ForkDisk \/ ForkMemory
    \/ ForkCreate \/ ForkCreateFails \/ ForkStage \/ ForkStageFails \/ ForkCommit
    \/ ForkRollback \/ ForkRolledBack \/ ForkFinish

FKNext ==
    \/ ForkStep
    \/ SourceReleased \/ ChildRelease \/ ChildPause \/ ChildPaused
    \/ OwnerMarked \/ OwnerCleanup \/ ForkSwept
    \/ (fk.pc \in {"idle", "done", "failed"} /\ FkQuiet)

FKSpec == FKInit /\ [][FKNext]_fkvars

-----------------------------------------------------------------------------
\* A fork or a clone that answered an error has left no child lease, no row, no
\* mark, no memo and no reservation, and the source free.  The one exception is
\* a child of a fork whose self token could not be staged: the rollback does not
\* know it, and it stays in hand with its sandbox, its row and its mark.
ForkAllOrNothing ==
    fk.pc = "failed" =>
        /\ \A c \in FkChildren : fkStore[c] = "none" /\ c \notin fkRows
        /\ fkVMRow \cup fkCreating \cup fkMemo \subseteq {fk.child}
        /\ fk.child # NoChild => fk.op = "fork" /\ fkSrc.token
        /\ fkHeld = NothingHeld /\ ~fkSrc.busy

\* Whatever delete failed, a sandbox on the node has a lease, is the child in
\* hand, or is within reach of the orphan sweep; and the sweep, which runs at
\* any time, takes none from a running child.
NoSandboxHides ==
    /\ \A c \in fkVM : Stored(c) \/ c = fk.child \/ orphanSafeToDelete(c)
    /\ \A c \in FkChildren : fkStore[c] = "live" => c \in fkVM

\* Once the clean-up of a deleted owner has found the store empty, no child of a
\* fork or clone still in flight becomes a lease of theirs.
DeletedGetsNoFork ==
    fkOwner = "gone" => \A c \in FkChildren : fkStore[c] \notin {"live", "paused"}

\* No lease row outlives its lease: a row without a lease in the store would
\* come back as a phantom lease at the next start of the backend.
NoPhantomRow ==
    \A c \in fkRows : fkStore[c] # "none"

\* What a fork leaves behind, whatever failed, raced or was deleted under it:
\* all its children or none, no sandbox out of the sweep's reach, nothing for a
\* deleted owner, no row without a lease.
ForkKeepsItsWord ==
  /\ ForkAllOrNothing
  /\ NoSandboxHides
  /\ DeletedGetsNoFork
  /\ NoPhantomRow
=============================================================================
