-------------------------- MODULE KeptCheckpoints --------------------------
(***************************************************************************)
(* On-demand checkpoints and the ones their owner keeps (api/checkpoint.go *)
(* with store/kept.go): the cap per lease, the owner's byte budget and the *)
(* pin itself are three separate steps inside the lease's busy window,     *)
(* while the lease's release, an unpin, a save of a named snapshot and a   *)
(* change of the owner's slice run between them.                           *)
(***************************************************************************)
EXTENDS Integers, FiniteSets, FiniteSetsExt

CONSTANTS
    KcLeases,      \* the leases of one owner
    KcBuilds,      \* build ids a checkpoint can mint, 1..n
    KeptMax,       \* MAX_KEPT_PER_LEASE
    KcSlices,      \* the owner's fair disk slice in bytes; 0 = not known
    KcScenarios    \* what may happen: one set of names per behaviour

VARIABLES
    kcLease,    \* live, released (marked, being taken down) or gone
    kcRow,      \* leases with a leases row
    kcBusy,     \* leases under an operation
    kcCall,     \* the checkpoint or restore each lease's caller is in
    kcBuild,    \* builds written: their lease and size, and whether they are still there
    kcKept,     \* lease_kept_builds: pairs of lease and build
    kcLast,     \* each lease's newest checkpoint
    kcNamed,    \* bytes of the owner's named snapshots
    kcSlice,    \* the owner's slice as the fair-share view has it now
    kcmay

kcvars == <<kcLease, kcRow, kcBusy, kcCall, kcBuild, kcKept, kcLast, kcNamed, kcSlice,
            kcmay>>

NoKeepBuild == 0
Unwritten == [lease |-> 0, size |-> 0, there |-> FALSE]
KcIdle == [pc |-> "idle", keep |-> FALSE, build |-> NoKeepBuild, unread |-> FALSE]

KCInit ==
    /\ kcmay \in KcScenarios
    /\ kcSlice \in KcSlices
    /\ kcLease = [l \in KcLeases |-> "live"]
    /\ kcRow = KcLeases
    /\ kcBusy = {}
    /\ kcCall = [l \in KcLeases |-> KcIdle]
    /\ kcBuild = [b \in KcBuilds |-> Unwritten]
    /\ kcKept = {}
    /\ kcLast = [l \in KcLeases |-> NoKeepBuild]
    /\ kcNamed = 0

KcMay(x) == x \in kcmay

KeptBy(l) == {b \in KcBuilds : <<l, b>> \in kcKept}
SizeSum(S) == MapThenSumSet(LAMBDA p : kcBuild[p[2]].size, {p \in S : kcBuild[p[2]].there})

-----------------------------------------------------------------------------
(***************************************************************************)
(* POST /api/leases/{id}/checkpoint.                                       *)
(***************************************************************************)

KcStep(l, from, to) ==
    /\ kcCall[l].pc = from
    /\ kcCall' = [kcCall EXCEPT ![l].pc = to]

\* The call ends: endBusy is deferred, so every path gives the lease back.
KcAnswer(l) ==
    /\ kcCall' = [kcCall EXCEPT ![l] = KcIdle]
    /\ kcBusy' = kcBusy \ {l}

\* handleCheckpoint up to the busy flag: a live lease that is not busy.
KeepBegin(l, keep) ==
    /\ kcLease[l] = "live"
    /\ l \notin kcBusy
    /\ kcCall[l].pc = "idle"
    /\ Cardinality({m \in KcLeases : kcCall[m].pc \in {"cap", "write"}})
           < Cardinality({b \in KcBuilds : kcBuild[b] = Unwritten})
    /\ kcBusy' = kcBusy \cup {l}
    /\ kcCall' = [kcCall EXCEPT ![l] = [KcIdle EXCEPT !.pc = IF keep THEN "cap" ELSE "write",
                                                      !.keep = keep]]
    /\ UNCHANGED <<kcLease, kcRow, kcBuild, kcKept, kcLast, kcNamed, kcSlice, kcmay>>

\* Mutant: the cap is compared with > instead of >=.
AtKeptCapLate(n) == KeptMax > 0 /\ n > KeptMax

AtKeptCap(n) == KeptMax > 0 /\ n >= KeptMax

\* checkKeptCap: a count that cannot be read lets the keep through.
CheckKeptCap(l) ==
    /\ kcCall[l].pc = "cap"
    /\ \/ /\ KcMay("unread")
          /\ kcCall' = [kcCall EXCEPT ![l].pc = "write", ![l].unread = TRUE]
          /\ UNCHANGED kcBusy
       \/ /\ ~AtKeptCap(Cardinality(KeptBy(l)))
          /\ KcStep(l, "cap", "write")
          /\ UNCHANGED kcBusy
       \/ /\ AtKeptCap(Cardinality(KeptBy(l)))
          /\ KcAnswer(l)
    /\ UNCHANGED <<kcLease, kcRow, kcBuild, kcKept, kcLast, kcNamed, kcSlice, kcmay>>

\* checkpointLease: the node writes a build of some size, its row is saved and
\* the lease points at it; or the write fails and nothing changes.
KeepWrite(l) ==
    /\ kcCall[l].pc = "write"
    /\ \/ \E b \in KcBuilds, size \in 1..2 :
            /\ b = Min({c \in KcBuilds : kcBuild[c] = Unwritten})
            /\ kcBuild' = [kcBuild EXCEPT ![b] = [lease |-> l, size |-> size, there |-> TRUE]]
            /\ kcLast' = [kcLast EXCEPT ![l] = IF kcLease[l] = "live" THEN b ELSE @]
            /\ IF kcCall[l].keep
               THEN /\ kcCall' = [kcCall EXCEPT ![l].pc = "released?", ![l].build = b]
                    /\ UNCHANGED kcBusy
               ELSE KcAnswer(l)
       \/ /\ KcMay("fail")
          /\ KcAnswer(l)
          /\ UNCHANGED <<kcBuild, kcLast>>
    /\ UNCHANGED <<kcLease, kcRow, kcKept, kcNamed, kcSlice, kcmay>>

\* A lease released during its checkpoint must not gain a kept build.
KeepReleased(l) ==
    /\ kcCall[l].pc = "released?"
    /\ IF kcLease[l] = "live"
       THEN KcStep(l, "released?", "budget") /\ UNCHANGED kcBusy
       ELSE KcAnswer(l)
    /\ UNCHANGED <<kcLease, kcRow, kcBuild, kcKept, kcLast, kcNamed, kcSlice, kcmay>>

\* keptBytesOfOwner: the recorded sizes of the owner's kept builds.
KeptBytesOfOwner == SizeSum(kcKept)

\* Mutant: the sum leaves out the named snapshots it shares the slice with.
OverBudgetKeptOnly(size) == kcSlice > 0 /\ KeptBytesOfOwner + size > kcSlice

OverBudget(size) == kcSlice > 0 /\ KeptBytesOfOwner + kcNamed + size > kcSlice

\* keptBudgetFor and enforceKeptBudget: over the slice the pin is refused and
\* the build stays; a sum that cannot be read lets the keep through.
EnforceKeptBudget(l) ==
    /\ kcCall[l].pc = "budget"
    /\ \/ /\ KcMay("unread")
          /\ kcCall' = [kcCall EXCEPT ![l].pc = "pin", ![l].unread = TRUE]
          /\ UNCHANGED kcBusy
       \/ /\ ~OverBudget(kcBuild[kcCall[l].build].size)
          /\ KcStep(l, "budget", "pin")
          /\ UNCHANGED kcBusy
       \/ /\ OverBudget(kcBuild[kcCall[l].build].size)
          /\ KcAnswer(l)
    /\ UNCHANGED <<kcLease, kcRow, kcBuild, kcKept, kcLast, kcNamed, kcSlice, kcmay>>

\* Mutant: the pins table names its lease without a foreign key.
PinTakesLoose(l) == TRUE

\* KeepBuild: the row names a lease that must still have one.
PinTakes(l) == l \in kcRow

\* keepBuild; a failed insert is only logged.
KeepPin(l) ==
    /\ kcCall[l].pc = "pin"
    /\ \/ /\ PinTakes(l)
          /\ kcKept' = kcKept \cup {<<l, kcCall[l].build>>}
       \/ /\ KcMay("fail") \/ ~PinTakes(l)
          /\ UNCHANGED kcKept
    /\ KcAnswer(l)
    /\ UNCHANGED <<kcLease, kcRow, kcBuild, kcLast, kcNamed, kcSlice, kcmay>>

-----------------------------------------------------------------------------
(***************************************************************************)
(* POST /api/leases/{id}/restore: to the lease's newest checkpoint or to   *)
(* one it keeps.                                                           *)
(***************************************************************************)

\* Mutant: any build of the owner that is still there may be restored.
RestorableAny(l, b) == kcBuild[b].there

\* restoreableBuild, for the builds of one owner.
Restorable(l, b) ==
    /\ kcBuild[b].there
    /\ b = kcLast[l] \/ b \in KeptBy(l)

\* handleRestore: the build is looked up first, the lease taken after.
KeepRestoreRead(l) ==
    /\ KcMay("restore")
    /\ kcLease[l] = "live"
    /\ kcCall[l].pc = "idle"
    /\ \E b \in KcBuilds :
        /\ Restorable(l, b)
        /\ kcCall' = [kcCall EXCEPT ![l] = [KcIdle EXCEPT !.pc = "restore?", !.build = b]]
    /\ UNCHANGED <<kcLease, kcRow, kcBusy, kcBuild, kcKept, kcLast, kcNamed, kcSlice, kcmay>>

\* restoreBusy: a lease released meanwhile is refused inside restore.
KeepRestoreTake(l) ==
    /\ kcCall[l].pc = "restore?"
    /\ IF l \in kcBusy \/ kcLease[l] # "live"
       THEN /\ kcCall' = [kcCall EXCEPT ![l] = KcIdle]
            /\ UNCHANGED kcBusy
       ELSE /\ KcStep(l, "restore?", "restoring")
            /\ kcBusy' = kcBusy \cup {l}
    /\ UNCHANGED <<kcLease, kcRow, kcBuild, kcKept, kcLast, kcNamed, kcSlice, kcmay>>

KeepRestoreEnd(l) ==
    /\ kcCall[l].pc = "restoring"
    /\ KcAnswer(l)
    /\ UNCHANGED <<kcLease, kcRow, kcBuild, kcKept, kcLast, kcNamed, kcSlice, kcmay>>

-----------------------------------------------------------------------------
(***************************************************************************)
(* Everyone else.                                                          *)
(***************************************************************************)

\* handleSnapshotDelete: the pins go first, on every lease; the build follows
\* unless a lease still stands on it.
Unpin ==
    /\ KcMay("unpin")
    /\ \E b \in KcBuilds :
        /\ kcBuild[b].there
        /\ kcKept' = {p \in kcKept : p[2] # b}
        /\ kcBuild' = [kcBuild EXCEPT ![b].there =
                          \E l \in KcLeases : kcLease[l] # "gone" /\ kcLast[l] = b]
        /\ kcKept' # kcKept \/ kcBuild' # kcBuild
    /\ UNCHANGED <<kcLease, kcRow, kcBusy, kcCall, kcLast, kcNamed, kcSlice, kcmay>>

\* A release: marked under the lock, then its pins dropped, then its row, with
\* which whatever is pinned meanwhile cascades.
KeptReleaseMark(l) ==
    /\ KcMay("release")
    /\ kcLease[l] = "live"
    /\ kcLease' = [kcLease EXCEPT ![l] = "released"]
    /\ UNCHANGED <<kcRow, kcBusy, kcCall, kcBuild, kcKept, kcLast, kcNamed, kcSlice, kcmay>>

KeptReleasePins(l) ==
    /\ kcLease[l] = "released"
    /\ kcLease' = [kcLease EXCEPT ![l] = "unpinned"]
    /\ kcKept' = {p \in kcKept : p[1] # l}
    /\ UNCHANGED <<kcRow, kcBusy, kcCall, kcBuild, kcLast, kcNamed, kcSlice, kcmay>>

KeptReleaseRow(l) ==
    /\ kcLease[l] = "unpinned"
    /\ kcLease' = [kcLease EXCEPT ![l] = "gone"]
    /\ kcRow' = kcRow \ {l}
    /\ kcKept' = {p \in kcKept : p[1] # l}
    /\ UNCHANGED <<kcBusy, kcCall, kcBuild, kcLast, kcNamed, kcSlice, kcmay>>

\* A named save passes the same sum; "overlap" is one that lands between a
\* keep's sum and its pin.
NamedSave ==
    /\ KcMay("named")
    /\ kcNamed = 0
    /\ ~OverBudget(1)
    /\ KcMay("overlap") \/ \A l \in KcLeases : kcCall[l].pc # "pin"
    /\ kcNamed' = 1
    /\ UNCHANGED <<kcLease, kcRow, kcBusy, kcCall, kcBuild, kcKept, kcLast, kcSlice, kcmay>>

\* Owners come and go, and the box's capacity becomes known.
SliceMoves ==
    /\ KcMay("slice")
    /\ \A l \in KcLeases : kcCall[l].pc # "pin"
    /\ kcSlice' \in KcSlices \ {kcSlice}
    /\ UNCHANGED <<kcLease, kcRow, kcBusy, kcCall, kcBuild, kcKept, kcLast, kcNamed, kcmay>>

\* "overlap" lets the keeps of two leases pass the sum before either pins.
OneKeepAtATime(l) ==
    KcMay("overlap") \/ kcCall[l].pc # "budget"
        \/ \A m \in KcLeases \ {l} : kcCall[m].pc # "pin"

KcLeaseStep(l) ==
    \/ \E keep \in BOOLEAN : KeepBegin(l, keep)
    \/ CheckKeptCap(l)
    \/ KeepWrite(l)
    \/ KeepReleased(l)
    \/ OneKeepAtATime(l) /\ EnforceKeptBudget(l)
    \/ KeepPin(l)
    \/ KeepRestoreRead(l)
    \/ KeepRestoreTake(l)
    \/ KeepRestoreEnd(l)
    \/ KeptReleaseMark(l)
    \/ KeptReleasePins(l)
    \/ KeptReleaseRow(l)

KCNext ==
    \/ \E l \in KcLeases : KcLeaseStep(l)
    \/ Unpin
    \/ NamedSave
    \/ SliceMoves

KCSpec == KCInit /\ [][KCNext]_kcvars

-----------------------------------------------------------------------------
(***************************************************************************)
(* Properties.                                                             *)
(***************************************************************************)

\* A lease never keeps more than its cap, although the count is read before the
\* checkpoint and the pin written after it: the busy window excludes a second
\* keep between them (a count that could not be read is let through by choice).
KeptWithinCap ==
    ~KcMay("unread") => \A l \in KcLeases : Cardinality(KeptBy(l)) <= KeptMax

\* A pin is only added when the owner's kept and named bytes with it fit the
\* slice of that moment: the sum read before the pin is still the sum when it
\* is written.
PinFitsTheSlice ==
    [][ (kcKept' \ kcKept # {} /\ kcSlice > 0 /\ ~KcMay("unread"))
        => SizeSum(kcKept)' + kcNamed <= kcSlice ]_kcvars

\* A lease that is gone pins nothing, in whatever order its release and the end
\* of a keep fall: no build stays a garbage-collection root for a dead lease.
GoneKeepsNothing ==
    \A l \in KcLeases : kcLease[l] = "gone" => KeptBy(l) = {}

\* A restore in progress runs from a build of that very lease, never from a
\* sibling's checkpoint, whatever is unpinned or checkpointed since its lookup.
RestoresItsOwn ==
    \A l \in KcLeases :
        kcCall[l].pc \in {"restore?", "restoring"} => kcBuild[kcCall[l].build].lease = l

\* What is kept stays within its limits, belongs to a lease that is there, and
\* is what a restore by its name gives back.
KeptIsTheirs ==
  /\ []KeptWithinCap
  /\ []GoneKeepsNothing
  /\ []RestoresItsOwn
  /\ PinFitsTheSlice
=============================================================================
