------------------------------- MODULE DiskRoom -------------------------------
(***************************************************************************)
(* Room on the snapshot disk (api/disk_room.go): a create, a resume or a   *)
(* pause reserves its bytes under diskAdmitMu, or takes room back first    *)
(* (garbage, then paused leases of owners further over their slice) and    *)
(* asks again.  Deletions reach statfs late and are credited meanwhile;    *)
(* owners are judged by the cached fair shares (api/fair_shares.go).       *)
(***************************************************************************)
EXTENDS Integers, Sequences, FiniteSets, FiniteSetsExt, SequencesExt

CONSTANTS
  DrLeases,      \* numbers: a smaller one was paused earlier
  DrOwnerOf, DrDisk, DrMem, DrStart, DrTotal, DrFloor, DrGarbage,
  DrScenarios    \* what may happen: subsets of DrEvents

DrEvents == {"late", "write", "pin", "kept", "undeleted", "unreadable", "reader", "create", "resume", "pause"}

ASSUME DiskAssumption ==
  /\ DrLeases \subseteq Nat
  /\ DrDisk \in [DrLeases -> Nat] /\ DrMem \in [DrLeases -> Nat]
  /\ DrScenarios \subseteq SUBSET DrEvents

VARIABLES
  dl,        \* [DrLeases -> [st, pinned, busy, wr, its pause build: build, bytes, kept]]
  garbage,   \* bytes of builds nothing refers to
  late,      \* bytes deleted that statfs still counts
  freeing,   \* diskInflight.freeing: [b, at]
  pending,   \* [DrLeases -> bytes reserved for its operation]
  dop,       \* [DrLeases -> its operation: at, need, room, again, stale, v, want, passed, missed]
  admitMu, takeMu,
  cache,     \* fairShareCache.snap: the owners' used bytes
  reader,    \* a concurrent reader of the shares: what it computed, still current
  dmay       \* what may happen in this behaviour

drvars == <<dl, garbage, late, freeing, pending, dop, admitMu, takeMu, cache, reader, dmay>>
locks == <<admitMu, takeMu>>

Nobody == 0
NoOp == [at |-> "idle", need |-> 0, room |-> 0, free |-> 0, again |-> FALSE,
         stale |-> {}, v |-> 0, want |-> 0, passed |-> {}, missed |-> 0]
NoCache == [known |-> FALSE]
DrOwners == {DrOwnerOf[l] : l \in DrLeases}
LiveLeases == {l \in DrLeases : dl[l].st = "live"}

SumOf(f, S) == MapThenSumSet(LAMBDA l : f[l], S)
Bytes == [l \in DrLeases |-> dl[l].bytes]
Written == [l \in DrLeases |-> dl[l].wr]

DRInit ==
  /\ dl = [l \in DrLeases |-> [st |-> DrStart[l], pinned |-> FALSE, busy |-> FALSE, wr |-> 0,
                               build |-> 0, kept |-> FALSE, bytes |-> IF DrStart[l] = "paused" THEN DrMem[l] ELSE 0]]
  /\ garbage = DrGarbage /\ late = 0 /\ freeing = <<>>
  /\ pending = [l \in DrLeases |-> 0]
  /\ dop = [l \in DrLeases |-> NoOp]
  /\ admitMu = Nobody /\ takeMu = Nobody
  /\ cache = NoCache /\ reader = NoCache
  /\ dmay \in DrScenarios

\* statfs.
Free == DrTotal - SumOf(Bytes, DrLeases) - SumOf(Written, DrLeases) - garbage - late

\* settle: entries statfs has caught up with are dropped.
Settled == SelectSeq(freeing, LAMBDA e : Free - e.at < e.b)
SettledCredit == FoldSeq(LAMBDA e, n : n + e.b, 0, Settled)
PendingRoom == SumOf(pending, DrLeases)

\* computeDiskRoom, before pending and freeing.
RoomRead == Free - SumOf(DrDisk, LiveLeases) - DrFloor
Usable == RoomRead - PendingRoom + SettledCredit

\* computeFairShares: what each owner's builds take.
UsedNow == [o \in DrOwners |-> SumOf(Bytes, {l \in DrLeases : DrOwnerOf[l] = o})]
Shares == [known |-> TRUE, used |-> UsedNow]

\* invalidateFairShares: the snapshot goes, one being computed is not stored.
Invalidate == cache' = NoCache /\ reader' = NoCache

Active == {DrOwnerOf[l] : l \in {k \in DrLeases : dl[k].st \in {"live", "paused"} \/ pending[k] > 0}}
Slice == (Free + SumOf(Bytes, DrLeases)) \div Max({Cardinality(Active), 1})

At(l, where) == dop' = [dop EXCEPT ![l].at = where]

Decided(l, where) == dop' = [dop EXCEPT ![l] = [@ EXCEPT !.at = where, !.room = 0, !.passed = {}, !.missed = 0]]

-----------------------------------------------------------------------------
(* diskVictims.                                                            *)

\* Mutant: only the owner's ratio before it gives the lease up counts.
BeforeGivingUp(used, b, bar) == used > bar

\* diskVictimAgainstRequester, in bytes of equal slices.
StaysAbove(used, b, bar) == used - b > bar

\* The greedy choice: the owner furthest over, its oldest unpinned lease,
\* while the owner stays above the requester; nothing unless it covers.
Victims(r, view, stale, cover) ==
  LET Offered == {l \in DrLeases : dl[l].st = "paused" /\ ~dl[l].pinned /\ l \notin stale
                                   /\ DrOwnerOf[l] # DrOwnerOf[r]}
      bar == view.used[DrOwnerOf[r]] + dop[r].need
      Left(taken, o) == view.used[o] - SumOf(Bytes, {l \in taken : DrOwnerOf[l] = o})
      Oldest(taken, o) == Min({l \in Offered \ taken : DrOwnerOf[l] = o})
      Givers(taken) ==
        {o \in {DrOwnerOf[l] : l \in Offered \ taken} :
           /\ Left(taken, o) > Slice /\ Left(taken, o) > bar
           /\ StaysAbove(Left(taken, o), dl[Oldest(taken, o)].bytes, bar)}
      Next1(taken) ==
        Oldest(taken, CHOOSE o \in Givers(taken) : \A p \in Givers(taken) : Left(taken, o) >= Left(taken, p))
      More(got) ==
        IF SumOf(Bytes, ToSet(got)) >= cover \/ Givers(ToSet(got)) = {} THEN got
        ELSE Append(got, Next1(ToSet(got)))
      Picks[n \in 0..Cardinality(DrLeases)] ==   \* {the first n choices}
        IF n = 0 THEN {<<>>} ELSE {More(got) : got \in Picks[n - 1]}
  IN {vs \in Picks[Cardinality(DrLeases)] : SumOf(Bytes, ToSet(vs)) >= cover}

-----------------------------------------------------------------------------
(* ensureDiskRoom.                                                         *)

\* A create asks for the whole disk, a resume too, a pause for what the
\* memory is bigger; nothing asked is nothing reserved.
Begin(l) ==
  /\ \/ dop[l].at = "idle"
     \/ dop[l].at = "done" /\ dl[l].st = "live" /\ "resume" \in dmay
  /\ ~dl[l].busy
  /\ \E need \in {DrDisk[l], DrMem[l] - DrDisk[l]} :
       /\ \/ "create" \in dmay /\ dl[l].st = "absent" /\ need = DrDisk[l]
          \/ "resume" \in dmay /\ dl[l].st = "paused" /\ need = DrDisk[l]
          \/ dl[l].st = "live" /\ need = DrMem[l] - DrDisk[l] /\ ("pause" \in dmay \/ dop[l].at = "done")
       /\ dop' = [dop EXCEPT ![l] = [NoOp EXCEPT !.need = need, !.at = IF need > 0 THEN "read" ELSE "run"]]
  /\ dl' = [dl EXCEPT ![l].busy = TRUE]
  /\ UNCHANGED <<garbage, late, freeing, pending, locks, cache, reader, dmay>>

\* reserveIfRoom: statfs and the running leases are read under diskAdmitMu.
ReserveRead(l) ==
  /\ dop[l].at = "read" /\ admitMu = Nobody
  /\ \/ /\ admitMu' = l
        /\ dop' = [dop EXCEPT ![l].room = RoomRead, ![l].at = "decide", ![l].passed = {}, ![l].missed = 0]
     \/ /\ "unreadable" \in dmay
        /\ At(l, IF dop[l].again THEN "refused" ELSE "run")
        /\ UNCHANGED admitMu
  /\ UNCHANGED <<dl, garbage, late, freeing, pending, takeMu, cache, reader, dmay>>

\* Mutant: the admitted bytes are not held as pending.
NotHeld(l) == 0

Held(l) == dop[l].need

\* ... then the inflight tracker is settled, and the bytes reserved if they fit.
ReserveDecide(l) ==
  /\ dop[l].at = "decide"
  /\ freeing' = Settled
  /\ IF dop[l].room - PendingRoom + SettledCredit >= dop[l].need
     THEN pending' = [pending EXCEPT ![l] = Held(l)] /\ Decided(l, "run")
     ELSE UNCHANGED pending /\ Decided(l, IF dop[l].again THEN "refused" ELSE "garbage")
  /\ admitMu' = Nobody
  /\ UNCHANGED <<dl, garbage, late, takeMu, cache, reader, dmay>>

\* Deleted bytes leave statfs at once or later.
Deleted(b) == late' = IF "late" \in dmay THEN late + b ELSE late

\* noteDiskFreeing.
Note(b, at) == freeing' = IF b > 0 THEN Append(Settled, [b |-> b, at |-> at]) ELSE Settled

\* diskTakeBack reads the room again, and deletes nothing when it covers the
\* need by now or cannot be read; else orphaned builds go first.
ReapGarbage(l) ==
  /\ dop[l].at = "garbage"
  /\ \/ /\ Usable < dop[l].need
        /\ garbage' = 0 /\ Deleted(garbage) /\ Note(garbage, Free)
        /\ At(l, "recheck")
     \/ /\ Usable >= dop[l].need
        /\ dop' = [dop EXCEPT ![l].at = "read", ![l].again = TRUE]
        /\ UNCHANGED <<garbage, late, freeing>>
     \/ /\ "unreadable" \in dmay
        /\ At(l, "refused")
        /\ UNCHANGED <<garbage, late, freeing>>
  /\ UNCHANGED <<dl, pending, locks, cache, reader, dmay>>

Recheck(l) ==
  /\ dop[l].at = "recheck"
  /\ dop' = [dop EXCEPT ![l].at = IF Usable >= dop[l].need THEN "read" ELSE "lock",
                        ![l].again = Usable >= dop[l].need]
  /\ UNCHANGED <<dl, garbage, late, freeing, pending, locks, cache, reader, dmay>>

ReclaimLock(l) ==
  /\ dop[l].at = "lock" /\ takeMu = Nobody
  /\ takeMu' = l
  /\ At(l, "pick")
  /\ UNCHANGED <<dl, garbage, late, freeing, pending, admitMu, cache, reader, dmay>>

\* One round of reclaimLeasesForRoom: enough room, nobody to take from (429,
\* or a wait when something was freed), or the next victim.
ReclaimPick(l) ==
  /\ dop[l].at = "pick"
  /\ IF Usable >= dop[l].need
     THEN /\ dop' = [dop EXCEPT ![l].at = "read", ![l].again = TRUE]
          /\ takeMu' = Nobody
          /\ UNCHANGED cache
     ELSE \/ "unreadable" \in dmay /\ At(l, "refused") /\ takeMu' = Nobody /\ UNCHANGED cache
          \/ \E view \in {IF cache.known THEN cache ELSE Shares} :
             \E found \in {Victims(l, view, dop[l].stale, dop[l].need - Usable)} :
               /\ cache' = view
               /\ \/ found = {} /\ At(l, "refused") /\ takeMu' = Nobody
                  \/ /\ \E vs \in found :
                          dop' = [dop EXCEPT ![l].at = "check", ![l].v = vs[1], ![l].free = Free]
                     /\ UNCHANGED takeMu
  /\ UNCHANGED <<dl, garbage, late, freeing, pending, admitMu, reader, dmay>>

\* Mutant: a lease that changed hands meanwhile is offered again.
OfferedAgain(l, v) == dop[l].stale

Skipped(l, v) == dop[l].stale \cup {v}

\* takeDiskVictim: a lease whose pause build something else keeps, or may keep,
\* is passed over ...
CheckVictim(l) ==
  /\ dop[l].at = "check"
  /\ LET v == dop[l].v IN
     \/ /\ ~dl[v].kept
        /\ dop' = [dop EXCEPT ![l].at = "take", ![l].want = dl[v].build]
     \/ /\ dl[v].kept \/ "unreadable" \in dmay
        /\ dop' = [dop EXCEPT ![l].at = "pick", ![l].stale = Skipped(l, v)]
  /\ UNCHANGED <<dl, garbage, late, freeing, pending, locks, cache, reader, dmay>>

\* ... and one is committed only still paused on that build, idle and unpinned.
TakeVictim(l) ==
  /\ dop[l].at = "take"
  /\ LET v == dop[l].v IN
     IF dl[v].st = "paused" /\ ~dl[v].busy /\ ~dl[v].pinned /\ dl[v].build = dop[l].want
     THEN /\ dl' = [dl EXCEPT ![v].st = "released"]
          /\ At(l, "delete")
          /\ Invalidate
     ELSE /\ dop' = [dop EXCEPT ![l].at = "pick", ![l].stale = Skipped(l, v)]
          /\ UNCHANGED <<dl, cache, reader>>
  /\ UNCHANGED <<garbage, late, freeing, pending, locks, dmay>>

\* Mutant: the bytes of a build that stayed on disk are credited.
CreditedAnyway(v, deleted) == dl[v].bytes

\* deleteReleasedPauseBuild's answer.
FreedBy(v, deleted) == IF deleted THEN dl[v].bytes ELSE 0

\* deleteReleasedPauseBuild, after the release; the shares are not told.  A
\* build kept by now, or whose deletion fails, stays: the lease is gone, its
\* bytes are still its owner's and nothing is credited.
DeleteVictimBuild(l) ==
  LET v == dop[l].v IN
  /\ dop[l].at = "delete"
  /\ \E deleted \in BOOLEAN :
       /\ deleted => ~dl[v].kept
       /\ ~deleted => dl[v].kept \/ "undeleted" \in dmay \/ "unreadable" \in dmay
       /\ dl' = [dl EXCEPT ![v] = [@ EXCEPT !.st = "gone", !.bytes = IF deleted THEN 0 ELSE @]]
       /\ IF deleted THEN Deleted(dl[v].bytes) ELSE UNCHANGED late
       /\ Note(FreedBy(v, deleted), dop[l].free)
  /\ At(l, "pick")
  /\ UNCHANGED <<garbage, pending, locks, cache, reader, dmay>>

\* The operation itself: the lease runs, or its snapshot is on disk.
Run(l) ==
  /\ dop[l].at = "run"
  /\ dl' = [dl EXCEPT ![l] =
              IF @.st = "live"
              THEN [@ EXCEPT !.st = "paused", !.busy = FALSE, !.wr = 0,
                                !.bytes = DrMem[l] + dl[l].wr, !.build = @ + 1, !.kept = FALSE]
              ELSE [@ EXCEPT !.st = "live", !.busy = FALSE]]
  /\ garbage' = garbage + IF dl[l].st = "live" THEN dl[l].bytes ELSE 0
  /\ Invalidate
  /\ dop' = [k \in DrLeases |-> IF k = l THEN [dop[k] EXCEPT !.at = "end"]
                               ELSE IF dop[k].at = "decide" THEN [dop[k] EXCEPT !.passed = @ \cup {l}]
                               ELSE dop[k]]
  /\ UNCHANGED <<late, freeing, pending, locks, dmay>>

\* The deferred release of the reservation; a refused operation gives back
\* the busy flag.
End(l) ==
  /\ dop[l].at \in {"end", "refused"}
  /\ pending' = [pending EXCEPT ![l] = 0]
  /\ dop' = [k \in DrLeases |-> IF k = l THEN [NoOp EXCEPT !.at = "done"]
                               ELSE IF l \in dop[k].passed /\ dop[k].at = "decide"
                               THEN [dop[k] EXCEPT !.missed = @ + dop[l].need, !.passed = @ \ {l}]
                               ELSE dop[k]]
  /\ dl' = IF dop[l].at = "refused" THEN [dl EXCEPT ![l].busy = FALSE] ELSE dl
  /\ UNCHANGED <<garbage, late, freeing, locks, cache, reader, dmay>>

-----------------------------------------------------------------------------
(* What goes on meanwhile.                                                 *)

\* A running guest writes; a deletion reaches statfs; an entry times out.
Write(l) ==
  /\ "write" \in dmay /\ dl[l].st = "live" /\ dl[l].wr < DrDisk[l]
  /\ dl' = [dl EXCEPT ![l].wr = @ + 1]
  /\ UNCHANGED <<garbage, late, freeing, pending, dop, locks, cache, reader, dmay>>

Visible ==
  /\ late > 0 /\ late' = 0
  /\ UNCHANGED <<dl, garbage, freeing, pending, dop, locks, cache, reader, dmay>>

FreeingTTL ==
  /\ freeing # <<>> /\ freeing' = Tail(freeing)
  /\ UNCHANGED <<dl, garbage, late, pending, dop, locks, cache, reader, dmay>>

Pin(l) ==
  /\ "pin" \in dmay /\ dl[l].st = "paused" /\ ~dl[l].pinned
  /\ dl' = [dl EXCEPT ![l].pinned = TRUE]
  /\ UNCHANGED <<garbage, late, freeing, pending, dop, locks, cache, reader, dmay>>

\* A child build or a named snapshot comes to rest on a pause build.
Keep(l) ==
  /\ "kept" \in dmay /\ dl[l].st \in {"paused", "released"} /\ ~dl[l].kept
  /\ dl' = [dl EXCEPT ![l].kept = TRUE]
  /\ UNCHANGED <<garbage, late, freeing, pending, dop, locks, cache, reader, dmay>>

\* Another caller of fairShares computes, and stores unless invalidated.
ReaderCompute ==
  /\ "reader" \in dmay /\ ~cache.known /\ reader' = Shares /\ reader' # reader
  /\ UNCHANGED <<dl, garbage, late, freeing, pending, dop, locks, cache, dmay>>

ReaderStore ==
  /\ reader.known
  /\ cache' = reader /\ reader' = NoCache
  /\ UNCHANGED <<dl, garbage, late, freeing, pending, dop, locks, dmay>>

CacheTTL ==
  /\ cache.known /\ "reader" \in dmay
  /\ cache' = NoCache
  /\ UNCHANGED <<dl, garbage, late, freeing, pending, dop, locks, reader, dmay>>

DiskStep(l) ==
  \/ ReserveRead(l) \/ ReserveDecide(l) \/ ReapGarbage(l) \/ Recheck(l) \/ ReclaimLock(l)
  \/ ReclaimPick(l) \/ CheckVictim(l) \/ TakeVictim(l) \/ DeleteVictimBuild(l) \/ Run(l) \/ End(l)

DRNext ==
  \/ \E l \in DrLeases : Begin(l) \/ DiskStep(l) \/ Write(l) \/ Pin(l) \/ Keep(l)
  \/ Visible \/ FreeingTTL \/ ReaderCompute \/ ReaderStore \/ CacheTTL

DRSpec == DRInit /\ [][DRNext]_drvars

-----------------------------------------------------------------------------
(* Properties.                                                             *)

\* Bytes are reserved only while everything promised fits: what the running
\* leases may still write, what the admitted operations need and the floor
\* against what is free or will be (reserveIfRoom under diskAdmitMu).  The
\* running leases are summed before the pending bytes are read, and operations
\* end without diskAdmitMu: what one reserved that both began to run and ended
\* between the two reads is in neither, and is the most a promise may be short.
\* A disk that cannot be read admits unchecked.
RoomBacked ==
  [][\A l \in DrLeases : dop[l].at = "decide" /\ dop'[l].at = "run" /\ "unreadable" \notin dmay =>
       LET admitted == {k \in DrLeases : dop'[k].at = "run"}
       IN SumOf(DrDisk, LiveLeases) - SumOf(Written, LiveLeases) + DrFloor
            + SumOf([k \in DrLeases |-> dop[k].need], admitted) <= Free + late + dop[l].missed]_drvars

\* Take-back never pushes an owner to or below where the requester will be,
\* counting what the owner really has left (diskVictimAgainstRequester).
TakenStaysAbove ==
  [][\A l, v \in DrLeases : dop[l].at = "take" /\ dop[l].v = v /\ dl'[v].st = "released" /\ dl[v].st = "paused" =>
       LET Has(o) == SumOf(Bytes, {k \in DrLeases : DrOwnerOf[k] = o /\ dl[k].st # "released"})
       IN Has(DrOwnerOf[v]) - dl[v].bytes > Has(DrOwnerOf[l]) + dop[l].need]_drvars

\* Every request for room is answered: take-back skips what it cannot have.
RoomAnswered == \A l \in DrLeases : dop[l].at = "lock" ~> dop[l].at = "done"

=============================================================================
