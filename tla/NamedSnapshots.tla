-------------------------- MODULE NamedSnapshots --------------------------
(***************************************************************************)
(* One owner's named snapshots (api/named_snapshots.go,                    *)
(* api/named_snapshot_grants.go, store/named_snapshots.go): saves from two *)
(* leases with and without an idempotency key, version numbers, the name   *)
(* and byte limits, retention, deletes, grants, starts, a restart and the  *)
(* deletion of the owner.                                                  *)
(*                                                                         *)
(* Secrets and the checkpoint itself are other modules' subjects: here     *)
(* either can fail a save.  A version is one unit of the owner's budget.   *)
(***************************************************************************)
EXTENDS Naturals, FiniteSets

CONSTANTS
  NsCap,          \* MAX_NAMED_SNAPSHOTS
  NsBudget,       \* the owner's kept budget, in versions
  NsBuilds,       \* bound: checkpoints taken
  NsScenarios     \* sets of events, one chosen per behaviour

NsEvents == {"key", "two", "names", "fail", "delete", "start", "startfail", "release",
             "keep", "restart", "owner", "grant", "secret", "look", "few", "solo"}
ASSUME NsAssumption ==
  /\ {NsCap, NsBudget, NsBuilds} \subseteq Nat \ {0}
  /\ NsScenarios \subseteq SUBSET NsEvents

VARIABLES
  rows,     \* named_snapshots: [name, ver, build, key, free]
  mark,     \* named_snapshot_names: [keep, last] of each name, keep 0 where no row is
  grants,   \* names granted to the other user
  saves,    \* namedSaveInFlight: the state of each name's one key
  nl,       \* the two leases saved from: [live, busy, secret]
  sv,       \* the two save requests
  pr,       \* a retention run of a release or of a PUT keep
  st,       \* a create that starts from a version: [at, row, granted]
  ul,       \* builds that live leases were started from
  dl,       \* a DELETE: [at, name, ver, force], ver 0 for the whole name
  gr,       \* a POST grant: [at, name]
  owner,    \* "here", "going" (marked deleted), "gone" (its rows removed)
  lk,       \* a key lookup: [at, ans]
  taken,    \* checkpoints so far: a build is its number
  issued,   \* history: every <<name, version, build>> ever given
  nslip,    \* history of what crossed: [names, bytes, stray, let, tainted]
  nmay      \* the scenario

nsvars == <<rows, mark, grants, saves, nl, sv, pr, st, ul, dl, gr, owner, lk, taken,
            issued, nslip, nmay>>

SnapNames == {"a", "b"}
DefaultKeep == 1
NoSave == [at |-> "idle", lease |-> 1, name |-> "a", key |-> FALSE, build |-> 0,
           cand |-> {}, ans |-> "none"]
NoPrune == [at |-> "idle", name |-> "a", cand |-> {}]
NoSnapStart == [at |-> "idle", row |-> {}, granted |-> FALSE]
NoDelete == [at |-> "idle", name |-> "a", ver |-> 0, force |-> FALSE]

\* nslip: names, bytes: two saves passed the limit or the budget before either inserted;
\* stray: names deleted under a grant or a retention run that had looked; let: builds
\* whose row a delete or a retention run took although, or before, a create held them;
\* tainted: builds of leases that had had a secret by the checkpoint.
NoSlip == [names |-> FALSE, bytes |-> FALSE, stray |-> {}, let |-> {}, tainted |-> {}]

NSInit ==
  /\ rows = {} /\ mark = [n \in SnapNames |-> [keep |-> 0, last |-> 0]] /\ grants = {}
  /\ saves = [n \in SnapNames |-> "none"]
  /\ nmay \in NsScenarios
  /\ nl = [l \in 1 .. 2 |-> [live |-> TRUE, busy |-> FALSE, secret |-> FALSE]]
  /\ sv = [r \in 1 .. 2 |-> NoSave] /\ pr = NoPrune /\ st = NoSnapStart
  /\ ul = {} /\ dl = NoDelete /\ gr = [at |-> "idle", name |-> "a"]
  /\ owner = "here" /\ lk = [at |-> "idle", ans |-> "none"]
  /\ taken = 0 /\ issued = {} /\ nslip = NoSlip

Of(n) == {r \in rows : r.name = n}
ByKey(n) == {r \in Of(n) : r.key}
Latest(n) == {r \in Of(n) : \A q \in Of(n) : q.ver <= r.ver}
NamesUsed == {r.name : r \in rows}
Holds == IF st.at \in {"recheck", "vm"} THEN {r.build : r \in st.row} ELSE {}

(***************************************************************************)
(* A save.                                                                 *)
(***************************************************************************)
SaveOnly(r) == UNCHANGED <<mark, grants, pr, st, ul, dl, gr, owner, lk, nslip, nmay>>
Answer(r, a) == sv' = [sv EXCEPT ![r] = [NoSave EXCEPT !.at = "told", !.name = sv[r].name,
                                                       !.key = sv[r].key, !.ans = a]]

\* handleLeaseSnapshotSave: a key already saved is answered; a dead lease is refused.
SaveBegin(r, l, n, k) ==
  /\ sv[r].at = "idle" /\ owner = "here"
  /\ taken + Cardinality({q \in 1 .. 2 : sv[q].at \notin {"idle", "told"}})
       < NsBuilds - (IF "few" \in nmay THEN 1 ELSE 0)
  /\ r = 2 => sv[1].at # "idle" /\ "solo" \notin nmay
  /\ k => "key" \in nmay
  /\ l = 2 => "two" \in nmay
  /\ n = "b" => "names" \in nmay
  /\ LET new == [NoSave EXCEPT !.lease = l, !.name = n, !.key = k] IN
     sv' = [sv EXCEPT ![r] =
              IF k /\ ByKey(n) # {} THEN [new EXCEPT !.at = "told", !.ans = "saved"]
              ELSE IF ~nl[l].live THEN [new EXCEPT !.at = "told", !.ans = "error"]
              ELSE [new EXCEPT !.at = IF k THEN "claim" ELSE "busy"]]
  /\ UNCHANGED <<rows, saves, nl, taken, issued>> /\ SaveOnly(r)

\* begin: one save of a key at a time; a failed one is started again.
SaveClaim(r) ==
  LET n == sv[r].name IN
  /\ sv[r].at = "claim"
  /\ IF saves[n] = "in_progress"
     THEN Answer(r, "in_progress") /\ UNCHANGED saves
     ELSE /\ saves' = [saves EXCEPT ![n] = "in_progress"]
          /\ sv' = [sv EXCEPT ![r].at = "again"]
  /\ UNCHANGED <<rows, nl, taken, issued>> /\ SaveOnly(r)

\* done: the claim is dropped, if it is still one.
Done(r) == [saves EXCEPT ![sv[r].name] = IF sv[r].key /\ @ = "in_progress" THEN "none" ELSE @]

\* The key is looked up again under the claim.
SaveAgain(r) ==
  /\ sv[r].at = "again"
  /\ IF ByKey(sv[r].name) # {} THEN Answer(r, "saved") /\ saves' = Done(r)
     ELSE sv' = [sv EXCEPT ![r].at = "busy"] /\ UNCHANGED saves
  /\ UNCHANGED <<rows, nl, taken, issued>> /\ SaveOnly(r)

\* Mutant: a save refused because its lease is busy leaves its claim behind.
ClaimLeft(r) == saves

\* lease_busy: the claim is given up, not failed.
BusyClaim(r) == Done(r)

\* saveLeaseSnapshot: one operation on a lease at a time.
SaveBusy(r) ==
  LET l == sv[r].lease IN
  /\ sv[r].at = "busy"
  /\ IF nl[l].busy
     THEN Answer(r, "error") /\ saves' = BusyClaim(r) /\ UNCHANGED nl
     ELSE /\ nl' = [nl EXCEPT ![l].busy = TRUE]
          /\ sv' = [sv EXCEPT ![r].at = "limit"] /\ UNCHANGED saves
  /\ UNCHANGED <<rows, taken, issued>> /\ SaveOnly(r)

\* A save that fails: the lease is free, the key's state is failed.
NamedSaveFails(r) ==
  /\ nl' = [nl EXCEPT ![sv[r].lease].busy = FALSE]
  /\ saves' = IF sv[r].key THEN [saves EXCEPT ![sv[r].name] = "failed"] ELSE saves
  /\ Answer(r, "error")
  /\ UNCHANGED <<rows, mark, issued>>

\* Mutant: the limit counts the names without the one to come.
AllowsOneMore(n) == Of(n) # {} \/ Cardinality(NamesUsed) <= NsCap

\* checkNamedSnapshotLimit: an existing name, or one more name.
NameAllowed(n) == Of(n) # {} \/ Cardinality(NamesUsed) < NsCap

\* Save q, of another new name, is past the same check and not yet inserted.
OtherNew(q, n) ==
  /\ sv[q].at \in {"checkpoint", "budget", "insert"} /\ sv[q].name # n
  /\ Of(n) = {} /\ Of(sv[q].name) = {}

\* The checks before the checkpoint: secrets in use, the name limit, the scrub.
SaveLimit(r) ==
  /\ sv[r].at = "limit"
  /\ \/ /\ NameAllowed(sv[r].name)
        /\ sv' = [sv EXCEPT ![r].at = "checkpoint"]
        /\ nslip' = [nslip EXCEPT !.names = @ \/ \E q \in 1 .. 2 : OtherNew(q, sv[r].name)]
        /\ UNCHANGED <<rows, saves, nl, issued>>
     \/ /\ ~NameAllowed(sv[r].name) \/ "fail" \in nmay
        /\ NamedSaveFails(r) /\ UNCHANGED nslip
  /\ UNCHANGED <<mark, taken, grants, pr, st, ul, dl, gr, owner, lk, nmay>>

\* checkpointLease: a build, or an error; a lease released meanwhile saves nothing.
SaveCheckpoint(r) ==
  /\ sv[r].at = "checkpoint"
  /\ \/ /\ nl[sv[r].lease].live
        /\ taken' = taken + 1
        /\ sv' = [sv EXCEPT ![r].at = "budget", ![r].build = taken + 1]
        /\ nslip' = IF nl[sv[r].lease].secret
                   THEN [nslip EXCEPT !.tainted = @ \cup {taken + 1}] ELSE nslip
        /\ UNCHANGED <<rows, saves, nl, issued>>
     \/ /\ ~nl[sv[r].lease].live \/ "fail" \in nmay
        /\ NamedSaveFails(r) /\ UNCHANGED <<taken, nslip>>
  /\ UNCHANGED <<mark, grants, pr, st, ul, dl, gr, owner, lk, nmay>>

\* enforceNamedSnapshotBudget: the owner's versions and this one.
WithinBudget == Cardinality(rows) + 1 <= NsBudget

SaveBudget(r) ==
  /\ sv[r].at = "budget"
  /\ IF WithinBudget
     THEN /\ sv' = [sv EXCEPT ![r].at = "insert"]
          /\ nslip' = [nslip EXCEPT !.bytes = @ \/ \E q \in 1 .. 2 : sv[q].at = "insert"]
          /\ UNCHANGED <<rows, saves, nl, issued>>
     ELSE NamedSaveFails(r) /\ UNCHANGED nslip
  /\ UNCHANGED <<mark, taken, grants, pr, st, ul, dl, gr, owner, lk, nmay>>

\* Mutant: the next version follows the versions there are.
NextOfRows(n) == 1 + Cardinality(Of(n))

\* insertNamedSnapshotTx: one past every version the name ever had.
NextVersion(n) ==
  LET seen == {r.ver : r \in Of(n)} \cup {mark[n].last} IN
  1 + CHOOSE v \in seen : \A w \in seen : w <= v

\* InsertNamedSnapshot: a version, and the name's row or its high-water mark.
InsertVersion(n, row) ==
  /\ rows' = rows \cup {row}
  /\ mark' = [mark EXCEPT ![n] = [keep |-> IF @.keep = 0 THEN DefaultKeep ELSE @.keep,
                                  last |-> row.ver]]
  /\ issued' = issued \cup {<<n, row.ver, row.build>>}

\* Mutant: the owner's mark is not looked at with the insert.
NobodyGone == TRUE

\* deletedOwners, read under the lock that also covers the insert.
OwnerThere == owner = "here"

\* The row; a key that another save inserted first is answered from its row.
SaveInsert(r) ==
  LET n == sv[r].name IN
  /\ sv[r].at = "insert"
  /\ IF ~OwnerThere THEN NamedSaveFails(r)
     ELSE IF sv[r].key /\ ByKey(n) # {}
     THEN /\ Answer(r, "saved") /\ saves' = Done(r)
          /\ nl' = [nl EXCEPT ![sv[r].lease].busy = FALSE]
          /\ UNCHANGED <<rows, mark, issued>>
     ELSE /\ InsertVersion(n, [name |-> n, ver |-> NextVersion(n), build |-> sv[r].build,
                               key |-> sv[r].key, free |-> ~nl[sv[r].lease].secret])
          /\ sv' = [sv EXCEPT ![r].at = "prune"]
          /\ UNCHANGED <<saves, nl>>
  /\ UNCHANGED <<taken, grants, pr, st, ul, dl, gr, owner, lk, nslip, nmay>>

(***************************************************************************)
(* Retention: candidates are read, then deleted in a transaction.          *)
(***************************************************************************)
\* effectiveKeep.
KeepOf(n) == IF mark[n].keep > 0 THEN mark[n].keep ELSE DefaultKeep

\* The versions past the name's last `keep`, less those a create is starting from.
Candidates(n) ==
  {r \in Of(n) : /\ Cardinality({q \in Of(n) : q.ver > r.ver}) >= KeepOf(n)
                 /\ r.build \notin Holds}

\* PruneNamedSnapshotsKeeping: a candidate that a live lease runs from stays.
Pruned(cand) == {r \in cand : r.build \notin ul}

SavePruneRead(r) ==
  /\ sv[r].at = "prune"
  /\ sv' = [sv EXCEPT ![r].at = "pruning", ![r].cand = Candidates(sv[r].name)]
  /\ UNCHANGED <<rows, saves, nl, taken, issued>> /\ SaveOnly(r)

\* The delete, and the end of the save: the lease free, the claim done, the answer.
SavePrune(r) ==
  /\ sv[r].at = "pruning"
  /\ rows' = rows \ Pruned(sv[r].cand)
  /\ nl' = [nl EXCEPT ![sv[r].lease].busy = FALSE] /\ saves' = Done(r)
  /\ Answer(r, "saved")
  /\ UNCHANGED <<taken, issued>> /\ SaveOnly(r)

\* The client has its answer and may ask again.
SaveAgainLater(r) ==
  /\ sv[r].at = "told" /\ sv' = [sv EXCEPT ![r] = NoSave]
  /\ UNCHANGED <<rows, saves, nl, taken, issued>> /\ SaveOnly(r)

\* handleNamedSnapshotKeep.
PutKeep(n, k) ==
  /\ "keep" \in nmay /\ pr.at = "idle" /\ owner = "here"
  /\ Of(n) # {} /\ mark[n].keep # k
  /\ mark' = [mark EXCEPT ![n].keep = k] /\ pr' = [NoPrune EXCEPT !.at = "prune", !.name = n]
  /\ UNCHANGED <<rows, grants, saves, nl, sv, st, ul, dl, gr, owner, lk, taken, issued, nslip, nmay>>

PruneRead ==
  /\ pr.at = "prune" /\ pr' = [pr EXCEPT !.at = "pruning", !.cand = Candidates(pr.name)]
  /\ UNCHANGED <<rows, mark, grants, saves, nl, sv, st, ul, dl, gr, owner, lk, taken,
                 issued, nslip, nmay>>
PruneEnd ==
  /\ pr.at = "pruning" /\ rows' = rows \ Pruned(pr.cand) /\ pr' = NoPrune
  /\ UNCHANGED <<mark, grants, saves, nl, sv, st, ul, dl, gr, owner, lk, taken, issued, nslip, nmay>>

(***************************************************************************)
(* Starts, releases, deletes, grants, lookups.                             *)
(***************************************************************************)
StartKeeps == UNCHANGED <<rows, mark, grants, saves, nl, sv, dl, gr, owner, lk, taken, issued>>

\* Mutant: the version's mark is not looked at.
AnyVersion(r, granted) == TRUE

\* What a caller may start: its own versions; another's only through a grant, and
\* only one saved from a lease that never had a secret.
MayStart(r, granted) == granted => r.name \in grants /\ r.free

\* snapshotStartFromRequest: the version is read, then its build is held.  Where
\* there are grants the starts are the other user's.
SnapStartRead(r, granted) ==
  /\ "start" \in nmay /\ st.at = "idle" /\ MayStart(r, granted)
  /\ granted = ("grant" \in nmay)
  /\ st' = [at |-> "hold", row |-> {r}, granted |-> granted]
  /\ UNCHANGED <<pr, ul, nmay>> /\ StartKeeps /\ UNCHANGED nslip

\* The build is held; a delete or a retention run that has looked does not see it.
SnapStartHold ==
  /\ st.at = "hold" /\ st' = [st EXCEPT !.at = "recheck"]
  /\ nslip' = IF dl.at = "row" \/ pr.at = "pruning" \/ \E q \in 1 .. 2 : sv[q].at = "pruning"
             THEN [nslip EXCEPT !.let = @ \cup {r.build : r \in st.row}] ELSE nslip
  /\ UNCHANGED <<pr, ul, nmay>> /\ StartKeeps

\* The grant and the version are read again under the hold.
SnapStartRecheck ==
  /\ st.at = "recheck"
  /\ \/ /\ \E r \in st.row : r \in rows /\ (st.granted => r.name \in grants)
        /\ st' = [st EXCEPT !.at = "vm"] /\ UNCHANGED nmay
     \/ /\ \A r \in st.row : r \notin rows \/ (st.granted /\ r.name \notin grants)
        /\ st' = NoSnapStart /\ nmay' = nmay \cup {"letgo"}
  /\ UNCHANGED <<pr, ul>> /\ StartKeeps /\ UNCHANGED nslip

\* The lease runs from the build, or the create failed and let go of it.
SnapStartEnd ==
  /\ st.at = "vm" /\ st' = NoSnapStart
  /\ \/ ul' = ul \cup {r.build : r \in st.row} /\ UNCHANGED nmay
     \/ "startfail" \in nmay /\ UNCHANGED ul /\ nmay' = nmay \cup {"letgo"}
  /\ UNCHANGED pr /\ StartKeeps /\ UNCHANGED nslip

\* Mutant: a release leaves retention to the next save.
NoRerun(b) == pr

\* rerunSnapshotRetention, for the version the released lease ran from.
Rerun(b) == IF \E r \in rows : r.build = b
            THEN [NoPrune EXCEPT !.at = "prune",
                                 !.name = (CHOOSE r \in rows : r.build = b).name]
            ELSE pr

\* releaseBecauseIf of a lease started from b.
ReleaseStarted(b) ==
  /\ pr.at = "idle"
  /\ b \in ul /\ ul' = ul \ {b} /\ pr' = Rerun(b)
  /\ UNCHANGED <<st, nmay>> /\ StartKeeps /\ UNCHANGED nslip

\* A source lease is released.
ReleaseSource(l) ==
  /\ "release" \in nmay /\ nl[l].live /\ nl' = [nl EXCEPT ![l].live = FALSE]
  /\ UNCHANGED <<rows, mark, grants, saves, sv, pr, st, ul, dl, gr, owner, lk, taken,
                 issued, nslip, nmay>>

\* A lease is given a secret, and has had one ever after (markHadSecrets).
SecretStaged(l) ==
  /\ "secret" \in nmay /\ ~nl[l].secret /\ ~nl[l].busy
  /\ nl' = [nl EXCEPT ![l].secret = TRUE]
  /\ UNCHANGED <<rows, mark, grants, saves, sv, pr, st, ul, dl, gr, owner, lk, taken,
                 issued, nslip, nmay>>

\* Mutant: grants outlive the name's versions.
GrantsStay(left) == grants

\* dropGrantsIfEmptyTx: a name without versions has no grants.
GrantsAfter(left) == grants \cap {r.name : r \in left}

\* Mutant: only leases are asked, not the creates in flight.
LeasesOnly(gone) == \A r \in gone : r.build \notin ul

\* LiveLeasesUsingBuild and startingBuild, for every version to go.
NotInUse(gone) == \A r \in gone : r.build \notin ul \cup Holds

\* What a DELETE of one version, or of the whole name, takes.
Going(n, v) == {r \in Of(n) : v \in {0, r.ver}}

\* handleNamedSnapshotDelete: something to delete, and without force nothing in use.
SnapDeleteCheck(n, v, force) ==
  /\ "delete" \in nmay /\ dl.at = "idle" /\ Going(n, v) # {}
  /\ force => "start" \in nmay
  /\ force \/ NotInUse(Going(n, v))
  /\ dl' = [at |-> "row", name |-> n, ver |-> v, force |-> force]
  /\ UNCHANGED <<rows, mark, grants, saves, nl, sv, pr, st, ul, gr, owner, lk, taken,
                 issued, nslip, nmay>>

\* A grant or a retention run of the name has looked, and is not done.
HasLooked(n) ==
  \/ gr.at = "insert" /\ gr.name = n
  \/ \E r \in pr.cand \cup sv[1].cand \cup sv[2].cand : r.name = n

\* DeleteNamedSnapshot, DeleteNamedSnapshotName: the rows there are now.
SnapDeleteRows ==
  LET gone == Going(dl.name, dl.ver) IN
  /\ dl.at = "row" /\ dl' = NoDelete
  /\ rows' = rows \ gone /\ grants' = GrantsAfter(rows \ gone)
  /\ nslip' = [nslip EXCEPT !.stray = IF HasLooked(dl.name) THEN @ \cup {dl.name} ELSE @,
                          !.let = IF dl.force THEN @ \cup {r.build : r \in gone} ELSE @]
  /\ UNCHANGED <<mark, saves, nl, sv, pr, st, ul, gr, owner, lk, taken, issued, nmay>>

\* handleNamedSnapshotGrantCreate: the latest version is read, then the grant written.
GrantRead(n) ==
  /\ "grant" \in nmay /\ gr.at = "idle" /\ owner = "here" /\ n \notin grants
  /\ \E r \in Latest(n) : r.free
  /\ gr' = [at |-> "insert", name |-> n]
  /\ UNCHANGED <<rows, mark, grants, saves, nl, sv, pr, st, ul, dl, owner, lk, taken,
                 issued, nslip, nmay>>

GrantInsert ==
  /\ gr.at = "insert" /\ gr' = [gr EXCEPT !.at = "idle"]
  /\ grants' = grants \cup {gr.name}
  /\ UNCHANGED <<rows, mark, saves, nl, sv, pr, st, ul, dl, owner, lk, taken, issued, nslip, nmay>>

\* handleNamedSnapshotGrantDelete.
Revoke(n) ==
  /\ n \in grants /\ grants' = grants \ {n}
  /\ UNCHANGED <<rows, mark, saves, nl, sv, pr, st, ul, dl, gr, owner, lk, taken, issued, nslip,
                 nmay>>

\* handleNamedSnapshotKeyLookup: the row, then the save in flight.
LookRow(n) ==
  /\ "look" \in nmay /\ lk.at \in {"idle", "told"}
  /\ lk' = IF ByKey(n) # {} THEN [at |-> "told", ans |-> "ready"]
           ELSE [at |-> "map", ans |-> "none"]
  /\ UNCHANGED <<rows, mark, grants, saves, nl, sv, pr, st, ul, dl, gr, owner, taken,
                 issued, nslip, nmay>>

LookMap(n) ==
  /\ lk.at = "map"
  /\ lk' = [at |-> "told", ans |-> IF saves[n] = "none" THEN "absent" ELSE saves[n]]
  /\ UNCHANGED <<rows, mark, grants, saves, nl, sv, pr, st, ul, dl, gr, owner, taken,
                 issued, nslip, nmay>>

\* pruneLocked: a failure is forgotten after a day.
ForgetFailed(n) ==
  /\ saves[n] = "failed" /\ saves' = [saves EXCEPT ![n] = "none"]
  /\ UNCHANGED <<rows, mark, grants, nl, sv, pr, st, ul, dl, gr, owner, lk, taken, issued, nslip,
                 nmay>>

\* The owner is deleted: marked and its leases released, then its rows removed.
OwnerMark ==
  /\ "owner" \in nmay /\ owner = "here" /\ owner' = "going"
  /\ nl' = [l \in 1 .. 2 |-> [nl[l] EXCEPT !.live = FALSE]]
  /\ UNCHANGED <<rows, mark, grants, saves, sv, pr, st, ul, dl, gr, lk, taken, issued, nslip, nmay>>

OwnerRows ==
  /\ owner = "going" /\ owner' = "gone" /\ rows' = {} /\ grants' = {}
  /\ mark' = [n \in SnapNames |-> [keep |-> 0, last |-> 0]]
  /\ nslip' = [nslip EXCEPT !.stray = @ \cup {n \in SnapNames : HasLooked(n)},
                          !.let = @ \cup {r.build : r \in rows}]
  /\ UNCHANGED <<saves, nl, sv, pr, st, ul, dl, gr, lk, taken, issued, nmay>>

\* The backend restarts: what was in flight and in memory is gone.
SaveRestart ==
  /\ "restart" \in nmay /\ nmay' = (nmay \ {"restart"}) \cup {"restarted"}
  /\ saves' = [n \in SnapNames |-> "none"] /\ sv' = [r \in 1 .. 2 |-> NoSave]
  /\ nl' = [l \in 1 .. 2 |-> [nl[l] EXCEPT !.busy = FALSE]]
  /\ pr' = NoPrune /\ st' = NoSnapStart /\ lk' = [at |-> "idle", ans |-> "none"]
  /\ dl' = NoDelete /\ gr' = [gr EXCEPT !.at = "idle"]
  /\ UNCHANGED <<rows, mark, grants, ul, owner, taken, issued, nslip>>

SaveStep(r) == SaveClaim(r) \/ SaveAgain(r) \/ SaveBusy(r) \/ SaveLimit(r)
               \/ SaveCheckpoint(r) \/ SaveBudget(r) \/ SaveInsert(r)
               \/ SavePruneRead(r) \/ SavePrune(r)

NSNext ==
  \/ \E r \in 1 .. 2 : \/ SaveStep(r) \/ SaveAgainLater(r)
                       \/ \E l \in 1 .. 2, n \in SnapNames, k \in BOOLEAN : SaveBegin(r, l, n, k)
  \/ \E n \in SnapNames : \/ \E v \in 0 .. NsBuilds, f \in BOOLEAN : SnapDeleteCheck(n, v, f)
                          \/ GrantRead(n) \/ Revoke(n) \/ ForgetFailed(n)
                          \/ \E k \in 1 .. 2 : PutKeep(n, k)
  \/ \E r \in rows, g \in BOOLEAN : SnapStartRead(r, g)
  \/ \E b \in ul : ReleaseStarted(b)
  \/ \E l \in 1 .. 2 : ReleaseSource(l)
  \/ SecretStaged(1)
  \/ LookRow("a") \/ LookMap("a")
  \/ PruneRead \/ PruneEnd \/ SnapStartHold \/ SnapStartRecheck \/ SnapStartEnd
  \/ SnapDeleteRows \/ GrantInsert \/ OwnerMark \/ OwnerRows \/ SaveRestart

NSSpec == NSInit /\ [][NSNext]_nsvars

(***************************************************************************)
(* Properties.                                                             *)
(***************************************************************************)
\* A version number names one build for ever: whatever is pruned, deleted or lost in
\* a restart, no later save of the name gets the number again (insertNamedSnapshotTx).
VersionsNeverReused ==
  \A i, j \in issued : i[1] = j[1] /\ i[2] = j[2] => i[3] = j[3]

\* The owner's names and bytes stay within their limits, however saves, deletes and
\* retries interleave; saves of two leases that were checked side by side go past
\* each by one save at most (checkNamedSnapshotLimit, enforceNamedSnapshotBudget).
WithinLimits ==
  /\ Cardinality(NamesUsed) <= NsCap + (IF nslip.names THEN 1 ELSE 0)
  /\ Cardinality(rows) <= NsBudget + (IF nslip.bytes THEN 1 ELSE 0)

\* A grant is on a name that has versions: what is saved under the name after its last
\* version went is private.  Only a delete between what a grant or a retention run
\* read and what it wrote leaves a grant on an empty name (dropGrantsIfEmptyTx).
GrantsCoverVersions == grants \subseteq NamesUsed \cup nslip.stray

\* What the other user is starting holds the memory of a lease that had had no secret
\* when it was checkpointed, whenever the secret came and the version was saved,
\* granted and read (markHadSecrets, saveNamedSnapshot, snapshotStartFromRequest).
GrantedIsSecretFree == st.granted => \A r \in st.row : r.build \notin nslip.tainted

\* A create that found its version under the hold keeps it, and so does the lease it
\* becomes: no delete and no retention run takes it, but a forced delete, the owner's
\* deletion, and one that had looked before the hold (startingBuild, extraInUse).
StartedIsKept ==
  \A b \in ul \cup (IF st.at = "vm" THEN {r.build : r \in st.row} ELSE {}) :
    b \in nslip.let \/ \E r \in rows : r.build = b

\* A deleted owner's rows do not come back, even by a save that was past its
\* checkpoint (saveNamedSnapshot and the owner's mark).
DeletedSavesNothing == owner = "gone" => rows = {}

\* With nothing in flight, a version past the name's retention is one a live lease
\* runs from: whatever spared it, its end runs the retention again (after a
\* restart, or a create that ended without a lease, the name's next save does)
\* (PruneNamedSnapshotsKeeping, rerunSnapshotRetention).
RetentionCatchesUp ==
  (/\ {"restarted", "letgo"} \cap nmay = {}
   /\ pr.at = "idle" /\ st.at = "idle" /\ \A r \in 1 .. 2 : sv[r].at \in {"idle", "told"})
    => \A n \in SnapNames : \A r \in Candidates(n) : r.build \in ul

\* A key never stays "in progress": the save that claimed it ends, or the claim is
\* dropped with it (namedSaveInFlight).
ClaimEnds == \A n \in SnapNames : (saves[n] = "in_progress") ~> (saves[n] # "in_progress")

\* What an owner sees of named snapshots: versions with one meaning, limits that
\* hold, grants that stand on something, and nothing after the owner is deleted.
SnapshotsHold ==
  /\ VersionsNeverReused
  /\ WithinLimits
  /\ GrantsCoverVersions
  /\ GrantedIsSecretFree
  /\ StartedIsKept
  /\ DeletedSavesNothing
  /\ RetentionCatchesUp
=============================================================================
