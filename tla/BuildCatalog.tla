---------------------------- MODULE BuildCatalog ----------------------------
(***************************************************************************)
(* The catalog of builds (store/catalog.go), what refers to a build, and   *)
(* the three things that delete one: the garbage collector (api/gc.go), an *)
(* owner's DELETE /api/snapshots/{id} and the reclaim of a released pause  *)
(* (api/disk_room.go).  Each computes the keep set with one query per kind *)
(* of reference, so what happens between two queries is modelled.  The     *)
(* orphan reaper (api/gc_orphans.go) sweeps the directories themselves.    *)
(*                                                                         *)
(* Abstractions: a build's header maps pages from all its ancestors; one   *)
(* lease operation, one create from a snapshot or a warm build and one     *)
(* deletion (GC pass, owner's or reclaim) are in flight at a time; ages    *)
(* are two, and no operation but an image build lasts the hour that makes  *)
(* a build old.                                                            *)
(***************************************************************************)
EXTENDS Integers, FiniteSets, Sequences

CONSTANTS NBuilds,      \* build ids; the first is the image's first template
          BcScenarios   \* sets of events allowed together

Builds == 0 .. NBuilds - 1
NoBuild == -1

\* What a scenario may allow.  "overlap": a build is inserted while a keep set
\* is being computed; "unlisted": an owner deletes a build that is not yet (or
\* only just) referenced; "warm": creates from a warm size build; "fail": a
\* deletion's two writes may fail; "few": only three builds.
BcEvents == {"few", "checkpoint", "keep", "pause", "restore", "save", "start", "delete", "force",
             "rebuild", "lose", "reap", "late", "warm", "overlap", "unlisted", "fail"}
ASSUME BcAssumption == NBuilds \in Nat /\ BcScenarios \subseteq SUBSET BcEvents

VARIABLES
  cat,      \* builds rows: state, parent, refs, whether an hour old
  dirs,     \* build directories in the template store: "none", "young", "old"
  quar,     \* the same in the quarantine directory
  hdr,      \* the builds each directory's headers map pages from
  current,  \* the image's current build
  warm,     \* the image's warm size build, or NoBuild
  named,    \* builds a named snapshot version points at
  keeps,    \* builds lease 1 keeps (lease_kept_builds)
  bl,       \* leases: state, build, resume, ckpt, snap and the sandbox row's build
  bop,      \* the lease operation in flight
  bstart,   \* the create from a snapshot or warm build in flight
  bhold,    \* startingBuilds
  bdel,     \* the version a delete handler has checked, or NoBuild
  rebuild,  \* the image build in flight, or NoBuild
  scan,     \* the keep set being computed and what it is for
  aside,    \* history: builds that came beside a deletion which did not see them
  bmay      \* the scenario

bcvars == <<cat, dirs, quar, hdr, current, warm, named, keeps, bl, bop, bstart,
            bhold, bdel, rebuild, scan, aside, bmay>>

NoRow == [st |-> "none", parent |-> NoBuild, refs |-> {}, old |-> FALSE]
GoneLease == [st |-> "gone", build |-> NoBuild, resume |-> NoBuild,
              ckpt |-> NoBuild, snap |-> NoBuild, row |-> NoBuild]
RootQueries == <<"r.builds", "r.images", "r.warm", "r.leases", "r.kept", "r.named",
                 "r.starting", "r.sandboxes">>
NoOp == [what |-> "none", at |-> "idle", l |-> 1, b |-> NoBuild, parent |-> NoBuild]
NoStart == [kind |-> "none", at |-> "idle", b |-> NoBuild]
NoScan == [at |-> "idle", for |-> NoBuild, cat |-> <<>>, refs |-> <<>>, seen |-> {},
           kept |-> {}]

\* One image built long ago, its warm build, and a lease running from it.
BCInit ==
  /\ bmay \in BcScenarios
  /\ cat = [b \in Builds |->
              IF b = 0 \/ (b = 1 /\ "warm" \in bmay)
              THEN [NoRow EXCEPT !.st = "ready", !.old = TRUE] ELSE NoRow]
  /\ dirs = [b \in Builds |-> IF cat[b].st = "ready" THEN "old" ELSE "none"]
  /\ quar = [b \in Builds |-> "none"]
  /\ hdr = [b \in Builds |-> {}]
  /\ current = 0
  /\ warm = IF "warm" \in bmay THEN 1 ELSE NoBuild
  /\ named = {} /\ keeps = {} /\ bhold = {}
  /\ bl = [l \in 1 .. 2 |-> IF l = 1 THEN [GoneLease EXCEPT !.st = "running",
                                             !.build = 0, !.row = 0]
                                     ELSE GoneLease]
  /\ bop = NoOp /\ bstart = NoStart /\ bdel = NoBuild /\ rebuild = NoBuild
  /\ scan = NoScan /\ aside = {}

\* Every file a VM started from b maps is in the template store.
Whole(b) == \A c \in {b} \cup hdr[b] : dirs[c] # "none"

Unused == {b \in Builds : cat[b].st = "none" /\ dirs[b] = "none" /\ quar[b] = "none"}
\* A build id no one has used: e2b.NewUUID.
Fresh(b) == b \in Unused /\ (b < 3 \/ "few" \notin bmay) /\ \A c \in Unused : b <= c

(***************************************************************************)
(* Lease operations that write a build: checkpoint, checkpoint with keep,  *)
(* a named save, and a pause.                                              *)
(***************************************************************************)
OpWhat == {"checkpoint", "keep", "save", "pause"} \cap bmay

\* The substrate writes the files.
OpWrite(l, w) ==
  /\ bop.at = "idle" /\ bl[l].st = "running" /\ w \in OpWhat
  /\ l = 2 => w \in {"checkpoint", "pause"}
  /\ \E b \in Builds :
       /\ Fresh(b)
       /\ dirs' = [dirs EXCEPT ![b] = "young"]
       /\ hdr' = [hdr EXCEPT ![b] = {bl[l].build} \cup hdr[bl[l].build]]
       /\ bop' = [what |-> w, at |-> "row", l |-> l, b |-> b, parent |-> bl[l].build]
  /\ UNCHANGED <<cat, quar, current, warm, named, keeps, bl, bstart, bhold, bdel,
                 rebuild, scan, aside, bmay>>

\* A keep set is being computed, or what it leaves is being deleted.
Choosing == scan.at \notin {"idle", "dirs", "reap"} \cup {RootQueries[i] : i \in DOMAIN RootQueries}

\* The parent's row is read and the build's inserted, ready.
OpRow ==
  /\ bop.at = "row"
  /\ "overlap" \in bmay \/ scan.at = "idle"
  /\ cat' = [cat EXCEPT ![bop.b] = [st |-> "ready", parent |-> bop.parent,
                                    refs |-> {}, old |-> FALSE]]
  /\ bop' = [bop EXCEPT !.at = "refs"]
  /\ aside' = IF Choosing THEN aside \cup {bop.b} ELSE aside
  /\ UNCHANGED <<dirs, quar, hdr, current, warm, named, keeps, bl, bstart, bhold,
                 bdel, rebuild, scan, bmay>>

\* The insert fails: files with no row.
OpFail ==
  /\ bop.at = "row" /\ bop.what # "pause"
  /\ bop' = NoOp
  /\ UNCHANGED <<cat, dirs, quar, hdr, current, warm, named, keeps, bl, bstart, bhold,
                 bdel, rebuild, scan, aside, bmay>>

\* AddBuildRefs.
OpRefs ==
  /\ bop.at = "refs"
  /\ cat' = [cat EXCEPT ![bop.b].refs = hdr[bop.b]]
  /\ bop' = [bop EXCEPT !.at = "lease"]
  /\ UNCHANGED <<dirs, quar, hdr, current, warm, named, keeps, bl, bstart, bhold,
                 bdel, rebuild, scan, aside, bmay>>

\* The lease takes the build, unless it was released meanwhile.
OpLease ==
  /\ bop.at = "lease"
  /\ LET b == bop.b  l == bop.l IN
     \/ /\ bl[l].st # "running" /\ bop' = NoOp /\ UNCHANGED bl
     \/ /\ bl[l].st = "running" /\ bop.what = "pause"
        /\ bl' = [bl EXCEPT ![l].st = "suspended", ![l].resume = b]
        /\ bop' = [bop EXCEPT !.at = "sbrow"]
     \/ /\ bl[l].st = "running" /\ bop.what # "pause"
        /\ bl' = [bl EXCEPT ![l].build = b, ![l].ckpt = b, ![l].row = b]
        /\ bop' = IF bop.what = "checkpoint" THEN NoOp ELSE [bop EXCEPT !.at = "record"]
  /\ UNCHANGED <<cat, dirs, quar, hdr, current, warm, named, keeps, bstart, bhold,
                 bdel, rebuild, scan, aside, bmay>>

\* A pause's sandbox row goes last.
OpSandboxRow ==
  /\ bop.at = "sbrow"
  /\ bl' = [bl EXCEPT ![bop.l].row = NoBuild]
  /\ bop' = NoOp
  /\ UNCHANGED <<cat, dirs, quar, hdr, current, warm, named, keeps, bstart, bhold,
                 bdel, rebuild, scan, aside, bmay>>

\* The kept row or the version row, unless the lease was released.
OpRecord ==
  /\ bop.at = "record"
  /\ bop' = NoOp
  /\ IF bl[bop.l].st = "gone" THEN UNCHANGED <<keeps, named>>
     ELSE /\ keeps' = IF bop.what = "keep" THEN keeps \cup {bop.b} ELSE keeps
          /\ named' = IF bop.what = "save" THEN named \cup {bop.b} ELSE named
  /\ UNCHANGED <<cat, dirs, quar, hdr, current, warm, bl, bstart, bhold, bdel,
                 rebuild, scan, aside, bmay>>

\* The lease starts again from its pause.
ResumeLease(l) ==
  /\ bop.at = "idle" /\ bl[l].st = "suspended" /\ Whole(bl[l].resume)
  /\ bl' = [bl EXCEPT ![l].st = "running", ![l].build = bl[l].resume,
                      ![l].row = bl[l].resume]
  /\ UNCHANGED <<cat, dirs, quar, hdr, current, warm, named, keeps, bop, bstart, bhold,
                 bdel, rebuild, scan, aside, bmay>>

\* restoreTarget: the last checkpoint, a kept build or the start snapshot.
RestoreBegin(l, b) ==
  /\ "restore" \in bmay /\ bop.at = "idle" /\ bl[l].st \in {"running", "suspended"}
  /\ b \in {bl[l].ckpt, bl[l].snap} \cup (IF l = 1 THEN keeps ELSE {})
  /\ b # NoBuild /\ cat[b].st = "ready"
  /\ bop' = [what |-> "restore", at |-> "vm", l |-> l, b |-> b, parent |-> NoBuild]
  /\ UNCHANGED <<cat, dirs, quar, hdr, current, warm, named, keeps, bl, bstart, bhold,
                 bdel, rebuild, scan, aside, bmay>>

\* The VM starts and its sandbox row replaces the old one, or the files are gone.
RestoreVM ==
  /\ bop.at = "vm"
  /\ \/ /\ Whole(bop.b) /\ bl[bop.l].st # "gone"
        /\ bl' = [bl EXCEPT ![bop.l].row = bop.b]
        /\ bop' = [bop EXCEPT !.at = "commit"]
     \/ ~Whole(bop.b) /\ bop' = NoOp /\ UNCHANGED bl
     \/ bl[bop.l].st = "gone" /\ bop' = NoOp /\ UNCHANGED bl
  /\ UNCHANGED <<cat, dirs, quar, hdr, current, warm, named, keeps, bstart, bhold,
                 bdel, rebuild, scan, aside, bmay>>

RestoreCommit ==
  /\ bop.at = "commit"
  /\ bl' = IF bl[bop.l].st = "gone" THEN [bl EXCEPT ![bop.l].row = NoBuild]
           ELSE [bl EXCEPT ![bop.l].st = "running", ![bop.l].build = bop.b,
                           ![bop.l].resume = NoBuild]
  /\ bop' = NoOp
  /\ UNCHANGED <<cat, dirs, quar, hdr, current, warm, named, keeps, bstart, bhold,
                 bdel, rebuild, scan, aside, bmay>>

\* A release: the sandbox row, the kept rows and the lease row go.
ReleaseBuilds(l) ==
  /\ bl[l].st \in {"running", "suspended"}
  /\ bl' = [bl EXCEPT ![l] = GoneLease]
  /\ keeps' = IF l = 1 THEN {} ELSE keeps
  /\ UNCHANGED <<cat, dirs, quar, hdr, current, warm, named, bop, bstart, bhold, bdel,
                 rebuild, scan, aside, bmay>>

\* A substrate crash loses the lease; its grace period runs out later.
LoseLease(l) ==
  /\ "lose" \in bmay /\ bop.at = "idle" /\ bl[l].st \in {"running", "suspended"}
  /\ bl' = [bl EXCEPT ![l].st = "lost", ![l].row = NoBuild]
  /\ UNCHANGED <<cat, dirs, quar, hdr, current, warm, named, keeps, bop, bstart, bhold,
                 bdel, rebuild, scan, aside, bmay>>

(***************************************************************************)
(* A create from a named version or a warm size build.                     *)
(***************************************************************************)
StartRead(b) ==
  /\ bstart.at = "idle" /\ bl[2].st = "gone" /\ bop.l # 2
  /\ \/ "start" \in bmay /\ b \in named /\ bstart' = [kind |-> "named", at |-> "hold", b |-> b]
     \/ b = warm /\ bstart' = [kind |-> "warm", at |-> "hold", b |-> b]
  /\ UNCHANGED <<cat, dirs, quar, hdr, current, warm, named, keeps, bl, bop, bhold,
                 bdel, rebuild, scan, aside, bmay>>

\* beginStartingBuild; a pass that has read the holds does not see this one.
StartHold ==
  /\ bstart.at = "hold"
  /\ bhold' = bhold \cup {bstart.b}
  /\ bstart' = [bstart EXCEPT !.at = "recheck"]
  /\ aside' = IF bstart.kind = "warm" /\ scan.at \in {"sandboxes", "list", "sweep", "gcmark"}
              THEN aside \cup {bstart.b} ELSE aside
  /\ UNCHANGED <<cat, dirs, quar, hdr, current, warm, named, keeps, bl, bop, bdel,
                 rebuild, scan, bmay>>

\* Mutant: the version is not looked up again once held.
NoRecheck == TRUE

\* With the build held, the version is read again, or the warm build's row.
Recheck == IF bstart.kind = "named" THEN bstart.b \in named ELSE cat[bstart.b].st = "ready"

StartRecheck ==
  /\ bstart.at = "recheck"
  /\ \/ Recheck /\ bstart' = [bstart EXCEPT !.at = "vm"] /\ UNCHANGED bhold
     \/ ~Recheck /\ bstart' = NoStart /\ bhold' = {}
  /\ UNCHANGED <<cat, dirs, quar, hdr, current, warm, named, keeps, bl, bop, bdel,
                 rebuild, scan, aside, bmay>>

\* The VM starts and the lease and sandbox rows are written; or the build's files
\* are missing, or the create fails otherwise.
StartVM ==
  /\ bstart.at = "vm"
  /\ \/ /\ Whole(bstart.b)
        /\ bl' = [bl EXCEPT ![2] = [GoneLease EXCEPT
                    !.st = "running", !.build = bstart.b, !.row = bstart.b,
                    !.snap = IF bstart.kind = "named" THEN bstart.b ELSE NoBuild]]
        /\ bstart' = [bstart EXCEPT !.at = "end"]
     \/ bstart' = [bstart EXCEPT !.at = "end"] /\ UNCHANGED bl
  /\ UNCHANGED <<cat, dirs, quar, hdr, current, warm, named, keeps, bop, bhold, bdel,
                 rebuild, scan, aside, bmay>>

\* endStartingBuild.
StartEnd ==
  /\ bstart.at = "end"
  /\ bstart' = NoStart /\ bhold' = {}
  /\ UNCHANGED <<cat, dirs, quar, hdr, current, warm, named, keeps, bl, bop, bdel,
                 rebuild, scan, aside, bmay>>

\* DELETE of a version: refused while a live lease or a start uses it, unless forced.
DeleteCheck(b) ==
  /\ "delete" \in bmay /\ bdel = NoBuild /\ b \in named
  /\ \/ "force" \in bmay
     \/ b \notin bhold /\ \A l \in 1 .. 2 : bl[l].st \in {"gone", "lost"} \/ bl[l].snap # b
  /\ bdel' = b
  /\ UNCHANGED <<cat, dirs, quar, hdr, current, warm, named, keeps, bl, bop, bstart,
                 bhold, rebuild, scan, aside, bmay>>

DeleteRow ==
  /\ bdel # NoBuild
  /\ named' = named \ {bdel} /\ bdel' = NoBuild
  /\ UNCHANGED <<cat, dirs, quar, hdr, current, warm, keeps, bl, bop, bstart, bhold,
                 rebuild, scan, aside, bmay>>

(***************************************************************************)
(* spoond images build (cmd/spoond-images).                                *)
(***************************************************************************)
RebuildStart ==
  /\ "rebuild" \in bmay /\ rebuild = NoBuild /\ current = 0
  /\ \E b \in Builds :
       /\ Fresh(b) /\ rebuild' = b
       /\ cat' = [cat EXCEPT ![b] = [NoRow EXCEPT !.st = "building"]]
  /\ UNCHANGED <<dirs, quar, hdr, current, warm, named, keeps, bl, bop, bstart, bhold,
                 bdel, scan, aside, bmay>>

\* The build ends, over a layer the catalog has no row for; or fails.
RebuildDone ==
  /\ rebuild # NoBuild /\ cat[rebuild].st = "building"
  /\ \/ \E x \in Builds :
          /\ Fresh(x)
          /\ dirs' = [dirs EXCEPT ![rebuild] = "young", ![x] = "young"]
          /\ hdr' = [hdr EXCEPT ![rebuild] = {x}]
          /\ cat' = [cat EXCEPT ![rebuild].st = "ready", ![rebuild].old = FALSE]
          /\ UNCHANGED rebuild
     \/ /\ cat' = [cat EXCEPT ![rebuild].st = "failed", ![rebuild].old = FALSE]
        /\ rebuild' = NoBuild /\ UNCHANGED <<dirs, hdr>>
  /\ UNCHANGED <<quar, current, warm, named, keeps, bl, bop, bstart, bhold, bdel,
                 scan, aside, bmay>>

\* The image row takes the build; the warm rows of the old one go.
RebuildCurrent ==
  /\ rebuild # NoBuild /\ cat[rebuild].st = "ready"
  /\ current' = rebuild /\ warm' = NoBuild /\ rebuild' = NoBuild
  /\ cat' = [cat EXCEPT ![rebuild].refs = hdr[rebuild]]
  /\ UNCHANGED <<dirs, quar, hdr, named, keeps, bl, bop, bstart, bhold, bdel, scan, aside, bmay>>

\* The builder is killed: its row stays as it is.
RebuildKilled ==
  /\ rebuild # NoBuild /\ rebuild' = NoBuild
  /\ UNCHANGED <<cat, dirs, quar, hdr, current, warm, named, keeps, bl, bop, bstart,
                 bhold, bdel, scan, aside, bmay>>

(***************************************************************************)
(* The keep set: keptBuilds, one query per step, for a GC pass ("gc"), or  *)
(* for one build an owner or a disk reclaim deletes.                       *)
(***************************************************************************)
ScanSees(at, S) == scan' = [scan EXCEPT !.at = at, !.seen = @ \cup (S \ {NoBuild})]
ScanKeeps == UNCHANGED <<dirs, quar, hdr, current, warm, named, bl, bop, bstart, bhold,
                         bdel, rebuild, aside, bmay>>

\* pruneDeletedBuilds: the rows deleted long ago, each gone with its references.
Prunable == {b \in Builds : cat[b].st = "deleted" /\ cat[b].old}

\* deleteBuildPermanently: the row and the references it held.
PrunedRow(b) == [cat[b] EXCEPT !.st = "purged", !.refs = {}, !.parent = NoBuild]

\* MarkStaleBuildingFailed: a row still building past the build timeout has failed.
StaleFailed(b) == IF cat[b].st = "building" /\ cat[b].old
                  THEN [cat[b] EXCEPT !.st = "failed", !.old = FALSE] ELSE cat[b]

\* gcPass: stale building rows fail, deleted rows may be pruned for good, and the
\* leases lost past their grace are released.
GCStart ==
  /\ scan.at = "idle" /\ ("overlap" \in bmay \/ bop.at # "row")
  /\ \E gone \in SUBSET Prunable :
       cat' = [b \in Builds |-> IF b \in gone THEN PrunedRow(b) ELSE StaleFailed(b)]
  /\ bl' = [l \in 1 .. 2 |-> IF bl[l].st = "expired" THEN GoneLease ELSE bl[l]]
  /\ keeps' = IF bl[1].st = "expired" THEN {} ELSE keeps
  /\ scan' = [NoScan EXCEPT !.at = "builds"]
  /\ UNCHANGED <<dirs, quar, hdr, current, warm, named, bop, bstart, bhold, bdel,
                 rebuild, aside, bmay>>

\* handleSnapshotDelete: an owner's pause or checkpoint, unkept first.
OwnerDelete(b) ==
  /\ "delete" \in bmay /\ scan.at = "idle" /\ b # 0
  /\ cat[b].st \in {"ready", "failed"} /\ cat[b].parent # NoBuild
  /\ "unlisted" \in bmay \/ bop.b # b
  /\ keeps' = keeps \ {b}
  /\ scan' = [NoScan EXCEPT !.at = "builds", !.for = b]
  /\ aside' = IF bop.b = b THEN aside \cup {b} ELSE aside
  /\ UNCHANGED <<cat, dirs, quar, hdr, current, warm, named, bl, bop, bstart, bhold, bdel,
                 rebuild, bmay>>

\* takeDiskVictim: a suspended lease nothing else shares is released for its disk
\* and its pause deleted (deleteReleasedPauseBuild).
ReclaimPause(l) ==
  /\ scan.at = "idle" /\ bop.at = "idle" /\ bl[l].st = "suspended"
  /\ bl' = [bl EXCEPT ![l] = GoneLease]
  /\ keeps' = IF l = 1 THEN {} ELSE keeps
  /\ scan' = [NoScan EXCEPT !.at = "builds", !.for = bl[l].resume]
  /\ UNCHANGED <<cat, dirs, quar, hdr, current, warm, named, bop, bstart, bhold, bdel,
                 rebuild, aside, bmay>>

ScanBuilds ==
  /\ scan.at = "builds"
  /\ scan' = [scan EXCEPT !.at = "refs", !.cat = cat]
  /\ UNCHANGED <<cat, keeps>> /\ ScanKeeps

\* The refs, then the images and their warm builds.
ScanImages ==
  /\ scan.at = "refs"
  /\ scan' = [scan EXCEPT !.at = "leases", !.refs = [b \in Builds |-> cat[b].refs],
                          !.seen = {current, warm} \ {NoBuild}]
  /\ UNCHANGED <<cat, keeps>> /\ ScanKeeps

\* A lease lost past its grace keeps nothing, and its kept rows go.
ScanLeases ==
  /\ scan.at = "leases"
  /\ LET lasting == {l \in 1 .. 2 : bl[l].st \notin {"gone", "expired"}} IN
     /\ ScanSees("named", UNION {{bl[l].resume, bl[l].ckpt, bl[l].snap} : l \in lasting}
                          \cup (IF 1 \in lasting THEN keeps ELSE {}))
     /\ keeps' = IF 1 \in lasting THEN keeps ELSE {}
  /\ UNCHANGED cat /\ ScanKeeps

ScanNamed ==
  /\ scan.at = "named" /\ ScanSees("starting", named)
  /\ UNCHANGED <<cat, keeps>> /\ ScanKeeps

ScanStarting ==
  /\ scan.at = "starting" /\ ScanSees("sandboxes", bhold)
  /\ UNCHANGED <<cat, keeps>> /\ ScanKeeps

\* keep: a build, its refs, and its parent unless it is deleted.
Above(S) == S \cup UNION {scan.refs[b] : b \in S}
              \cup ({scan.cat[b].parent : b \in {c \in S : scan.cat[c].st # "deleted"}}
                    \ {NoBuild})
KeepFrom(S) == LET up[n \in 0 .. NBuilds] == IF n = 0 THEN S ELSE Above(up[n - 1])
               IN  up[NBuilds]

\* Every build there is protects its parent and refs; one being built, itself.
Structural ==
  LET there == {b \in Builds : scan.cat[b].st \notin {"none", "deleted", "purged"}} IN
  (UNION {{scan.cat[b].parent} \cup scan.refs[b] : b \in there}
     \cup {b \in there : scan.cat[b].st = "building"}) \ {NoBuild}

ScanSandboxes ==
  /\ scan.at = "sandboxes"
  /\ LET seen == scan.seen \cup ({bl[l].row : l \in 1 .. 2} \ {NoBuild}) IN
     scan' = [NoScan EXCEPT !.at = IF scan.for = NoBuild THEN "list" ELSE "one",
                !.for = scan.for, !.kept = KeepFrom(seen \cup Structural)]
  /\ UNCHANGED <<cat, keeps>> /\ ScanKeeps

\* sub.DeleteBuild: the files of b, or an error and nothing.
DeleteFiles(b) ==
  /\ dirs' = [dirs EXCEPT ![b] = "none"]
  /\ UNCHANGED <<cat, quar, hdr, current, warm, named, keeps, bl, bop, bstart, bhold, bdel,
                 rebuild, aside, bmay>>

\* UpdateBuildState, which may fail and leave a ready row without files.
MarkDeleted(b) ==
  /\ \/ cat' = [cat EXCEPT ![b].st = "deleted", ![b].old = FALSE] /\ UNCHANGED aside
     \/ /\ "fail" \in bmay /\ UNCHANGED cat
        /\ aside' = IF bstart.kind = "warm" THEN aside \cup ({b} \cap {bstart.b}) ELSE aside
  /\ UNCHANGED <<dirs, quar, hdr, current, warm, named, keeps, bl, bop, bstart, bhold, bdel,
                 rebuild, bmay>>

\* gcCandidates reads the builds again: ready or failed, not kept, an hour old.
GCList ==
  /\ scan.at = "list"
  /\ scan' = [scan EXCEPT !.at = "sweep",
                !.seen = {b \in Builds : cat[b].st \in {"ready", "failed"} /\ cat[b].old
                                         /\ b \notin scan.kept}]
  /\ UNCHANGED <<cat, keeps>> /\ ScanKeeps

\* A candidate whose files cannot be deleted is left for the next pass.
GCDelete(b) ==
  /\ scan.at = "sweep" /\ b \in scan.seen
  /\ \/ /\ scan' = [scan EXCEPT !.at = "gcmark", !.for = b, !.seen = @ \ {b}]
        /\ DeleteFiles(b)
     \/ /\ "fail" \in bmay /\ scan' = [scan EXCEPT !.seen = @ \ {b}]
        /\ UNCHANGED <<cat, keeps>> /\ ScanKeeps

GCMark ==
  /\ scan.at = "gcmark" /\ scan' = [scan EXCEPT !.at = "sweep", !.for = NoBuild]
  /\ MarkDeleted(scan.for)

GCEnd ==
  /\ scan.at = "sweep" /\ scan.seen = {}
  /\ scan' = IF "reap" \in bmay THEN [NoScan EXCEPT !.at = "dirs"] ELSE NoScan
  /\ UNCHANGED <<cat, keeps>> /\ ScanKeeps

\* The one build: 409 while kept, else deleted whatever its age.
DeleteOne ==
  /\ scan.at = "one"
  /\ \/ /\ scan.for \in scan.kept \/ "fail" \in bmay
        /\ scan' = NoScan /\ UNCHANGED <<cat, keeps>> /\ ScanKeeps
     \/ /\ scan.for \notin scan.kept
        /\ scan' = [scan EXCEPT !.at = "mark"] /\ DeleteFiles(scan.for)

MarkOne == scan.at = "mark" /\ scan' = NoScan /\ MarkDeleted(scan.for)

(***************************************************************************)
(* reapOrphans, in quarantine mode.                                        *)
(***************************************************************************)
\* The directories listed, the young ones needed as they are.
ReapList ==
  /\ scan.at = "dirs"
  /\ scan' = [NoScan EXCEPT !.at = "r.builds",
                !.cat = [store |-> {b \in Builds : dirs[b] # "none"},
                         quarantined |-> {b \in Builds : quar[b] # "none"}],
                !.seen = {b \in Builds : dirs[b] = "young"}]
  /\ UNCHANGED <<cat, keeps>> /\ ScanKeeps

\* orphanRoots, one query: what it names.
RootsOf(q) ==
  CASE q = "r.builds" -> {b \in Builds : cat[b].st \notin {"none", "deleted", "purged"}}
    [] q = "r.images" -> {current}
    [] q = "r.warm" -> {warm}
    [] q = "r.leases" -> UNION {{bl[l].resume, bl[l].ckpt, bl[l].snap} : l \in 1 .. 2}
    [] q = "r.kept" -> keeps
    [] q = "r.named" -> named
    [] q = "r.starting" -> bhold
    [] q = "r.sandboxes" -> {bl[l].row : l \in 1 .. 2}

\* The queries one after another.
ReapRoots(i) ==
  /\ scan.at = RootQueries[i]
  /\ ScanSees(IF i = Len(RootQueries) THEN "reap" ELSE RootQueries[i + 1], RootsOf(scan.at))
  /\ UNCHANGED <<cat, keeps>> /\ ScanKeeps

\* A query fails: the pass, delete or reap ends there and deletes nothing.
ScanFails ==
  /\ "fail" \in bmay /\ scan.at \notin {"idle", "sweep", "gcmark", "one", "mark", "reap"}
  /\ scan' = NoScan
  /\ UNCHANGED <<cat, keeps>> /\ ScanKeeps

\* Mutant: headers are not read.
NoHeaders(S) == S

\* orphanHeaderClosure: what needed builds' headers name is needed.
HeaderClosure(S) == S \cup UNION {hdr[b] : b \in S}

\* Mutant: what has been in quarantine long enough is left there.
NeverPurged(needed) == {}

\* Directories a full hold in quarantine old, still not needed: removed for good.
QuarantinePurged(needed) == {b \in scan.cat.quarantined \ needed : quar[b] = "old"}

\* Needed directories come back, orphans go to quarantine, old ones there go.
ReapApply ==
  /\ scan.at = "reap"
  /\ LET needed == HeaderClosure(scan.seen)
         back == {b \in scan.cat.quarantined : b \in needed /\ dirs[b] = "none"}
         away == {b \in scan.cat.store \ needed : quar[b] = "none"}
         done == QuarantinePurged(needed) IN
     /\ dirs' = [b \in Builds |-> IF b \in back THEN "young"
                                  ELSE IF b \in away THEN "none" ELSE dirs[b]]
     /\ quar' = [b \in Builds |-> IF b \in back \cup done THEN "none"
                                  ELSE IF b \in away THEN "young" ELSE quar[b]]
  /\ scan' = NoScan
  /\ UNCHANGED <<cat, hdr, current, warm, named, keeps, bl, bop, bstart, bhold, bdel,
                 rebuild, aside, bmay>>

\* A deleted build's memory file is finished late: its directory is back.
DirReappears(b) ==
  /\ "late" \in bmay /\ cat[b].st = "deleted" /\ ~cat[b].old /\ dirs[b] = "none"
  /\ dirs' = [dirs EXCEPT ![b] = "young"]
  /\ UNCHANGED <<cat, quar, hdr, current, warm, named, keeps, bl, bop, bstart, bhold,
                 bdel, rebuild, scan, aside, bmay>>

\* An hour or more passes: builds and directories are old, a lost lease's grace is over.
TimePasses ==
  /\ scan.at = "idle" /\ bop.at = "idle" /\ bstart.at = "idle"
  /\ LET older(f) == [b \in Builds |-> IF f[b] = "young" THEN "old" ELSE f[b]] IN
     /\ dirs' = older(dirs) /\ quar' = older(quar)
     /\ cat' = [b \in Builds |-> IF cat[b].st = "none" \/ b = rebuild THEN cat[b]
                                 ELSE [cat[b] EXCEPT !.old = TRUE]]
  /\ bl' = [l \in 1 .. 2 |-> IF bl[l].st = "lost" THEN [bl[l] EXCEPT !.st = "expired"]
                             ELSE bl[l]]
  /\ <<cat, dirs, quar, bl>>' # <<cat, dirs, quar, bl>>
  /\ UNCHANGED <<hdr, current, warm, named, keeps, bop, bstart, bhold, bdel, rebuild,
                 scan, aside, bmay>>

GCStep == \/ ScanBuilds \/ ScanImages \/ ScanLeases \/ ScanNamed
          \/ ScanStarting \/ ScanSandboxes \/ GCList \/ (\E b \in Builds : GCDelete(b))
          \/ GCMark \/ GCEnd \/ DeleteOne \/ MarkOne
          \/ ReapList \/ (\E i \in DOMAIN RootQueries : ReapRoots(i)) \/ ReapApply
          \/ ScanFails

OpStep == OpRow \/ OpFail \/ OpRefs \/ OpLease \/ OpSandboxRow \/ OpRecord
          \/ RestoreVM \/ RestoreCommit
StartStep == StartHold \/ StartRecheck \/ StartVM \/ StartEnd

BCNext ==
  \/ \E l \in 1 .. 2 : \/ \E w \in {"checkpoint", "keep", "save", "pause"} : OpWrite(l, w)
                       \/ ResumeLease(l) \/ ReleaseBuilds(l) \/ LoseLease(l)
                       \/ ReclaimPause(l) \/ \E b \in Builds : RestoreBegin(l, b)
  \/ OpStep \/ StartStep
  \/ DeleteRow \/ RebuildStart \/ RebuildDone \/ RebuildCurrent \/ RebuildKilled
  \/ \E b \in Builds : StartRead(b) \/ DeleteCheck(b) \/ OwnerDelete(b) \/ DirReappears(b)
  \/ GCStart \/ GCStep \/ TimePasses

BCSpec == BCInit /\ [][BCNext]_bcvars

(***************************************************************************)
(* Properties.                                                             *)
(***************************************************************************)
\* What the references promise can be started from.
InUse ==
  UNION {IF bl[l].st \in {"running", "suspended", "lost"}
         THEN {bl[l].resume, bl[l].ckpt, bl[l].snap, bl[l].row} ELSE {} : l \in 1 .. 2}
    \cup named \cup {current, warm}
    \cup (IF bl[1].st \in {"running", "suspended", "lost"} THEN keeps ELSE {})

\* b or a layer under it came beside a deletion that did not see it.
Exposed(b) == ({b} \cup hdr[b]) \cap aside # {}

\* No deletion, by the GC, an owner, a reclaim or the reaper, takes a layer under a
\* build that an image, a live or newly lost lease, a kept row or a version still
\* names, whatever moves from one reference to another between its queries; only a
\* build whose own row came between them is open to it (keptBuilds, orphanRoots).
ChainIntact == \A b \in InUse \ {NoBuild} : Whole(b) \/ Exposed(b)

\* A create that holds a version's build and has read the version again finds all
\* the build's files, whatever deletes and GC passes run at the same time; so does
\* one from a warm build, unless a rebuild dropped its row and the pass had read the
\* holds before, or could not write what it deleted (snapshotStartFromRequest,
\* warmSizeBuild, beginStartingBuild).
StartFinds == bstart.at = "vm" => Whole(bstart.b) \/ Exposed(bstart.b)

\* Nothing names b any more: no row, no lease, no header of a build in use.
Garbage(b) ==
  /\ dirs[b] # "none" \/ quar[b] # "none"
  /\ b \notin UNION {{c} \cup hdr[c] : c \in {d \in Builds : cat[d].st \in {"ready", "building"}
                                                         /\ dirs[d] # "none"}}
  /\ b \notin bhold \cup {bop.b, rebuild} \cup InUse

\* With the reaper on, a directory that nothing names is gone in the end: it ages,
\* goes to quarantine, ages there and is removed (reapOrphans).
GarbageGoes == \A b \in Builds : ("reap" \in bmay /\ Garbage(b)) ~> ~Garbage(b)

\* A build that something stands on has its files, all the way down.
BuildsStand ==
  /\ ChainIntact
  /\ StartFinds
=============================================================================
