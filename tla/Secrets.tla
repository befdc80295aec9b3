------------------------------- MODULE Secrets --------------------------------
(***************************************************************************)
(* Secret files of one lease's guest (api/secrets.go, the secret parts of  *)
(* api/jobs.go and api/server.go's exec, saveNamedSnapshot).  Create-time  *)
(* secrets stay, an exec's go with the command, a job's with the job; a    *)
(* named save removes every file before its checkpoint and puts the        *)
(* create-time ones back.  The per-lease gate keeps a save and a staging   *)
(* apart.                                                                  *)
(***************************************************************************)
EXTENDS Integers, FiniteSets

CONSTANTS
  ScScenarios    \* what may happen: subsets of ScEvents

ScEvents == {"create", "job", "exec", "save", "restart", "release", "shadow", "poll", "startfail", "midstart", "flaky"}

ASSUME SecretsAssumption == ScScenarios \subseteq SUBSET ScEvents

VARIABLES
  files,     \* /run/secrets: [names -> whose value, or "none"]
  held,      \* createSecrets: the create-time names in memory
  had,       \* l.HadSecrets
  ever,      \* whether a secret was ever written to the guest
  gate,      \* secretsGate: saving, staging
  sjob,      \* the job: at, names, live (liveJobSecrets), row, gen
  sfin,      \* who finishes the job: at, and what removeJobSecrets has read
  sexec,     \* the exec: at
  ssave,     \* the save: at, captured
  deferred,  \* pendingSecretRemovals
  snaps,     \* the saved versions: captured, free
  sl,        \* the lease: gen, busy, released
  smay       \* what may happen in this behaviour

scvars == <<files, held, had, ever, gate, sjob, sfin, sexec, ssave, deferred, snaps, sl, smay>>

SecretNames == {"c", "j", "e"}     \* create-time, the job's own, the exec's own
NoFiles == [n \in SecretNames |-> "none"]
Present == {n \in SecretNames : files[n] # "none"}
JobNames == IF "shadow" \in smay THEN {"c", "j"} ELSE {"j"}
ExecNames == IF "shadow" \in smay THEN {"c", "e"} ELSE {"e"}

\* stageSecrets, restageSecrets: the files are written over.
Put(names, who) == files' = [n \in SecretNames |-> IF n \in names THEN who ELSE files[n]]
Drop(names) == files' = [n \in SecretNames |-> IF n \in names THEN "none" ELSE files[n]]

\* A staging that fails wrote the first of its files, in the order of their
\* names, or none; the file whose write failed may be there.
JobPrefixes == {{}, JobNames \ {"j"}, JobNames}

\* removeSecrets, restageSecrets, restageCreateSecrets: failures are logged.
RemoveOrLog(names) ==
  \/ Drop(names)
  \/ /\ "flaky" \in smay
     /\ files' = [n \in SecretNames |-> IF n \in names \cap Present THEN "stray" ELSE files[n]]
RestageOrLog(names) == Put(names, "create") \/ ("flaky" \in smay /\ UNCHANGED files)

SCInit ==
  /\ smay \in ScScenarios
  /\ held = IF "create" \in smay THEN {"c"} ELSE {}
  /\ files = [n \in SecretNames |-> IF n \in held THEN "create" ELSE "none"]
  /\ had = ("create" \in smay) /\ ever = had
  /\ gate = [saving |-> 0, staging |-> 0]
  /\ sjob = [at |-> "idle", live |-> FALSE, row |-> "none", gen |-> 0]
  /\ sfin = [at |-> "idle", shadowed |-> {}]
  /\ sexec = "idle" /\ ssave = [at |-> "idle", captured |-> {}]
  /\ deferred = {} /\ snaps = {}
  /\ sl = [gen |-> 0, busy |-> FALSE, released |-> FALSE]

-----------------------------------------------------------------------------
(* The gate.                                                               *)

\* Mutant: a staging does not look at the saves.
StagesAnyway == TRUE

\* beginStaging.
MayStage == gate.saving = 0

BeginStaging == MayStage /\ gate' = [gate EXCEPT !.staging = @ + 1]
EndStaging == gate' = [gate EXCEPT !.staging = @ - 1]

\* beginSave.
MaySave == gate.saving = 0 /\ gate.staging = 0

\* Mutant: the mark is left to the end of the exec or the start of the job.
NotMarked == UNCHANGED had

\* markHadSecrets: before anything is written.
MarkHad == had' = TRUE

-----------------------------------------------------------------------------
(* A job with secrets: startJob, the guest's wrapper, finishJob.           *)

JobBegin ==
  /\ "job" \in smay /\ sjob.at = "idle" /\ ~sl.released
  /\ BeginStaging /\ MarkHad
  /\ sjob' = [sjob EXCEPT !.at = "staging", !.live = TRUE]
  /\ UNCHANGED <<files, held, ever, sfin, sexec, ssave, deferred, snaps, sl, smay>>

\* A staging that failed forgets the names and leaves the files it wrote.
JobStage ==
  /\ sjob.at = "staging"
  /\ ever' = TRUE
  /\ \/ /\ Put(JobNames, "job") /\ sjob' = [sjob EXCEPT !.at = "staged"] /\ UNCHANGED gate
     \/ /\ "startfail" \in smay /\ \E written \in JobPrefixes : Put(written, "stray")
        /\ EndStaging /\ sjob' = [sjob EXCEPT !.at = "over", !.live = FALSE]
  /\ UNCHANGED <<held, had, sfin, sexec, ssave, deferred, snaps, sl, smay>>

\* Started and its row inserted; the staging ends with startJob.
SecretJobStart ==
  /\ sjob.at = "staged"
  /\ EndStaging
  /\ sjob' = [sjob EXCEPT !.at = "running", !.row = "running", !.gen = sl.gen]
  /\ UNCHANGED <<files, held, had, ever, sfin, sexec, ssave, deferred, snaps, sl, smay>>

\* The names list, the start or the insert fails: the files are removed, and
\* nothing puts back a create-time secret they shadowed.  Where the wrapper
\* was started already it still ends, by the signal it was sent.
SecretJobFails ==
  /\ "startfail" \in smay /\ sjob.at = "staged"
  /\ RemoveOrLog(JobNames) /\ EndStaging
  /\ \E at \in {"over", "exited"} : sjob' = [sjob EXCEPT !.at = at, !.live = FALSE, !.gen = sl.gen]
  /\ UNCHANGED <<held, had, ever, sfin, sexec, ssave, deferred, snaps, sl, smay>>

\* The wrapper writes rc, then removes the job's files.
JobExit ==
  /\ sjob.at = "running" /\ sjob.gen = sl.gen
  /\ sjob' = [sjob EXCEPT !.at = "exited"]
  /\ UNCHANGED <<files, held, had, ever, gate, sfin, sexec, ssave, deferred, snaps, sl, smay>>

JobWrapperClean ==
  /\ sjob.at = "exited"
  /\ IF sjob.gen = sl.gen THEN Drop(JobNames) ELSE UNCHANGED files
  /\ sjob' = [sjob EXCEPT !.at = "over"]
  /\ UNCHANGED <<held, had, ever, gate, sfin, sexec, ssave, deferred, snaps, sl, smay>>

\* finishJob: by the watcher when the wrapper is done, by a poll of rc as
\* soon as it is there; by the generation when the guest is gone.
FinishRow ==
  /\ sjob.row = "running" /\ sfin.at = "idle"
  /\ \/ sjob.at = "over" \/ ("poll" \in smay /\ sjob.at = "exited") \/ sjob.gen # sl.gen
  /\ sjob' = [sjob EXCEPT !.row = "ended"]
  /\ sfin' = [sfin EXCEPT !.at = "take"]
  /\ UNCHANGED <<files, held, had, ever, gate, sexec, ssave, deferred, snaps, sl, smay>>

\* removeJobSecrets: the names are taken, the guest must be the job's own.
FinishTake ==
  /\ sfin.at = "take"
  /\ sjob' = [sjob EXCEPT !.live = FALSE]
  /\ sfin' = IF sjob.gen = sl.gen /\ ~sl.released
             THEN [at |-> "gate", shadowed |-> held \cap JobNames]
             ELSE [at |-> "over", shadowed |-> {}]
  /\ UNCHANGED <<files, held, had, ever, gate, sexec, ssave, deferred, snaps, sl, smay>>

\* A save that holds the gate is left the removal.  From here on the sandbox
\* is the job's own, whatever the lease runs in by then.
FinishGate ==
  /\ sfin.at = "gate"
  /\ \/ BeginStaging /\ sfin' = [sfin EXCEPT !.at = "remove"] /\ UNCHANGED deferred
     \/ /\ ~MayStage /\ sfin' = [sfin EXCEPT !.at = "over"]
        /\ deferred' = IF sl.released THEN deferred ELSE deferred \cup JobNames
        /\ UNCHANGED gate
  /\ UNCHANGED <<files, held, had, ever, sjob, sexec, ssave, snaps, sl, smay>>

FinishRemove ==
  /\ sfin.at = "remove"
  /\ IF sjob.gen = sl.gen THEN RemoveOrLog(JobNames) ELSE UNCHANGED files
  /\ sfin' = [sfin EXCEPT !.at = "restage"]
  /\ UNCHANGED <<held, had, ever, gate, sjob, sexec, ssave, deferred, snaps, sl, smay>>

\* Mutant: a shadowed create-time secret is not put back.
NoRestage ==
  /\ sfin.at = "restage" /\ EndStaging
  /\ sfin' = [sfin EXCEPT !.at = "over"]
  /\ UNCHANGED <<files, held, had, ever, sjob, sexec, ssave, deferred, snaps, sl, smay>>

FinishRestage ==
  /\ sfin.at = "restage"
  /\ IF sjob.gen = sl.gen THEN RestageOrLog(sfin.shadowed) ELSE UNCHANGED files
  /\ EndStaging
  /\ sfin' = [sfin EXCEPT !.at = "over"]
  /\ UNCHANGED <<held, had, ever, sjob, sexec, ssave, deferred, snaps, sl, smay>>

-----------------------------------------------------------------------------
(* An exec with secrets: the gate is held from the staging to the cleanup. *)

ExecStage ==
  /\ "exec" \in smay /\ sexec = "idle" /\ ~sl.released
  /\ BeginStaging /\ MarkHad /\ Put(ExecNames, "exec") /\ ever' = TRUE
  /\ sexec' = "run"
  /\ UNCHANGED <<held, sjob, sfin, ssave, deferred, snaps, sl, smay>>

ExecRemove ==
  /\ sexec = "run" /\ RemoveOrLog(ExecNames) /\ sexec' = "restage"
  /\ UNCHANGED <<held, had, ever, gate, sjob, sfin, ssave, deferred, snaps, sl, smay>>

ExecRestage ==
  /\ sexec = "restage"
  /\ RestageOrLog(held \cap ExecNames) /\ EndStaging /\ sexec' = "over"
  /\ UNCHANGED <<held, had, ever, sjob, sfin, ssave, deferred, snaps, sl, smay>>

-----------------------------------------------------------------------------
(* saveNamedSnapshot.                                                      *)

SaveAt(where) == ssave' = [ssave EXCEPT !.at = where]

SaveBegin ==
  /\ "save" \in smay /\ ssave.at = "idle" /\ ~sl.busy /\ ~sl.released
  /\ MaySave /\ gate' = [gate EXCEPT !.saving = @ + 1]
  /\ sl' = [sl EXCEPT !.busy = TRUE]
  /\ SaveAt("check")
  /\ UNCHANGED <<files, held, had, ever, sjob, sfin, sexec, deferred, snaps, smay>>

\* Mutant: running jobs are not looked at.
NoJobSeen == FALSE

\* hasRunningJobWithSecrets.
JobHoldsSecrets == sjob.live /\ sjob.row = "running"

\* The save is refused over a job's secrets, or by a limit.
SaveCheck ==
  /\ ssave.at = "check"
  /\ SaveAt("drain") \/ (~JobHoldsSecrets /\ SaveAt("scrub"))
  /\ UNCHANGED <<files, held, had, ever, gate, sjob, sfin, sexec, deferred, snaps, sl, smay>>

\* Mutant: only the names this process knows are removed.
ScrubKnown == Drop(held)

\* scrubAllSecrets: everything, whether this process knew it or not.
Scrub == Drop(SecretNames)

\* What is left after the scrub, or an exec that fails, aborts the save.
SaveScrub ==
  /\ ssave.at = "scrub"
  /\ \/ Scrub /\ SaveAt("checkpoint")
     \/ "flaky" \in smay /\ (\E gone \in SUBSET Present : Drop(gone)) /\ SaveAt("drain")
  /\ UNCHANGED <<held, had, ever, gate, sjob, sfin, sexec, deferred, snaps, sl, smay>>

SaveCheckpoint ==
  /\ ssave.at = "checkpoint"
  /\ \/ ssave' = [at |-> "insert", captured |-> Present]
     \/ "flaky" \in smay /\ SaveAt("drain")
  /\ UNCHANGED <<files, held, had, ever, gate, sjob, sfin, sexec, deferred, snaps, sl, smay>>

SaveInsert ==
  /\ ssave.at = "insert" /\ SaveAt("drain")
  /\ snaps' = IF sl.released THEN snaps ELSE snaps \cup {[captured |-> ssave.captured, free |-> ~had, ever |-> ever]}
  /\ UNCHANGED <<files, held, had, ever, gate, sjob, sfin, sexec, deferred, sl, smay>>

\* drainDeferredSecretRemovals.
Drain == RemoveOrLog(deferred) /\ deferred' = {}

SaveDrain ==
  /\ ssave.at = "drain" /\ Drain /\ SaveAt("restage")
  /\ UNCHANGED <<held, had, ever, gate, sjob, sfin, sexec, snaps, sl, smay>>

SaveRestage ==
  /\ ssave.at = "restage"
  /\ RestageOrLog(held) /\ SaveAt("over")
  /\ gate' = [gate EXCEPT !.saving = @ - 1]
  /\ sl' = [sl EXCEPT !.busy = FALSE]
  /\ UNCHANGED <<held, had, ever, sjob, sfin, sexec, deferred, snaps, smay>>

-----------------------------------------------------------------------------
(* A new guest, and the end of the lease.                                  *)

RestartGuest ==
  /\ "restart" \in smay /\ sl.gen = 0 /\ ~sl.busy /\ ~sl.released
  /\ sjob.at \in {"staging", "staged"} => "midstart" \in smay
  /\ files' = [n \in SecretNames |-> IF n \in held THEN "create" ELSE "none"]
  /\ sl' = [sl EXCEPT !.gen = @ + 1]
  /\ UNCHANGED <<held, had, ever, gate, sjob, sfin, sexec, ssave, deferred, snaps, smay>>

ReleaseLease ==
  /\ "release" \in smay /\ ~sl.released
  /\ sl' = [sl EXCEPT !.released = TRUE]
  /\ held' = {} /\ deferred' = {}
  /\ UNCHANGED <<files, had, ever, gate, sjob, sfin, sexec, ssave, snaps, smay>>

-----------------------------------------------------------------------------
SCNext ==
  \/ JobBegin \/ JobStage \/ SecretJobStart \/ SecretJobFails \/ JobExit \/ JobWrapperClean
  \/ FinishRow \/ FinishTake \/ FinishGate \/ FinishRemove \/ FinishRestage
  \/ ExecStage \/ ExecRemove \/ ExecRestage
  \/ SaveBegin \/ SaveCheck \/ SaveScrub \/ SaveCheckpoint \/ SaveInsert \/ SaveDrain \/ SaveRestage
  \/ RestartGuest \/ ReleaseLease

SCSpec == SCInit /\ [][SCNext]_scvars

-----------------------------------------------------------------------------
Settled0 ==
  /\ gate.saving = 0 /\ gate.staging = 0 /\ ~sl.released
  /\ sjob.at \in {"idle", "over"} /\ sjob.row # "running" /\ sfin.at \in {"idle", "over"}

\* A version never holds a secret file, whatever was staged, removed or put
\* back while it was saved (the gate, and the scrub of everything).
NothingCaptured == \A v \in snaps : v.captured = {}

\* A version called secret-free comes from a guest that never held one
\* (markHadSecrets runs before the staging it is about).
SecretFreeIsTrue == \A v \in snaps : v.free => ~v.ever

\* Where a create-time secret may be missing: a job that failed to start
\* wrote or removed it; the wrapper of a job that a poll had finished removes
\* it after it was put back; a write failed.
MayBeMissing(n) ==
  \/ n \in JobNames /\ sjob.row = "none" /\ "startfail" \in smay
  \/ n \in JobNames /\ sjob.row = "ended" /\ "poll" \in smay
  \/ "flaky" \in smay

\* When nothing is in flight the guest holds the create-time secrets and
\* nothing else (removeJobSecrets, cleanupExecSecrets, the save's drain), but
\* for what a failed write or removal left, and a secret that may be missing.
OnlyCreateTime ==
  Settled0 => \A n \in SecretNames :
                \/ files[n] = (IF n \in held THEN "create" ELSE "none")
                \/ files[n] = "stray" /\ smay \cap {"startfail", "flaky"} # {}
                \/ files[n] = "none" /\ MayBeMissing(n)

\* A job's secrets stay for the job's life; one that shadows a create-time
\* secret may give way to that one, when an exec or a refused save puts the
\* create-time secrets back.
JobKeepsSecrets ==
  sjob.at = "running" /\ sjob.gen = sl.gen /\ sexec \notin {"run", "restage"} /\ ~sl.released =>
    \A n \in JobNames : files[n] = "job" \/ (n \in held /\ files[n] = "create")

\* Secrets are where their owner put them and nowhere else: not in a version,
\* not in the guest after their use, and not missing during it.
SecretsStayInPlace ==
  /\ NothingCaptured
  /\ SecretFreeIsTrue
  /\ OnlyCreateTime
  /\ JobKeepsSecrets
=============================================================================
