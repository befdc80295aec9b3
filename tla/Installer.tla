----------------------------- MODULE Installer -----------------------------
(***************************************************************************)
(* `spoond install` (install/): phases in a fixed order, each a list of    *)
(* steps that compare before they write and act on the host when the       *)
(* comparison says so.  A run may be stopped or fail at any step, the host *)
(* may be rebooted, and the command is run again; a dry run reports and    *)
(* changes nothing.  Files hold "old" or "new" content, secret files the   *)
(* number of the generation they were made in.                             *)
(***************************************************************************)
EXTENDS Integers, FiniteSets

CONSTANTS
    InHosts,       \* the hosts to install on: "fresh", "upgrade", or "stopped", an
                   \* upgrade whose backend the operator has stopped
    InScenarios    \* what may happen: one set of names per behaviour

VARIABLES
    inDisk,     \* content of the files written by writeFile
    inSecret,   \* generation of the files written by writeFileKeep; 0 = none,
                \* -1 = cut off, -2 = backend.env cut off below its tokens
    inMetrics,  \* generation of METRICS_TOKEN in backend.env and in dash.env; 0 = none
    inHost,     \* what the host has applied and what its services run
    inPc,       \* the step of the run; "idle" = no run
    inDry,      \* the run is a dry run
    inChanged,  \* rows the run reported created or changed, and "noUser", skipped
    inTok,      \* the tokens and the key pair the run holds
    inResult,   \* how the last real run ended
    inGen,      \* generations made so far
    inStops,    \* stops still to come
    inMissed,   \* history: what was stale when a run stopped, or was passed over
    inmay

invars == <<inDisk, inSecret, inMetrics, inHost, inPc, inDry, inChanged, inTok, inResult,
            inGen, inStops, inMissed, inmay>>

InFiles == {"sysctl", "grub", "orchBin", "pinned", "orchConf", "guard", "orchUnit", "spoondBin", "units"}
InSecrets == {"seed", "cert", "key", "backendEnv", "gatewayEnv", "dashEnv"}
NoTok == [pair |-> 0, tokens |-> 0, metrics |-> 0, wasActive |-> FALSE]

InMay(x) == x \in inmay

INInit ==
    /\ inmay \in InScenarios
    /\ \E host \in InHosts :
        /\ inDisk = [f \in InFiles |-> IF host = "fresh" THEN "absent" ELSE "old"]
        /\ inSecret = [f \in InSecrets |-> IF host = "fresh" THEN 0 ELSE 1]
        /\ inMetrics = IF host = "fresh" THEN [backend |-> 0, dash |-> 0]
                                         ELSE [backend |-> 1, dash |-> 1]
        /\ inHost = IF host = "fresh"
                    THEN [docker |-> "off", iptables |-> "nft", orch |-> "off", guard |-> "off",
                          backend |-> "off", front |-> "off", pages |-> FALSE, boot |-> FALSE,
                          users |-> 0, image |-> FALSE, mods |-> FALSE, store |-> FALSE]
                    ELSE [docker |-> "legacy", iptables |-> "legacy", orch |-> "old", guard |-> "old",
                          backend |-> IF host = "stopped" THEN "off" ELSE "old",
                          front |-> "old", pages |-> FALSE, boot |-> FALSE,
                          users |-> 1, image |-> TRUE, mods |-> TRUE, store |-> TRUE]
    /\ inPc = "idle"
    /\ inDry = FALSE
    /\ inChanged = {}
    /\ inTok = NoTok
    /\ inResult = "none"
    /\ inGen = 1
    /\ inStops \in IF InMay("stop") THEN {2} ELSE {0}
    /\ inMissed = {}

-----------------------------------------------------------------------------
(***************************************************************************)
(* One run.                                                                *)
(***************************************************************************)

\* RunAll: the phases in table order, for real or dry.
InstallStarts ==
    /\ inPc = "idle"
    /\ inResult \notin {"ok", "reboot"}
    /\ inDry' \in IF InMay("dry") THEN BOOLEAN ELSE {FALSE}
    /\ inmay' = IF inDry' THEN inmay \ {"dry"} ELSE inmay
    /\ inPc' = "check"
    /\ inChanged' = {}
    /\ inTok' = NoTok
    /\ UNCHANGED <<inDisk, inSecret, inMetrics, inHost, inResult, inGen, inStops, inMissed>>

\* A run that ends, with the error that stopped it or without.
RunOver(result) ==
    /\ inPc' = "idle"
    /\ inResult' = IF inDry THEN inResult ELSE result

\* A step that only moves on, or that leaves the run's state alone otherwise.
InGoes(from, to) ==
    /\ inPc = from
    /\ inPc' = to
    /\ UNCHANGED <<inResult, inStops, inmay, inDry>>

\* The METRICS_TOKENs and what was missed stay as they are.
Quiet == UNCHANGED <<inMetrics, inMissed>>

\* Mutant: the directories and the file are written before the dry run is asked.
WrittenDisk(f, v) == [inDisk EXCEPT ![f] = v]

\* writeFile: kept when the same, nothing written in a dry run, else replaced
\* whole by a rename.
DiskAfter(f, v) == IF inDry THEN inDisk ELSE [inDisk EXCEPT ![f] = v]

WriteFile(f, v) ==
    /\ inDisk' = DiskAfter(f, v)
    /\ inChanged' = IF inDisk[f] = v THEN inChanged ELSE inChanged \cup {f}

\* Mutant: a file that is there is written again.
KeepWrites(f) == TRUE

\* writeFileKeep: an existing file is left as it is, whatever it holds.
KeepAbsent(f) == inSecret[f] = 0

SecretsAfter(f, gen) ==
    IF KeepAbsent(f) /\ ~inDry THEN [inSecret EXCEPT ![f] = gen] ELSE inSecret

\* exec: nothing runs in a dry run.
HostAfter(host) == IF inDry THEN inHost ELSE host

\* check reads memory, kernel, ports and the store, and changes nothing.
CheckHost ==
    /\ InGoes("check", "packages")
    /\ UNCHANGED <<inDisk, inSecret, inHost, inChanged, inTok, inGen>>
    /\ Quiet

\* Packages; docker comes up as it is installed, on
\* the iptables backend the host has then.
HostPackages ==
    /\ InGoes("packages", "modules")
    /\ inHost' = HostAfter([inHost EXCEPT !.docker = IF @ = "off" THEN inHost.iptables ELSE @])
    /\ UNCHANGED <<inDisk, inSecret, inChanged, inTok, inGen>>
    /\ Quiet

\* The modules are named for the boot and loaded, with their options.
HostModules ==
    /\ InGoes("modules", "sysctl")
    /\ inHost' = HostAfter([inHost EXCEPT !.mods = TRUE])
    /\ UNCHANGED <<inDisk, inSecret, inChanged, inTok, inGen>>
    /\ Quiet

HostSysctl ==
    /\ InGoes("sysctl", "applySysctl")
    /\ WriteFile("sysctl", "new")
    /\ UNCHANGED <<inSecret, inHost, inTok, inGen>>
    /\ Quiet

\* sysctl -p when the file changed: all the pages, or some and the rest at boot.
ApplySysctl ==
    /\ InGoes("applySysctl", "grub")
    /\ \E all \in BOOLEAN :
        inHost' = IF "sysctl" \in inChanged
                  THEN HostAfter([inHost EXCEPT !.pages = @ \/ all]) ELSE inHost
    /\ UNCHANGED <<inDisk, inSecret, inChanged, inTok, inGen>>
    /\ Quiet

HostGrub ==
    /\ InGoes("grub", "updateGrub")
    /\ WriteFile("grub", "new")
    /\ UNCHANGED <<inSecret, inHost, inTok, inGen>>
    /\ Quiet

UpdateGrub ==
    /\ InGoes("updateGrub", "iptables")
    /\ inHost' = IF "grub" \in inChanged THEN HostAfter([inHost EXCEPT !.boot = TRUE]) ELSE inHost
    /\ UNCHANGED <<inDisk, inSecret, inChanged, inTok, inGen>>
    /\ Quiet

\* The alternatives point at the legacy backend; the run remembers a change.
HostIptables ==
    /\ InGoes("iptables", "store")
    /\ inHost' = HostAfter([inHost EXCEPT !.iptables = "legacy"])
    /\ inChanged' = IF inHost.iptables # "legacy" /\ ~inDry THEN inChanged \cup {"iptables"} ELSE inChanged
    /\ UNCHANGED <<inDisk, inSecret, inTok, inGen>>
    /\ Quiet

\* The store's pool, dataset and directories, each made when it is missing.
StoreStep ==
    /\ InGoes("store", "docker")
    /\ inHost' = HostAfter([inHost EXCEPT !.store = TRUE])
    /\ UNCHANGED <<inDisk, inSecret, inChanged, inTok, inGen>>
    /\ Quiet

\* Docker enabled, and restarted when this run changed the backend.
DockerStep ==
    /\ InGoes("docker", "apparmor")
    /\ inHost' = HostAfter([inHost EXCEPT !.docker =
         IF @ = "off" \/ "iptables" \in inChanged THEN inHost.iptables ELSE @])
    /\ UNCHANGED <<inDisk, inSecret, inChanged, inTok, inGen>>
    /\ Quiet

\* Mutant: only pages this run asked for are counted.
PagesUnasked == ~inHost.pages \/ "sysctl" \notin inChanged

\* Fewer pages reserved than the host needs.
PagesMissing == ~inHost.pages

\* The last host step; the phase fails at its end when a reboot is needed.
AppArmor ==
    /\ inPc = "apparmor"
    /\ IF PagesMissing THEN RunOver("reboot") ELSE inPc' = "binaries" /\ UNCHANGED inResult
    /\ UNCHANGED <<inDisk, inSecret, inHost, inDry, inChanged, inTok, inGen, inStops, inmay>>
    /\ Quiet

-----------------------------------------------------------------------------
\* The runtime phase.

InstallBinaries ==
    /\ InGoes("binaries", "pinned")
    /\ WriteFile("orchBin", "new")
    /\ UNCHANGED <<inSecret, inHost, inTok, inGen>>
    /\ Quiet

\* Fetched and verified, or kept when its sum is the pin's.
InstallPinned ==
    /\ InGoes("pinned", "orchConf")
    /\ WriteFile("pinned", "new")
    /\ UNCHANGED <<inSecret, inHost, inTok, inGen>>
    /\ Quiet

\* An operator's file that differs from the shipped one is kept.
OperatorConfig ==
    /\ InGoes("orchConf", "seed")
    /\ IF inDisk["orchConf"] = "absent" THEN WriteFile("orchConf", "new")
       ELSE UNCHANGED <<inDisk, inChanged>>
    /\ UNCHANGED <<inSecret, inHost, inTok, inGen>>
    /\ Quiet

InstallSeed ==
    /\ InGoes("seed", "guard")
    /\ inGen' = IF KeepAbsent("seed") /\ ~inDry THEN inGen + 1 ELSE inGen
    /\ inSecret' = SecretsAfter("seed", inGen')
    /\ UNCHANGED <<inDisk, inHost, inChanged, inTok>>
    /\ Quiet

InstallGuard ==
    /\ InGoes("guard", "orchUnit")
    /\ WriteFile("guard", "new")
    /\ UNCHANGED <<inSecret, inHost, inTok, inGen>>
    /\ Quiet

\* Without its drain hooks, until the spoond phase brings the full unit.
InstallOrchestratorUnit ==
    /\ InGoes("orchUnit", "orchestration")
    /\ IF inDisk["orchUnit"] = "new" THEN UNCHANGED <<inDisk, inChanged>>
       ELSE WriteFile("orchUnit", "light")
    /\ UNCHANGED <<inSecret, inHost, inTok, inGen>>
    /\ Quiet

\* What makes the running orchestrator stale.
OrchChanged == inChanged \cap {"orchUnit", "orchConf", "orchBin"} # {}

\* enable --now starts what is not running; what runs is restarted when one of
\* its files changed in this run.
Orchestration ==
    /\ InGoes("orchestration", "orchHealth")
    /\ inHost' = HostAfter([inHost EXCEPT
         !.orch = IF @ = "off" \/ OrchChanged THEN inDisk["orchBin"] ELSE @,
         !.guard = IF \/ @ # "off" /\ "guard" \in inChanged
                      \/ @ = "off" /\ (inHost.orch = "off" \/ inChanged \cap {"guard", "orchUnit"} # {})
                   THEN inDisk["guard"] ELSE @])
    /\ UNCHANGED <<inDisk, inSecret, inChanged, inTok, inGen>>
    /\ Quiet

\* The orchestrator answers; one that does not within the deadline stops the run.
OrchHealthy ==
    /\ InGoes("orchHealth", "defaults")
    /\ inDry \/ inHost.orch # "off"
    /\ UNCHANGED <<inDisk, inSecret, inHost, inChanged, inTok, inGen>>
    /\ Quiet

-----------------------------------------------------------------------------
\* The spoond phase.

\* The host's address, name and resolver, read from it; then the directories.
SpoondDefaults ==
    /\ InGoes("defaults", "cert")
    /\ UNCHANGED <<inDisk, inSecret, inHost, inChanged, inTok, inGen>>
    /\ Quiet

\* The pair: kept whole, refused when half is there, or made now.
SpoondTLS ==
    /\ inPc = "cert"
    /\ \/ /\ inSecret["cert"] # 0 /\ inSecret["key"] # 0
          /\ inPc' = "backendEnv"
          /\ UNCHANGED <<inSecret, inTok, inGen, inResult>>
       \/ /\ inSecret["cert"] = 0 /\ inSecret["key"] = 0 /\ inDry
          /\ inPc' = "backendEnv"
          /\ UNCHANGED <<inSecret, inTok, inGen, inResult>>
       \/ /\ (inSecret["cert"] # 0) # (inSecret["key"] # 0)
          /\ RunOver("failed")
          /\ UNCHANGED <<inSecret, inTok, inGen>>
       \/ /\ inSecret["cert"] = 0 /\ inSecret["key"] = 0 /\ ~inDry
          /\ inGen' = inGen + 1
          /\ inTok' = [inTok EXCEPT !.pair = inGen + 1]
          /\ inSecret' = SecretsAfter("cert", inGen + 1)
          /\ inPc' = "key"
          /\ UNCHANGED inResult
    /\ UNCHANGED <<inDisk, inHost, inDry, inChanged, inStops, inmay>>
    /\ Quiet

TlsKey ==
    /\ InGoes("key", "backendEnv")
    /\ inSecret' = SecretsAfter("key", inTok.pair)
    /\ UNCHANGED <<inDisk, inHost, inChanged, inTok, inGen>>
    /\ Quiet

\* Mutant: the run makes its own tokens although backend.env is kept.
TokensOwn == inGen + 1

\* backendEnvWrite: the tokens of the file that is there, else new ones.
EnvTokens == IF KeepAbsent("backendEnv") THEN inGen + 1 ELSE inSecret["backendEnv"]

\* METRICS_TOKEN is not one of the five it must have.
EnvMetrics == IF KeepAbsent("backendEnv") THEN inGen + 1 ELSE inMetrics.backend

\* A file without its token variables stops the run; one cut off below them
\* reads as whole.
BackendEnvWrite ==
    /\ inPc = "backendEnv"
    /\ \/ /\ inSecret["backendEnv"] = -1
          /\ RunOver("failed")
          /\ UNCHANGED <<inSecret, inMetrics, inTok, inGen, inChanged>>
       \/ /\ inSecret["backendEnv"] # -1
          /\ inTok' = [inTok EXCEPT !.tokens = EnvTokens, !.metrics = EnvMetrics]
          /\ inMetrics' = IF KeepAbsent("backendEnv") /\ ~inDry
                          THEN [inMetrics EXCEPT !.backend = EnvMetrics] ELSE inMetrics
          /\ inGen' = IF KeepAbsent("backendEnv") /\ ~inDry THEN inGen + 1 ELSE inGen
          /\ inSecret' = SecretsAfter("backendEnv", EnvTokens)
          /\ inChanged' = IF KeepAbsent("backendEnv") THEN inChanged \cup {"backendEnv"} ELSE inChanged
          /\ inPc' = "gatewayEnv"
          /\ UNCHANGED inResult
    /\ UNCHANGED <<inDisk, inHost, inDry, inStops, inMissed, inmay>>

\* admin-token, drain.env and the gateway's env carry the run's tokens.
WriteDrainFiles ==
    /\ InGoes("gatewayEnv", "dashEnv")
    /\ inSecret' = SecretsAfter("gatewayEnv", inTok.tokens)
    /\ UNCHANGED <<inDisk, inHost, inChanged, inTok, inGen>>
    /\ Quiet

\* Mutant: a token of its own although backend.env has one.
MintsAnyway == TRUE

\* A backend.env without METRICS_TOKEN leaves none in the run's tokens.
MintsMetrics == inTok.metrics = 0

\* A dash.env that is not there takes the run's tokens, and a METRICS_TOKEN made for it
\* alone when backend.env has none.
WriteDashFiles ==
    /\ InGoes("dashEnv", "spoondBin")
    /\ inSecret' = SecretsAfter("dashEnv", inTok.tokens)
    /\ IF KeepAbsent("dashEnv") /\ ~inDry
       THEN /\ inGen' = IF MintsMetrics THEN inGen + 1 ELSE inGen
            /\ inMetrics' = [inMetrics EXCEPT !.dash =
                                IF MintsMetrics THEN inGen + 1 ELSE inTok.metrics]
       ELSE UNCHANGED <<inGen, inMetrics>>
    /\ UNCHANGED <<inDisk, inHost, inChanged, inTok, inMissed>>

CopyBinary ==
    /\ InGoes("spoondBin", "units")
    /\ WriteFile("spoondBin", "new")
    /\ UNCHANGED <<inSecret, inHost, inTok, inGen>>
    /\ Quiet

\* The units, the orchestrator's full one among them, then daemon-reload.
SpoondUnitsWrite ==
    /\ InGoes("units", "enable")
    /\ inDisk' = IF inDry THEN inDisk ELSE [inDisk EXCEPT !["units"] = "new", !["orchUnit"] = "new"]
    /\ UNCHANGED <<inSecret, inHost, inChanged, inTok, inGen>>
    /\ Quiet

\* is-active, then enable --now.
SpoondUnitsEnable ==
    /\ InGoes("enable", "restart")
    /\ inTok' = [inTok EXCEPT !.wasActive = inHost.backend # "off" /\ ~inDry]
    /\ inHost' = HostAfter([inHost EXCEPT
         !.backend = IF @ = "off" THEN inDisk["spoondBin"] ELSE @,
         !.front = IF @ = "off" THEN inDisk["spoondBin"] ELSE @])
    /\ UNCHANGED <<inDisk, inSecret, inChanged, inGen>>
    /\ Quiet

\* Mutant: a new binary restarts nothing.
BackendEnvChanged == "backendEnv" \in inChanged

\* binChanged or envChanged.
BackendChanged == inChanged \cap {"spoondBin", "backendEnv"} # {}

\* A backend that was running is restarted for a new binary or backend.env, and for a
\* new binary the gateway and the dashboard with it; beside a backend that was not
\* running they are passed over.
SpoondRestart ==
    /\ InGoes("restart", "backendHealth")
    /\ inHost' = IF inTok.wasActive /\ BackendChanged
                 THEN HostAfter([inHost EXCEPT !.backend = inDisk["spoondBin"],
                        !.front = IF "spoondBin" \in inChanged THEN inDisk["spoondBin"] ELSE @])
                 ELSE inHost
    /\ inMissed' = IF ~inDry /\ ~inTok.wasActive /\ inHost.front # inDisk["spoondBin"]
                   THEN inMissed \cup {"front"} ELSE inMissed
    /\ UNCHANGED <<inDisk, inSecret, inMetrics, inChanged, inTok, inGen>>

BackendHealthy ==
    /\ InGoes("backendHealth", "user")
    /\ inDry \/ inHost.backend # "off"
    /\ UNCHANGED <<inDisk, inSecret, inHost, inChanged, inTok, inGen>>
    /\ Quiet

\* Mutant: the users file is not asked before the POST.
UsersAny == TRUE

\* usersFileHasAny.
UsersNone == inHost.users = 0

\* The first user is made when there is none: not without --admin-key, and not when the
\* backend answers 403, because another user has arrived or its own token is another;
\* both are skipped rows of a run that goes on.
FirstAdminUser ==
    /\ InGoes("user", "images")
    /\ IF UsersNone
       THEN \/ /\ inHost' = HostAfter([inHost EXCEPT !.users = @ + 1])
               /\ UNCHANGED inChanged
            \/ /\ InMay("nouser")
               /\ inChanged' = inChanged \cup {"noUser"}
               /\ UNCHANGED inHost
       ELSE UNCHANGED <<inHost, inChanged>>
    /\ UNCHANGED <<inDisk, inSecret, inTok, inGen>>
    /\ Quiet

\* The guest files, and every manifest image without a build.
ImagesPhase ==
    /\ InGoes("images", "doctor")
    /\ inHost' = HostAfter([inHost EXCEPT !.image = TRUE])
    /\ UNCHANGED <<inDisk, inSecret, inChanged, inTok, inGen>>
    /\ Quiet

DoctorPhase ==
    /\ inPc = "doctor"
    /\ RunOver("ok")
    /\ UNCHANGED <<inDisk, inSecret, inHost, inDry, inChanged, inTok, inGen, inStops, inmay>>
    /\ Quiet

InstallStep ==
    \/ CheckHost \/ HostPackages \/ HostModules \/ HostSysctl \/ ApplySysctl \/ HostGrub \/ UpdateGrub
    \/ HostIptables \/ StoreStep \/ DockerStep \/ AppArmor
    \/ InstallBinaries \/ InstallPinned \/ OperatorConfig \/ InstallSeed \/ InstallGuard
    \/ InstallOrchestratorUnit \/ Orchestration \/ OrchHealthy \/ SpoondDefaults
    \/ SpoondTLS \/ TlsKey \/ BackendEnvWrite \/ WriteDrainFiles \/ WriteDashFiles
    \/ CopyBinary \/ SpoondUnitsWrite \/ SpoondUnitsEnable \/ SpoondRestart
    \/ BackendHealthy \/ FirstAdminUser \/ ImagesPhase \/ DoctorPhase

-----------------------------------------------------------------------------
(***************************************************************************)
(* What happens to a run, and what the operator does.                      *)
(***************************************************************************)

\* What runs and is not what is on disk: the run owes it a restart.
Stale ==
    {x \in {"orch", "guard", "backend", "front", "docker", "boot"} :
        CASE x = "orch" -> inHost.orch \notin {"off", inDisk["orchBin"]}
          [] x = "guard" -> inHost.guard \notin {"off", inDisk["guard"]}
          [] x \in {"backend", "front"} -> inHost[x] \notin {"off", inDisk["spoondBin"]}
          [] x = "docker" -> inHost.docker \notin {"off", inHost.iptables}
          [] x = "boot" -> inDisk["grub"] = "new" /\ ~inHost.boot}

\* A command or a download fails, or the run is killed: the step is not done,
\* and what earlier steps did stays, also between a write and the restart it
\* calls for.
RunStops ==
    /\ inPc # "idle"
    /\ inStops > 0
    /\ inStops' = inStops - 1
    /\ RunOver("failed")
    /\ inMissed' = inMissed \cup Stale
    /\ UNCHANGED <<inDisk, inSecret, inMetrics, inHost, inDry, inChanged, inTok, inGen, inmay>>

\* The run is killed, or the disk fills, inside writeFileKeep's plain write; of a
\* backend.env cut off below its tokens METRICS_TOKEN may be there or not.
StopsMidWrite ==
    /\ InMay("half")
    /\ inPc \in InSecrets \ {"cert"}
    /\ ~inDry
    /\ KeepAbsent(inPc)
    /\ \E cut \in IF inPc = "backendEnv" THEN {-1, -2} ELSE {-1} :
        /\ inSecret' = [inSecret EXCEPT ![inPc] = cut]
        /\ inMetrics' \in IF inPc = "backendEnv" /\ cut = -2
                          THEN {inMetrics, [inMetrics EXCEPT !.backend = inGen + 1]}
                          ELSE {inMetrics}
        /\ inGen' = IF inMetrics' = inMetrics THEN inGen ELSE inGen + 1
    /\ inmay' = inmay \ {"half"}
    /\ RunOver("failed")
    /\ inMissed' = inMissed \cup Stale
    /\ UNCHANGED <<inDisk, inHost, inDry, inChanged, inTok, inStops>>

\* The reboot asked for: the kernel reserves the pages, and every service
\* starts on what is on disk.
HostReboots ==
    /\ inPc = "idle"
    /\ inResult = "reboot"
    /\ inResult' = "failed"
    /\ inHost' = [inHost EXCEPT
         !.pages = TRUE,
         !.docker = inHost.iptables,
         !.orch = IF @ = "off" THEN @ ELSE inDisk["orchBin"],
         !.guard = IF @ = "off" THEN @ ELSE inDisk["guard"],
         !.backend = IF @ = "off" THEN @ ELSE inDisk["spoondBin"],
         !.front = IF @ = "off" THEN @ ELSE inDisk["spoondBin"]]
    /\ inMissed' = inMissed \cap {"boot"}
    /\ UNCHANGED <<inDisk, inSecret, inMetrics, inPc, inDry, inChanged, inTok, inGen, inStops,
                   inmay>>

\* The operator does what the failed run said: "remove the certificate (or
\* install both) and rerun", or sets the token variables that are missing.
RepairsByHand ==
    /\ inPc = "idle"
    /\ \/ /\ (inSecret["cert"] # 0) # (inSecret["key"] # 0)
          /\ inSecret' = [inSecret EXCEPT !["cert"] = 0, !["key"] = 0]
          /\ UNCHANGED inGen
       \/ /\ inSecret["backendEnv"] = -1
          /\ inSecret' = [inSecret EXCEPT !["backendEnv"] = inGen + 1]
          /\ inGen' = inGen + 1
    /\ UNCHANGED <<inDisk, inMetrics, inHost, inPc, inDry, inChanged, inTok, inResult, inStops,
                   inMissed, inmay>>

\* Installed: nothing is left to do.
InstallRests == inPc = "idle" /\ inResult = "ok" /\ UNCHANGED invars

INNext ==
    \/ InstallStarts \/ InstallStep \/ RunStops \/ StopsMidWrite
    \/ HostReboots \/ RepairsByHand \/ InstallRests

INSpec == INInit /\ [][INNext]_invars

-----------------------------------------------------------------------------
(***************************************************************************)
(* Properties.                                                             *)
(***************************************************************************)

\* No run overwrites a secret or env file that exists ("Never overwrite a secret
\* or env file that exists", install.go), however often it is stopped and run
\* again; only the operator touches one.
SecretsKept ==
    [][\A f \in InSecrets : inSecret[f] # 0 /\ ~RepairsByHand => inSecret'[f] = inSecret[f]]_invars

\* The files made from one another agree at all times, though a run may stop
\* between any two of them: the gateway and the dashboard hold the backend's own
\* tokens, and the certificate is the key's.  Only METRICS_TOKEN may be one the
\* backend does not have, and then the backend has none.
SecretsAgree ==
    /\ \A f \in {"gatewayEnv", "dashEnv"} :
        inSecret[f] \notin {0, -1} => inSecret[f] = inSecret["backendEnv"]
    /\ inSecret["cert"] > 0 /\ inSecret["key"] > 0 => inSecret["cert"] = inSecret["key"]
    /\ inMetrics.dash # 0 => inMetrics.dash = inMetrics.backend \/ inMetrics.backend = 0

\* A dry run changes no file, no secret and nothing of the host.
DryRunTouchesNothing ==
    [][inDry /\ inPc # "idle" => UNCHANGED <<inDisk, inSecret, inHost>>]_invars

\* A run that ends well leaves a host that is installed, whatever runs were cut
\* off before it: every shipped file current, every secret there, every service
\* up, and exactly one first user, or none and a row that says so.
OkMeansInstalled ==
    inPc = "idle" /\ inResult = "ok" =>
        /\ \A f \in InFiles \ {"orchConf"} : inDisk[f] = "new"
        /\ \A f \in InSecrets : inSecret[f] # 0
        /\ "off" \notin {inHost.docker, inHost.orch, inHost.guard, inHost.backend}
        /\ inHost.pages /\ inHost.image /\ inHost.mods /\ inHost.store
        /\ inHost.users = IF "noUser" \in inChanged THEN 0 ELSE 1

\* After a run that ends well, what runs is what was installed: the restart of
\* each service, and update-grub, are done when their files change.  What stays
\* stale is what was stale when an earlier run stopped, since the run after it
\* finds the file kept, or the gateway and the dashboard beside a stopped backend.
RunsWhatItInstalled ==
    inPc = "idle" /\ inResult = "ok" => Stale \subseteq inMissed

\* Once started, an operator who runs the command again, reboots when told to and
\* repairs what a failed run names ends with an installed host.
InstallCompletes == (inPc # "idle") ~> (inResult = "ok")

\* However often an installation was cut off and run again: secrets are kept and
\* agree, a dry run touches nothing, and a run that ends well leaves a host that
\* runs what was installed.
InstallHolds ==
  /\ []SecretsAgree
  /\ []OkMeansInstalled
  /\ []RunsWhatItInstalled
  /\ DryRunTouchesNothing
  /\ SecretsKept
=============================================================================
