------------------------------ MODULE WorkCalls ------------------------------
(***************************************************************************)
(* The calls that reach into a running guest (api/server.go, files.go,     *)
(* guestdial.go, proxy.go): exec, stream, file transfer, port dial, proxy  *)
(* and prompt.  Each takes its slot, resumes a suspended lease on use,     *)
(* refuses a lost one, works on the sandbox and maps what the substrate    *)
(* says to an answer, while the lease's own lifecycle goes on.             *)
(***************************************************************************)
EXTENDS Integers, FiniteSets

CONSTANTS
    WcRequests,   \* the calls of one owner, all on one lease
    SlotMax,      \* exec/stream slots of the owner
    XferMax,      \* file transfers of the host
    DialMax,      \* guest dials of the owner
    WcScenarios   \* what may happen: one set of names per behaviour

VARIABLES
    wcReq,    \* per call: kind, step, sandbox it read, pin, answer, and whether an
              \* operation on the lease ended since it passed the gate
    wcLease,  \* the lease: sandbox id, suspended, busy with, crashed, state, work, pins
    wcNode,   \* the sandboxes the node runs
    wcSlots, wcXfers, wcDials,   \* the counters
    wcProc,   \* per stream or dial: the guest's end, and whether its relay still runs
    wcClient, \* per stream or dial: the client's end of the socket
    wcLife,   \* the lifecycle operation under way
    wcmay

wcvars == <<wcReq, wcLease, wcNode, wcSlots, wcXfers, wcDials, wcProc, wcClient, wcLife, wcmay>>

WcMay(x) == x \in wcmay
WcKinds == {"exec", "stream", "file", "dial", "proxy", "prompt"} \cap wcmay

IdleCall == [kind |-> "none", pc |-> "idle", sb |-> 0, pin |-> FALSE, ans |-> "none",
             over |-> FALSE]

WCInit ==
    /\ wcmay \in WcScenarios
    /\ wcReq = [r \in WcRequests |-> IdleCall]
    /\ wcLease = [sb |-> 1, susp |-> WcMay("suspended"), busy |-> FALSE, down |-> FALSE, state |-> "ok",
                  work |-> 0, pins |-> 0]
    /\ wcNode = IF WcMay("suspended") THEN {} ELSE {1}
    /\ wcSlots = 0 /\ wcXfers = 0 /\ wcDials = 0
    /\ wcProc = [r \in WcRequests |-> [run |-> "none", relay |-> FALSE]]
    /\ wcClient = [r \in WcRequests |-> "none"]
    /\ wcLife = "none"

WcPresent == wcLease.state # "released"

-----------------------------------------------------------------------------
(***************************************************************************)
(* The counters.                                                           *)
(***************************************************************************)

\* exec and stream hold a slot from their first line; a file transfer and a dial
\* take theirs once the lease runs.
HoldsSlot(r) == wcReq[r].kind \in {"exec", "stream"} /\ wcReq[r].pc \notin {"idle", "done"}
AfterGate == {"op", "gone", "bridge"}
HoldsXfer(r) == wcReq[r].kind = "file" /\ wcReq[r].pc \in AfterGate
HoldsDial(r) == wcReq[r].kind = "dial" /\ wcReq[r].pc \in AfterGate
\* openWork counts an exec while the guest runs it and a stream once started.
CountsWork(r) ==
    \/ wcReq[r].kind = "exec" /\ wcReq[r].pc \in {"op", "gone"}
    \/ wcReq[r].kind = "stream" /\ wcReq[r].pc = "bridge"

\* decOpenWork, decExecPin: a lease out of the store is left alone, and no counter
\* goes below zero.
Decrement(n) == IF n > 0 THEN n - 1 ELSE 0

\* Mutant: a call that ends without an answer from the guest keeps its slot.
SlotsAfterKept(r, ans) ==
    IF HoldsSlot(r) /\ ans \in {"ok", "exit"} THEN Decrement(wcSlots) ELSE wcSlots

\* releaseBusy, deferred: every way out of exec and stream gives the slot back.
SlotsAfter(r, ans) == IF HoldsSlot(r) THEN Decrement(wcSlots) ELSE wcSlots

\* Mutant: an exec that asked for a pin unpins only when it succeeds.
LeaseAfterPinned(r, ans) ==
    [wcLease EXCEPT !.work = IF CountsWork(r) THEN Decrement(@) ELSE @,
                    !.pins = IF wcReq[r].pin /\ ans = "ok" THEN Decrement(@) ELSE @]

\* decOpenWork and decExecPin, deferred.
LeaseAfter(r, ans) ==
    [wcLease EXCEPT !.work = IF CountsWork(r) THEN Decrement(@) ELSE @,
                    !.pins = IF wcReq[r].pin THEN Decrement(@) ELSE @]

\* The call answers and returns; its deferred calls run.
Answers(r, ans) ==
    /\ wcReq' = [wcReq EXCEPT ![r].pc = "done", ![r].ans = ans, ![r].pin = FALSE]
    /\ wcSlots' = SlotsAfter(r, ans)
    /\ wcXfers' = IF HoldsXfer(r) THEN wcXfers - 1 ELSE wcXfers
    /\ wcDials' = IF HoldsDial(r) THEN Decrement(wcDials) ELSE wcDials
    /\ wcLease' = IF WcPresent THEN LeaseAfter(r, ans) ELSE wcLease

Moves(r, pc) ==
    /\ wcReq' = [wcReq EXCEPT ![r].pc = pc]
    /\ UNCHANGED <<wcSlots, wcXfers, wcDials, wcLease>>

Untouched == UNCHANGED <<wcNode, wcProc, wcClient, wcLife, wcmay>>

-----------------------------------------------------------------------------
(***************************************************************************)
(* The way in.                                                             *)
(***************************************************************************)

\* acquireBusy, for the kinds that need one: 429 too_busy at the limit.
SlotFree(kind) == kind \in {"exec", "stream"} => wcSlots < SlotMax

\* handleExec and handleStream take their slot first and refuse at the limit; an
\* exec may ask for a pin, counted at once when the lease is present.
ExecOrStreamArrives(r, kind, pin) ==
    /\ wcReq[r].pc = "idle" /\ kind \in {"exec", "stream"} \cap WcKinds
    /\ pin => kind = "exec" /\ WcMay("pin") /\ WcPresent
    /\ IF SlotFree(kind)
       THEN /\ wcReq' = [wcReq EXCEPT ![r] = [IdleCall EXCEPT !.kind = kind, !.pc = "lookup",
                                                              !.pin = pin]]
            /\ wcSlots' = wcSlots + 1
            /\ wcLease' = [wcLease EXCEPT !.pins = IF pin THEN @ + 1 ELSE @]
       ELSE /\ wcReq' = [wcReq EXCEPT ![r] = [IdleCall EXCEPT !.kind = kind, !.pc = "done",
                                                              !.ans = "429"]]
            /\ UNCHANGED <<wcSlots, wcLease>>
    /\ wcClient' = [wcClient EXCEPT ![r] = IF kind = "stream" THEN "open" ELSE @]
    /\ UNCHANGED <<wcXfers, wcDials, wcNode, wcProc, wcLife, wcmay>>

\* filesGate, handleGuestDial, handleProxy and handlePrompt look the lease up first.
OtherArrives(r, kind) ==
    /\ wcReq[r].pc = "idle" /\ kind \in {"file", "dial", "proxy", "prompt"} \cap WcKinds
    /\ wcReq' = [wcReq EXCEPT ![r] = [IdleCall EXCEPT !.kind = kind, !.pc = "lookup"]]
    /\ wcClient' = [wcClient EXCEPT ![r] = IF kind = "dial" THEN "open" ELSE @]
    /\ UNCHANGED <<wcSlots, wcXfers, wcDials, wcLease, wcNode, wcProc, wcLife, wcmay>>

\* lookup and its share-aware form: 404 for a lease that is gone.
LookedUp(r) ==
    /\ wcReq[r].pc = "lookup"
    /\ IF WcPresent THEN Moves(r, "gate") ELSE Answers(r, "404")
    /\ Untouched

\* ensureRunning: a lease that is not suspended passes; one busy with its pause or
\* another resume is refused; otherwise this call claims the resume.
EnsureRunning(r) ==
    /\ wcReq[r].pc = "gate"
    /\ CASE ~wcLease.susp -> Moves(r, "live")
         [] wcLease.busy -> Answers(r, "409")
         [] wcLease.state = "lost" -> Answers(r, "410")
         [] OTHER ->
              /\ wcReq' = [wcReq EXCEPT ![r].pc = "resuming"]
              /\ wcLease' = [wcLease EXCEPT !.busy = TRUE]
              /\ UNCHANGED <<wcSlots, wcXfers, wcDials>>
    /\ Untouched

\* resumeLease ends: the sandbox is back under its id, or the lease was released
\* meanwhile, or the node had no room and the call answers what resume would.
ResumedOnUse(r) ==
    /\ wcReq[r].pc = "resuming"
    /\ \/ /\ WcPresent
          /\ wcReq' = [wcReq EXCEPT ![r].pc = "live"]
          /\ wcLease' = [wcLease EXCEPT !.busy = FALSE, !.susp = FALSE]
          /\ wcNode' = wcNode \cup {wcLease.sb}
          /\ UNCHANGED <<wcSlots, wcXfers, wcDials>>
       \/ /\ ~WcPresent \/ WcMay("refuse")
          /\ wcReq' = [wcReq EXCEPT ![r].pc = "done", ![r].pin = FALSE,
                                    ![r].ans = IF WcPresent THEN "503" ELSE "404"]
          /\ wcSlots' = SlotsAfter(r, "503")
          /\ wcLease' = [LeaseAfter(r, "503") EXCEPT !.busy = FALSE]
          /\ UNCHANGED <<wcNode, wcXfers, wcDials>>
    /\ UNCHANGED <<wcProc, wcClient, wcLife, wcmay>>

\* ensureLive, then the kind's own slot: a transfer and a dial refuse at the limit.
EnsureLive(r) ==
    /\ wcReq[r].pc = "live"
    /\ CASE wcLease.state = "lost" -> Answers(r, "410")
         [] wcReq[r].kind = "file" /\ wcXfers >= XferMax -> Answers(r, "429")
         [] wcReq[r].kind = "dial" /\ wcDials >= DialMax -> Answers(r, "429")
         [] OTHER ->
              /\ wcReq' = [wcReq EXCEPT ![r].pc = "op", ![r].sb = wcLease.sb]
              /\ wcXfers' = IF wcReq[r].kind = "file" THEN wcXfers + 1 ELSE wcXfers
              /\ wcDials' = IF wcReq[r].kind = "dial" THEN wcDials + 1 ELSE wcDials
              /\ wcLease' = IF wcReq[r].kind = "exec" /\ WcPresent
                            THEN [wcLease EXCEPT !.work = @ + 1] ELSE wcLease
              /\ UNCHANGED wcSlots
    /\ Untouched

-----------------------------------------------------------------------------
(***************************************************************************)
(* The work.                                                               *)
(***************************************************************************)

Reached(r) == wcReq[r].sb \in wcNode

\* handleExec's end and handlePrompt's: the guest answered.
ExecEnds(r) ==
    /\ wcReq[r].pc = "op" /\ wcReq[r].kind \in {"exec", "prompt"} /\ Reached(r)
    /\ Answers(r, "ok")
    /\ Untouched

\* The transfer routes: the file was read, written, made or removed, or the guest
\* says it is not there.
FileEnds(r) ==
    /\ wcReq[r].pc = "op" /\ wcReq[r].kind = "file" /\ Reached(r)
    /\ Answers(r, "ok")
    /\ Untouched

\* handleProxy: the reverse proxy has no use for the substrate's errors.
ProxyEnds(r) ==
    /\ wcReq[r].pc = "op" /\ wcReq[r].kind = "proxy"
    /\ Answers(r, IF Reached(r) THEN "ok" ELSE "502")
    /\ Untouched

\* The sandbox is not on the node: the substrate confirms it with a List and says
\* not-found; when the List fails too the state is unknown, a retryable 503.
OpMisses(r) ==
    /\ wcReq[r].pc = "op" /\ wcReq[r].kind \in {"exec", "file", "dial"} /\ ~Reached(r)
    /\ \/ Moves(r, "gone")
       \/ WcMay("unknown") /\ wcReq[r].kind # "dial" /\ Answers(r, "503")
    /\ Untouched

PromptMisses(r) ==
    /\ wcReq[r].pc = "op" /\ wcReq[r].kind = "prompt" /\ ~Reached(r)
    /\ Answers(r, "502")
    /\ Untouched

\* Mutant: a missing sandbox is a lost lease, whatever is in flight.
MissingMeansAlways(r) == IF wcReq[r].kind = "file" THEN "ENOENT" ELSE "410"

\* writeSandboxGone and mapFileError: not-found while a lifecycle operation holds
\* the lease is 409, else 410 lease_lost, or ENOENT for a file.
MissingMeans(r) ==
    CASE wcLease.busy -> "409"
      [] wcReq[r].kind = "file" -> "ENOENT"
      [] OTHER -> "410"

SandboxGone(r) ==
    /\ wcReq[r].pc = "gone"
    /\ Answers(r, MissingMeans(r))
    /\ Untouched

\* handleStream: the process starts, or the error frame says the guest is out of reach.
StreamStarts(r) ==
    /\ wcReq[r].pc = "op" /\ wcReq[r].kind = "stream"
    /\ IF Reached(r)
       THEN /\ wcReq' = [wcReq EXCEPT ![r].pc = "bridge"]
            /\ wcLease' = IF WcPresent THEN [wcLease EXCEPT !.work = @ + 1] ELSE wcLease
            /\ wcProc' = [wcProc EXCEPT ![r] = [run |-> "running", relay |-> TRUE]]
            /\ UNCHANGED <<wcSlots, wcXfers, wcDials>>
       ELSE Answers(r, "spawn_error") /\ UNCHANGED wcProc
    /\ UNCHANGED <<wcNode, wcClient, wcLife, wcmay>>

\* The guest's end goes by itself, or with its sandbox.
ProcessExits(r) ==
    /\ wcProc[r].run = "running"
    /\ wcProc' = [wcProc EXCEPT ![r].run = "exited"]
    /\ UNCHANGED <<wcReq, wcSlots, wcXfers, wcDials, wcLease, wcNode, wcClient, wcLife, wcmay>>

\* The relay forwards the exit or error frame, the last one, and returns.
RelayEnds(r) ==
    /\ wcProc[r].relay /\ wcProc[r].run \in {"exited", "detached"}
    /\ wcProc' = [wcProc EXCEPT ![r].relay = FALSE]
    /\ wcReq' = [wcReq EXCEPT ![r].ans =
                   IF wcProc[r].run = "exited" /\ wcClient[r] # "closed" THEN "exit" ELSE @]
    /\ UNCHANGED <<wcSlots, wcXfers, wcDials, wcLease, wcNode, wcClient, wcLife, wcmay>>

\* The client sends stop (SIGTERM) or kill (SIGKILL): the process is signalled,
\* the error of that ignored, and the loop waits for the relay.  A process may
\* go on after a SIGTERM, and after a signal that did not reach it.
StreamStops(r) ==
    /\ wcReq[r].kind = "stream" /\ wcReq[r].pc = "bridge" /\ wcClient[r] = "open"
    /\ WcMay("stop")
    /\ wcClient' = [wcClient EXCEPT ![r] = "stopped"]
    /\ \/ wcProc' = [wcProc EXCEPT ![r].run = IF @ = "running" THEN "exited" ELSE @]
       \/ UNCHANGED wcProc
    /\ UNCHANGED <<wcReq, wcSlots, wcXfers, wcDials, wcLease, wcNode, wcLife, wcmay>>

\* The client closes its socket.
ClientCloses(r) ==
    /\ wcReq[r].pc = "bridge" /\ wcClient[r] = "open"
    /\ wcClient' = [wcClient EXCEPT ![r] = "closed"]
    /\ UNCHANGED <<wcReq, wcSlots, wcXfers, wcDials, wcLease, wcNode, wcProc, wcLife, wcmay>>

\* The reading loop meets the closed socket: the process is detached, not killed,
\* and its event channel ends.
StreamDetaches(r) ==
    /\ wcReq[r].kind = "stream" /\ wcReq[r].pc = "bridge" /\ wcClient[r] = "closed"
    /\ wcProc[r].run = "running"
    /\ wcProc' = [wcProc EXCEPT ![r].run = "detached"]
    /\ UNCHANGED <<wcReq, wcSlots, wcXfers, wcDials, wcLease, wcNode, wcClient, wcLife, wcmay>>

\* Mutant: the handler waits for the process, which a closed socket leaves running.
MayReturnOnExit(r) == wcProc[r].run = "exited" /\ ~wcProc[r].relay

\* handleStream returns once its loop is over, on a stop or a close, and the relay
\* is done.
MayReturn(r) == wcClient[r] # "open" /\ ~wcProc[r].relay

StreamReturns(r) ==
    /\ wcReq[r].kind = "stream" /\ wcReq[r].pc = "bridge"
    /\ MayReturn(r)
    /\ Answers(r, wcReq[r].ans)
    /\ Untouched

\* handleGuestDial: the two ends are bridged.
DialBridges(r) ==
    /\ wcReq[r].pc = "op" /\ wcReq[r].kind = "dial" /\ Reached(r)
    /\ Moves(r, "bridge")
    /\ wcProc' = [wcProc EXCEPT ![r].run = "running"]
    /\ UNCHANGED <<wcNode, wcClient, wcLife, wcmay>>

\* bridgeWSGuest ends with either end, or with nothing said for guestDialIdleTimeout.
DialEnds(r) ==
    /\ wcReq[r].pc = "bridge" /\ wcReq[r].kind = "dial"
    /\ wcClient[r] = "closed" \/ wcProc[r].run = "exited" \/ WcMay("quiet")
    /\ wcClient' = [wcClient EXCEPT ![r] = "closed"]
    /\ Answers(r, "ok")
    /\ UNCHANGED <<wcNode, wcProc, wcLife, wcmay>>

-----------------------------------------------------------------------------
(***************************************************************************)
(* The lease's lifecycle, as the other modules describe it in detail.      *)
(***************************************************************************)

\* The guest's ends whose sandbox leaves the node end with it.
ProcsWithout(gone) ==
    [r \in WcRequests |->
        IF wcProc[r].run = "running" /\ wcReq[r].sb \in gone
        THEN [wcProc[r] EXCEPT !.run = "exited"] ELSE wcProc[r]]

\* A pause, a checkpoint or a restart claims the lease.
LifeBegins(op) ==
    /\ op \in {"pause", "checkpoint", "restart"} \cap wcmay
    /\ wcLife = "none" /\ ~wcLease.busy /\ ~wcLease.susp /\ wcLease.state = "ok" /\ ~wcLease.down
    /\ wcLease' = [wcLease EXCEPT !.busy = TRUE]
    /\ wcLife' = op
    /\ UNCHANGED <<wcReq, wcSlots, wcXfers, wcDials, wcNode, wcProc, wcClient, wcmay>>

\* The sandbox leaves the node for the length of the snapshot, or for good.
LifeStopsSandbox ==
    /\ wcLife \in {"pause", "checkpoint", "restart"}
    /\ wcNode' = wcNode \ {wcLease.sb}
    /\ wcProc' = ProcsWithout({wcLease.sb})
    /\ wcLife' = CASE wcLife = "pause" -> "paused" [] wcLife = "restart" -> "restarted"
                   [] OTHER -> "checkpointed"
    /\ UNCHANGED <<wcReq, wcSlots, wcXfers, wcDials, wcLease, wcClient, wcmay>>

\* An operation ends, whatever the calls that passed the gate have met meanwhile.
LifeEnds ==
    /\ wcLife \in {"paused", "checkpointed", "restarted", "recovering"}
    /\ wcLife' = "none"
    /\ wcLease' = [wcLease EXCEPT !.busy = FALSE, !.susp = @ \/ wcLife = "paused", !.down = FALSE,
                                  !.sb = IF wcLife = "restarted" THEN @ + 1 ELSE @]
    /\ wcNode' = IF wcLife = "paused" \/ ~WcPresent THEN wcNode ELSE wcNode \cup {wcLease'.sb}
    /\ wcmay' = wcmay \ {"restart"}
    /\ wcReq' = [r \in WcRequests |->
                   [wcReq[r] EXCEPT !.over = @ \/ wcReq[r].pc \in {"live", "op", "gone"}]]
    /\ UNCHANGED <<wcSlots, wcXfers, wcDials, wcProc, wcClient>>

\* The owner releases the lease: out of the store with its counters.
LifeReleases ==
    /\ WcMay("release") /\ WcPresent
    /\ wcLease' = [wcLease EXCEPT !.state = "released", !.work = 0, !.pins = 0]
    /\ wcNode' = wcNode \ {wcLease.sb}
    /\ wcProc' = ProcsWithout({wcLease.sb})
    /\ UNCHANGED <<wcReq, wcSlots, wcXfers, wcDials, wcClient, wcLife, wcmay>>

\* The guest dies: nothing of the lease says so before the next reconcile ...
LifeCrashes ==
    /\ WcMay("lost") /\ wcLease.state = "ok" /\ ~wcLease.busy /\ wcLease.sb \in wcNode
    /\ wcLease' = [wcLease EXCEPT !.down = TRUE]
    /\ wcNode' = wcNode \ {wcLease.sb}
    /\ wcProc' = ProcsWithout({wcLease.sb})
    /\ wcmay' = wcmay \ {"lost"}
    /\ UNCHANGED <<wcReq, wcSlots, wcXfers, wcDials, wcClient, wcLife>>

\* ... which marks the lease lost, or claims it and brings its guest back.
LifeReconciled ==
    /\ wcLease.down /\ wcLease.state = "ok" /\ ~wcLease.busy
    /\ \/ wcLease' = [wcLease EXCEPT !.state = "lost"] /\ UNCHANGED wcLife
       \/ wcLease' = [wcLease EXCEPT !.busy = TRUE] /\ wcLife' = "recovering"
    /\ UNCHANGED <<wcReq, wcSlots, wcXfers, wcDials, wcNode, wcProc, wcClient, wcmay>>

-----------------------------------------------------------------------------
\* A stream or a dial that is bridged may stay so: its client decides.
WcSettled == \A r \in WcRequests : wcReq[r].pc \in {"done", "bridge"}

WcServer(r) ==
    \/ LookedUp(r) \/ EnsureRunning(r) \/ ResumedOnUse(r) \/ EnsureLive(r)
    \/ ExecEnds(r) \/ FileEnds(r) \/ ProxyEnds(r) \/ OpMisses(r) \/ PromptMisses(r)
    \/ SandboxGone(r) \/ StreamStarts(r) \/ RelayEnds(r) \/ StreamDetaches(r)
    \/ StreamReturns(r) \/ DialBridges(r) \/ DialEnds(r)

WCNext ==
    \/ \E r \in WcRequests :
        \/ \E k \in WcKinds, pin \in BOOLEAN : ExecOrStreamArrives(r, k, pin)
        \/ \E k \in WcKinds : OtherArrives(r, k)
        \/ LookedUp(r) \/ EnsureRunning(r) \/ ResumedOnUse(r) \/ EnsureLive(r)
        \/ ExecEnds(r) \/ FileEnds(r) \/ ProxyEnds(r) \/ OpMisses(r) \/ PromptMisses(r)
        \/ SandboxGone(r) \/ StreamStarts(r) \/ RelayEnds(r) \/ StreamDetaches(r)
        \/ StreamReturns(r) \/ DialBridges(r) \/ DialEnds(r)
        \/ ProcessExits(r) \/ StreamStops(r) \/ ClientCloses(r)
    \/ \E op \in {"pause", "checkpoint", "restart"} : LifeBegins(op)
    \/ LifeStopsSandbox \/ LifeEnds \/ LifeReleases \/ LifeCrashes \/ LifeReconciled
    \/ WcSettled /\ UNCHANGED wcvars

WCSpec == WCInit /\ [][WCNext]_wcvars

-----------------------------------------------------------------------------
\* The owner's exec/stream slots in use are exactly the execs and streams under
\* way, on every way out of the handlers (acquireBusy, releaseBusy), and likewise
\* the host's file transfers and the owner's dials; none is above its limit.
SlotsExact ==
    /\ wcSlots = Cardinality({r \in WcRequests : HoldsSlot(r)}) /\ wcSlots <= SlotMax
    /\ wcXfers = Cardinality({r \in WcRequests : HoldsXfer(r)}) /\ wcXfers <= XferMax
    /\ wcDials = Cardinality({r \in WcRequests : HoldsDial(r)}) /\ wcDials <= DialMax

\* A present lease's open work and exec pins, which keep the idle sweep and
\* take-back off it, are exactly its calls in the guest (incOpenWork, incExecPin):
\* nothing stays counted after a call that was refused or failed.
WorkExact ==
    WcPresent =>
        /\ wcLease.work = Cardinality({r \in WcRequests : CountsWork(r)})
        /\ wcLease.pins = Cardinality({r \in WcRequests : wcReq[r].pin})

\* 410 is final for a client, and ENOENT says a file is not there: neither is
\* answered for a lease whose sandbox is only away for a pause, a checkpoint or
\* a restart (writeSandboxGone, mapFileError).  Two kinds of call are told so of
\* a lease that lives on: one that meets a dead guest before the reconcile that
\* recovers it, and one under way when such an operation ended, which is judged
\* by the lease as it is then.
GoneIsGone ==
    [][\A r \in WcRequests :
        wcReq'[r].ans # wcReq[r].ans /\ wcReq'[r].ans \in {"410", "ENOENT"} =>
            wcLease.state # "ok" \/ wcLease.down \/ wcReq[r].over]_wcvars

\* The end of a bridged call is the client's or the guest's: a closed socket, a
\* stopped process that has ended, a dialled guest that is gone.
BridgeOver(r) ==
    /\ wcReq[r].pc = "bridge"
    /\ \/ wcClient[r] = "closed"
       \/ wcReq[r].kind = "stream" /\ wcClient[r] = "stopped" /\ wcProc[r].run # "running"
       \/ wcReq[r].kind = "dial" /\ wcProc[r].run = "exited"

\* Every call is answered or bridged, and a bridged one returns, giving its slots
\* back, once its end has come (handleStream, bridgeWSGuest and the
\* resume-on-use path before them).  A stopped process that does not end, and a
\* client that neither stops nor closes, hold theirs.
CallReturns ==
    \A r \in WcRequests :
        /\ wcReq[r].pc \notin {"idle", "done", "bridge"} ~> wcReq[r].pc \in {"done", "bridge"}
        /\ BridgeOver(r) ~> wcReq[r].pc = "done"

\* Slots, work and pins are exactly those of the calls under way, and a lease is
\* called gone only when it is.
CallsAreCounted ==
  /\ []SlotsExact
  /\ []WorkExact
  /\ GoneIsGone
=============================================================================
