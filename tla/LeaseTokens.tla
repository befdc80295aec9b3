---------------------------- MODULE LeaseTokens ----------------------------
(***************************************************************************)
(* The lease's self token (api/self_token.go) and the per-lease LLM        *)
(* gateway that accepts it (api/llmgateway.go).  A token is minted for a   *)
(* lease, its hash kept with the lease and in its row, the token itself    *)
(* only in the backend's memory and in a file of the guest.  Every         *)
(* operation that brings a guest back stages the file again, keeping the   *)
(* token if it can still find it; a lost or released lease's hash is       *)
(* dropped.  Tokens are numbered in the order they are minted, and a hash  *)
(* is the number of its token.                                             *)
(***************************************************************************)
EXTENDS Integers, Sequences, FiniteSets

CONSTANTS
    TkLeases,      \* lease ids, all of one owner with an LLM key
    TkRequests,    \* requests at the LLM gateway
    LlmMax,        \* maxConcurrent: LLM requests the owner may have in flight
    TkTokens,      \* bound on the tokens minted
    TkScenarios    \* what may happen: one set of names per behaviour

ASSUME TokenAssumption ==
    /\ IsFiniteSet(TkRequests)
    /\ LlmMax \in Nat
    /\ TkTokens \in Nat

VARIABLES
    tkLease,    \* state of each lease and SelfTokenHash; 0 = none
    tkRow,      \* the hash in each lease's row; -1 = no row
    tkMem,      \* selfTokens: the token this process holds per lease
    tkGuest,    \* the token in the guest's file
    tkCall,     \* the staging in flight per lease
    tkMinted,   \* history: the lease each token was minted for
    tkDead,     \* history: tokens of leases that were lost or released
    tkBy,       \* history: the token and the lease of the last release by token
    tkUnstaged, \* history: leases whose last staging failed or was cut off
    tkReq,      \* the LLM requests
    tkFlight,   \* inflight[owner]
    tkmay

tkvars == <<tkLease, tkRow, tkMem, tkGuest, tkCall, tkMinted, tkDead, tkUnstaged, tkBy, tkReq, tkFlight, tkmay>>

NoStage == [pc |-> "none", hash |-> 0, token |-> 0]
NoLlm == [pc |-> "none", lease |-> 0, token |-> 0]

TkMay(x) == x \in tkmay

TKInit ==
    /\ tkmay \in TkScenarios
    /\ tkLease = [l \in TkLeases |-> [st |-> "none", hash |-> 0]]
    /\ tkRow = [l \in TkLeases |-> -1]
    /\ tkMem = [l \in TkLeases |-> 0]
    /\ tkGuest = [l \in TkLeases |-> 0]
    /\ tkCall = [l \in TkLeases |-> NoStage]
    /\ tkMinted = <<>>
    /\ tkDead = {}
    /\ tkUnstaged = {}
    /\ tkBy = NoLlm
    /\ tkReq = [r \in TkRequests |-> NoLlm]
    /\ tkFlight = 0

UpLeases == {l \in TkLeases : tkLease[l].st \in {"running", "suspended", "lost"}}

\* newSelfToken: a token no one had before.
MintFor(l, token) ==
    /\ Len(tkMinted) < TkTokens
    /\ token = Len(tkMinted) + 1
    /\ tkMinted' = Append(tkMinted, l)

-----------------------------------------------------------------------------
(***************************************************************************)
(* Create and clone: mint, stage, then register the lease with its row.    *)
(***************************************************************************)

\* The lease is not registered yet; `carried` is what its disk holds.
FirstStage(l, carried) ==
    /\ tkLease[l].st = "none"
    /\ tkCall[l] = NoStage
    /\ \E token \in 1 .. TkTokens :
        /\ MintFor(l, token)
        /\ tkLease' = [tkLease EXCEPT ![l] = [st |-> "creating", hash |-> token]]
        /\ tkMem' = [tkMem EXCEPT ![l] = token]
        /\ tkCall' = [tkCall EXCEPT ![l] = [pc |-> "stage", hash |-> 0, token |-> token]]
    /\ tkGuest' = [tkGuest EXCEPT ![l] = carried]
    /\ UNCHANGED <<tkRow, tkDead, tkUnstaged, tkBy, tkReq, tkFlight, tkmay>>

TokenCreate(l) == FirstStage(l, 0)

\* A clone inherits self_token; its memory is the source's at the checkpoint.
TokenClone(l) ==
    /\ TkMay("clone")
    /\ \E src \in UpLeases \ {l} :
        /\ tkLease[src].st # "lost"
        /\ FirstStage(l, tkGuest[src])

\* Registered and saved in one critical section, or the staging failed and the
\* sandbox is deleted.
CreateRegisters(l) ==
    /\ tkLease[l].st = "creating"
    /\ tkCall[l].pc = "staged"
    /\ tkLease' = [tkLease EXCEPT ![l].st = "running"]
    /\ tkRow' = [tkRow EXCEPT ![l] = tkLease[l].hash]
    /\ tkCall' = [tkCall EXCEPT ![l] = NoStage]
    /\ UNCHANGED <<tkMem, tkGuest, tkMinted, tkDead, tkUnstaged, tkBy, tkReq, tkFlight, tkmay>>

CreateUnstaged(l) ==
    /\ TkMay("fail")
    /\ tkLease[l].st = "creating"
    /\ tkCall[l].pc = "stage"
    /\ tkLease' = [tkLease EXCEPT ![l] = [st |-> "gone", hash |-> 0]]
    /\ tkGuest' = [tkGuest EXCEPT ![l] = 0]
    /\ tkCall' = [tkCall EXCEPT ![l] = NoStage]
    /\ UNCHANGED <<tkRow, tkMem, tkMinted, tkDead, tkUnstaged, tkBy, tkReq, tkFlight, tkmay>>

-----------------------------------------------------------------------------
(***************************************************************************)
(* Re-staging: restageCreateSecrets after resume, restart, restore,        *)
(* recovery and a named save.                                              *)
(***************************************************************************)

\* The operation's last critical section: running, the row saved with the hash
\* as it is, and a guest whose file is `file`.
GuestBack(l, from, file) ==
    /\ tkLease[l].st \in from
    /\ tkCall[l] = NoStage
    /\ tkLease' = [tkLease EXCEPT ![l].st = "running"]
    /\ tkRow' = [tkRow EXCEPT ![l] = tkLease[l].hash]
    /\ tkGuest' = [tkGuest EXCEPT ![l] = file]
    /\ tkCall' = [tkCall EXCEPT ![l] = [NoStage EXCEPT !.pc = "look"]]
    /\ UNCHANGED <<tkMem, tkMinted, tkDead, tkUnstaged, tkBy, tkReq, tkFlight, tkmay>>

\* The memory comes back with the snapshot, the tmpfs with it or not.
TokenResume(l) == \E file \in {0, tkGuest[l]} : GuestBack(l, {"suspended"}, file)

\* A cold restart starts an empty guest, from any live state.
TokenRestart(l) == TkMay("restart") /\ GuestBack(l, {"running", "suspended"}, 0)

\* A restore or a recovery runs on a checkpoint's memory: any token this lease
\* had when one was taken.
TokenRestore(l) ==
    /\ TkMay("restore")
    /\ \E file \in {0} \cup {t \in DOMAIN tkMinted : tkMinted[t] = l} :
        GuestBack(l, {"running", "suspended", "lost"}, file)

\* A named save empties /run/secrets before the snapshot, and its deferred
\* re-stage follows.
TokenSave(l) ==
    /\ TkMay("save")
    /\ tkLease[l].st = "running"
    /\ tkCall[l] = NoStage
    /\ tkGuest' = [tkGuest EXCEPT ![l] = 0]
    /\ tkCall' = [tkCall EXCEPT ![l] = [NoStage EXCEPT !.pc = "look"]]
    /\ UNCHANGED <<tkLease, tkRow, tkMem, tkMinted, tkDead, tkUnstaged, tkBy, tkReq, tkFlight, tkmay>>

\* selfTokenFiles, first critical section: nothing for a released lease.
StageLooks(l) ==
    /\ tkCall[l].pc = "look"
    /\ tkCall' = [tkCall EXCEPT ![l] =
         IF tkLease[l].st \in {"releasing", "gone"} THEN NoStage
         ELSE [pc |-> "find", hash |-> tkLease[l].hash, token |-> 0]]
    /\ UNCHANGED <<tkLease, tkRow, tkMem, tkGuest, tkMinted, tkDead, tkUnstaged, tkBy, tkReq, tkFlight, tkmay>>

\* The token that still matches the hash read: in memory, else in the guest.
TokenFound(l) ==
    {t \in {tkMem[l], tkGuest[l]} : t # 0 /\ t = tkCall[l].hash}

StageKeeps(l) ==
    /\ tkCall[l].pc = "find"
    /\ \E t \in TokenFound(l) :
        /\ tkMem' = [tkMem EXCEPT ![l] = t]
        /\ tkCall' = [tkCall EXCEPT ![l] = [@ EXCEPT !.pc = "stage", !.token = t]]
    /\ UNCHANGED <<tkLease, tkRow, tkGuest, tkMinted, tkDead, tkUnstaged, tkBy, tkReq, tkFlight, tkmay>>

\* Mutant: the new hash is not written to the lease's row.
MintRowUnsaved(l, token) == tkRow[l]

\* saveLeaseLocked after the mint; best effort.
MintRow(l, token) == token

\* Neither is there: mint, set the hash and save it, unless released meanwhile.
StageMints(l) ==
    /\ tkCall[l].pc = "find"
    /\ TokenFound(l) = {}
    /\ \/ /\ tkLease[l].st \in {"releasing", "gone"}
          /\ tkCall' = [tkCall EXCEPT ![l] = NoStage]
          /\ UNCHANGED <<tkLease, tkRow, tkMem, tkMinted>>
       \/ /\ tkLease[l].st \notin {"releasing", "gone"}
          /\ \E token \in 1 .. TkTokens :
               /\ MintFor(l, token)
               /\ tkLease' = [tkLease EXCEPT ![l].hash = token]
               /\ tkRow' = [tkRow EXCEPT ![l] = MintRow(l, token)]
               /\ tkMem' = [tkMem EXCEPT ![l] = token]
               /\ tkCall' = [tkCall EXCEPT ![l] = [@ EXCEPT !.pc = "stage", !.token = token]]
    /\ UNCHANGED <<tkGuest, tkDead, tkUnstaged, tkBy, tkReq, tkFlight, tkmay>>

\* Mutant: a file that is already there is left as it is.
StagedFileKept(l) == IF tkGuest[l] # 0 THEN tkGuest[l] ELSE tkCall[l].token

\* stageSecrets: mount, then write every file.
StagedFile(l) == tkCall[l].token

StageWrites(l) ==
    /\ tkCall[l].pc = "stage"
    /\ tkGuest' = [tkGuest EXCEPT ![l] = StagedFile(l)]
    /\ tkCall' = [tkCall EXCEPT ![l] =
         IF tkLease[l].st = "creating" THEN [tkCall[l] EXCEPT !.pc = "staged"] ELSE NoStage]
    /\ tkUnstaged' = tkUnstaged \ {l}
    /\ UNCHANGED <<tkLease, tkRow, tkMem, tkMinted, tkDead, tkBy, tkReq, tkFlight, tkmay>>

\* A re-stage that fails is logged, and the lease runs on.
StageFails(l) ==
    /\ TkMay("fail")
    /\ tkCall[l].pc = "stage"
    /\ tkLease[l].st # "creating"
    /\ tkCall' = [tkCall EXCEPT ![l] = NoStage]
    /\ tkUnstaged' = tkUnstaged \cup {l}
    /\ UNCHANGED <<tkLease, tkRow, tkMem, tkGuest, tkMinted, tkDead, tkBy, tkReq, tkFlight, tkmay>>

-----------------------------------------------------------------------------
(***************************************************************************)
(* Pause, loss, release and restart.                                       *)
(***************************************************************************)

TokenSuspend(l) ==
    /\ tkLease[l].st = "running"
    /\ tkCall[l] = NoStage
    /\ tkLease' = [tkLease EXCEPT ![l].st = "suspended"]
    /\ tkRow' = [tkRow EXCEPT ![l] = tkLease[l].hash]
    /\ UNCHANGED <<tkMem, tkGuest, tkCall, tkMinted, tkDead, tkUnstaged, tkBy, tkReq, tkFlight, tkmay>>

TokensOf(l) == {t \in DOMAIN tkMinted : tkMinted[t] = l}

\* Mutant: a lost lease keeps the hash of its token.
LostHashKept(l) == tkLease[l].hash

\* setState("lost"): the token is revoked at once.
LostHash(l) == 0

\* A recovery or an undrain that gives up marks the lease and saves its row; a
\* lease with an operation in flight is left alone.
TokenLost(l) ==
    /\ TkMay("lost")
    /\ tkCall[l] = NoStage
    /\ tkLease[l].st \in {"running", "suspended"}
    /\ tkLease' = [tkLease EXCEPT ![l] = [st |-> "lost", hash |-> LostHash(l)]]
    /\ tkRow' = [tkRow EXCEPT ![l] = LostHash(l)]
    /\ tkDead' = tkDead \cup TokensOf(l)
    /\ UNCHANGED <<tkMem, tkGuest, tkCall, tkMinted, tkUnstaged, tkBy, tkReq, tkFlight, tkmay>>

\* releaseBecauseIf: the mark drops the hash under the lock ...
TokenReleased(l) ==
    /\ l \in UpLeases
    /\ tkLease' = [tkLease EXCEPT ![l] = [st |-> "releasing", hash |-> 0]]
    /\ tkMem' = [tkMem EXCEPT ![l] = 0]
    /\ tkDead' = tkDead \cup TokensOf(l)
    /\ UNCHANGED <<tkRow, tkGuest, tkCall, tkMinted, tkUnstaged, tkReq, tkFlight, tkmay>>

TokenRelease(l) == TkMay("release") /\ TokenReleased(l) /\ UNCHANGED tkBy

\* ... and the sandbox, the lease and its row go after it.
TokenReleaseEnds(l) ==
    /\ tkLease[l].st = "releasing"
    /\ tkLease' = [tkLease EXCEPT ![l].st = "gone"]
    /\ tkRow' = [tkRow EXCEPT ![l] = -1]
    /\ tkGuest' = [tkGuest EXCEPT ![l] = 0]
    /\ UNCHANGED <<tkMem, tkCall, tkMinted, tkDead, tkUnstaged, tkBy, tkReq, tkFlight, tkmay>>

\* The backend restarts: hashes come from the rows, memory is empty, calls and
\* requests are cut.  A create that had no row leaves nothing.
TokenBackendRestart ==
    /\ TkMay("backend")
    /\ \A l \in TkLeases : tkLease[l].st = "releasing" => TkMay("cutoff")
    /\ tkLease' = [l \in TkLeases |->
         IF tkRow[l] = -1 THEN [st |-> "gone", hash |-> 0]
         ELSE [st |-> IF tkLease[l].st = "releasing" THEN "running" ELSE tkLease[l].st,
               hash |-> tkRow[l]]]
    /\ tkMem' = [l \in TkLeases |-> 0]
    /\ tkGuest' = [l \in TkLeases |-> IF tkRow[l] = -1 THEN 0 ELSE tkGuest[l]]
    /\ tkCall' = [l \in TkLeases |-> NoStage]
    /\ tkReq' = [r \in TkRequests |-> NoLlm]
    /\ tkFlight' = 0
    /\ tkmay' = tkmay \ {"backend"}
    /\ tkUnstaged' = tkUnstaged \cup {l \in TkLeases : tkCall[l] # NoStage}
    /\ UNCHANGED <<tkRow, tkMinted, tkDead, tkBy>>

-----------------------------------------------------------------------------
(***************************************************************************)
(* What a token opens: its own lease's release and keepalive, and, with    *)
(* self_token_llm, the gateway under its own lease's path.                 *)
(***************************************************************************)

\* leaseBySelfToken.
LeaseBySelfToken(token) ==
    {l \in UpLeases : tkLease[l].hash # 0 /\ tkLease[l].hash = token}

\* selfTokenPathID, then the comparison with the token's lease.
TokenScope(verb, path, l) == verb \in {"release", "keepalive"} /\ path = l

\* A request with a bearer self token: refused, out of scope, a keepalive (no
\* token state), or the release of the lease in the path.
TokenRequest ==
    /\ TkMay("self")
    /\ \E l \in TkLeases, verb \in {"release", "keepalive", "exec"}, path \in TkLeases :
        /\ tkGuest[l] # 0
        /\ \E own \in LeaseBySelfToken(tkGuest[l]) : TokenScope(verb, path, own)
        /\ verb = "release"
        /\ TokenReleased(path)
        /\ tkBy' = [pc |-> "asked", lease |-> path, token |-> tkGuest[l]]

\* Mutant: any live self token opens the gateway, whatever lease the path names.
LlmTokenAny(l, token) == LeaseBySelfToken(token) # {}

\* llmSelfTokenOK: compared with the hash of the lease in the path alone.
LlmTokenOK(l, token) == l \in LeaseBySelfToken(token)

\* ServeHTTP: unknown lease 404, no key and no own token 401, else onwards.
LlmBegin(r) ==
    /\ TkMay("llm")
    /\ tkReq[r] = NoLlm
    /\ \E l \in UpLeases, g \in TkLeases :
        /\ tkGuest[g] # 0
        /\ LlmTokenOK(l, tkGuest[g])
        /\ tkReq' = [tkReq EXCEPT ![r] = [pc |-> "authed", lease |-> l, token |-> tkGuest[g]]]
    /\ UNCHANGED <<tkLease, tkRow, tkMem, tkGuest, tkCall, tkMinted, tkDead, tkUnstaged, tkBy, tkFlight, tkmay>>

\* A suspended lease is resumed before the slot is taken; the answer of a
\* resume that fails ends the request.
LlmResumes(r) ==
    /\ tkReq[r].pc = "authed"
    /\ LET l == tkReq[r].lease
       IN \/ /\ tkLease[l].st = "suspended"
             /\ tkCall[l] = NoStage
             /\ \E file \in {0, tkGuest[l]} :
                  /\ tkGuest' = [tkGuest EXCEPT ![l] = file]
                  /\ tkLease' = [tkLease EXCEPT ![l].st = "running"]
                  /\ tkRow' = [tkRow EXCEPT ![l] = tkLease[l].hash]
                  /\ tkCall' = [tkCall EXCEPT ![l] = [NoStage EXCEPT !.pc = "look"]]
             /\ tkReq' = [tkReq EXCEPT ![r].pc = "up"]
          \/ /\ tkLease[l].st = "suspended"
             /\ tkReq' = [tkReq EXCEPT ![r] = NoLlm]
             /\ UNCHANGED <<tkLease, tkRow, tkGuest, tkCall>>
          \/ /\ tkLease[l].st # "suspended"
             /\ tkReq' = [tkReq EXCEPT ![r].pc = "up"]
             /\ UNCHANGED <<tkLease, tkRow, tkGuest, tkCall>>
    /\ UNCHANGED <<tkMem, tkMinted, tkDead, tkUnstaged, tkBy, tkFlight, tkmay>>

\* Mutant: the cap is compared after the count was raised past it.
LlmFullLate == tkFlight > LlmMax

LlmFull == tkFlight >= LlmMax

\* The slot: 429 when the owner has its cap in flight.
LlmAdmits(r) ==
    /\ tkReq[r].pc = "up"
    /\ \/ /\ LlmFull
          /\ tkReq' = [tkReq EXCEPT ![r] = NoLlm]
          /\ UNCHANGED tkFlight
       \/ /\ ~LlmFull
          /\ tkReq' = [tkReq EXCEPT ![r].pc = "sent"]
          /\ tkFlight' = tkFlight + 1
    /\ UNCHANGED <<tkLease, tkRow, tkMem, tkGuest, tkCall, tkMinted, tkDead, tkUnstaged, tkBy, tkmay>>

\* Provider, body, upstream and relay: every return runs the deferred count.
LlmEnds(r) ==
    /\ tkReq[r].pc = "sent"
    /\ tkReq' = [tkReq EXCEPT ![r] = NoLlm]
    /\ tkFlight' = IF tkFlight <= 1 THEN 0 ELSE tkFlight - 1
    /\ UNCHANGED <<tkLease, tkRow, tkMem, tkGuest, tkCall, tkMinted, tkDead, tkUnstaged, tkBy, tkmay>>

TKNext ==
    \/ \E l \in TkLeases :
        \/ TokenCreate(l) \/ TokenClone(l) \/ CreateRegisters(l) \/ CreateUnstaged(l)
        \/ TokenResume(l) \/ TokenRestart(l) \/ TokenRestore(l) \/ TokenSave(l)
        \/ StageLooks(l) \/ StageKeeps(l) \/ StageMints(l) \/ StageWrites(l) \/ StageFails(l)
        \/ TokenSuspend(l) \/ TokenLost(l) \/ TokenRelease(l) \/ TokenReleaseEnds(l)
    \/ TokenBackendRestart
    \/ TokenRequest
    \/ \E r \in TkRequests : LlmBegin(r) \/ LlmResumes(r) \/ LlmAdmits(r) \/ LlmEnds(r)

TKSpec == TKInit /\ [][TKNext]_tkvars

-----------------------------------------------------------------------------
(***************************************************************************)
(* Properties.                                                             *)
(***************************************************************************)

\* A running lease whose last staging went through has a token in its guest that
\* authenticates it, whatever resumes, restarts, restores, saves, failed stagings
\* and backend restarts came before ("so a guest that read its token once keeps a
\* working one", selfTokenFiles).
GuestTokenWorks ==
    \A l \in TkLeases :
        tkLease[l].st = "running" /\ tkCall[l] = NoStage /\ l \notin tkUnstaged
            => tkGuest[l] # 0 /\ tkLease[l].hash = tkGuest[l]

\* A token opens only the lease it was minted for: a clone's memory holds its
\* source's token, and once the clone is registered no guest holds another
\* lease's.
TokenNamesItsLease ==
    /\ \A l \in UpLeases :
        /\ tkGuest[l] # 0 => tkMinted[tkGuest[l]] = l
        /\ tkLease[l].hash # 0 => tkMinted[tkLease[l].hash] = l

\* A token of a lease that was lost or released never authenticates again, not
\* even after the backend read its rows back.
RevokedStaysDead ==
    \A t \in tkDead : \A l \in UpLeases : tkLease[l].hash # t

\* The count of LLM requests in flight is the number being served, and within
\* the cap: every path out of ServeHTTP after the slot gives it back.
LlmFlightExact ==
    /\ tkFlight = Cardinality({r \in TkRequests : tkReq[r].pc = "sent"})
    /\ tkFlight <= LlmMax

\* A token opens its own lease and no other: an LLM request served under a
\* lease's path, and a release asked for by a guest, presented a token minted for
\* that very lease.
TokenOpensItsOwn ==
    /\ \A r \in TkRequests :
        tkReq[r].pc # "none" => tkMinted[tkReq[r].token] = tkReq[r].lease
    /\ tkBy # NoLlm => tkMinted[tkBy.token] = tkBy.lease

\* A self token opens its own lease, for as long as that lease lives, and the
\* LLM slots its use takes are all given back.
TokensHold ==
  /\ GuestTokenWorks
  /\ TokenNamesItsLease
  /\ RevokedStaysDead
  /\ LlmFlightExact
  /\ TokenOpensItsOwn
=============================================================================
