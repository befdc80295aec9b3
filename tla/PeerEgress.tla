----------------------------- MODULE PeerEgress -----------------------------
(***************************************************************************)
(* The network a running lease has (api/service.go, api/egress_ceiling.go): *)
(* the egress computed from its policy, its allowlist, the owner's ceiling *)
(* and the peers that expose ports; the memo of what was last applied; the *)
(* serialized background refresh that re-applies what changed; and the     *)
(* policy change, which applies without the refresh's lock.                *)
(***************************************************************************)
EXTENDS Integers, FiniteSets, Sequences, SequencesExt

CONSTANTS
    PeBound,       \* how many events there are
    PeScenarios    \* what may happen: one set of names per behaviour

VARIABLES
    peLease,    \* the lease in focus: store state, sandbox, policy, allowlist
    pePeer,     \* the leases that expose ports: owner, state, host address
    peCeiling,  \* the owner's egress ceiling, or NoCeiling
    peNode,     \* the egress the node enforces for the lease's sandbox
    peMemo,     \* appliedEgress: what spoond believes it enforces
    peInFlight, \* appliedInFlight: the lease is mid-create
    peRefresh,  \* the refresh run: step and the updates it computed
    peQueued,   \* a refresh is scheduled and waits for refreshMu
    peSet,      \* the policy change under way
    peStart,    \* the start under way, with the egress it computed
    peLag,      \* addresses of peers paused since the last refresh read the store
    peMissed,   \* an UpdateEgress failed and no refresh took the lease up since
    pemay, peLeft

pevars == <<peLease, pePeer, peCeiling, peNode, peMemo, peInFlight, peRefresh, peQueued,
            peSet, peStart, peLag, peMissed, pemay, peLeft>>

-----------------------------------------------------------------------------
(***************************************************************************)
(* Allowlist entries and ceilings.  An address block is its prefix, a      *)
(* sequence of bits of length at most AddrBits; a domain is its labels     *)
(* (numbers from 2 on) from the root down; a wildcard stands for every     *)
(* name below its labels.                                                  *)
(***************************************************************************)

AddrBits == 2
Org == 2

Addr(bits) == [kind |-> "addr", path |-> bits]
Domain(labels) == [kind |-> "domain", path |-> labels]
Wildcard(labels) == [kind |-> "wildcard", path |-> labels]
Word(w) == [kind |-> w, path |-> <<>>]

NoCeiling == {Word("none")}

\* Mutant: the prefix lengths are compared the wrong way round.
CoversBackwards(c, e) ==
    \/ c.kind = "addr" /\ e.kind = "addr" /\ IsPrefix(e.path, c.path)
    \/ c = e /\ e.kind = "domain"
    \/ c.kind = "wildcard" /\ e.kind = "domain" /\ IsStrictPrefix(c.path, e.path)

\* entryWithinCeiling, for one entry of the ceiling: an address or a block lies
\* in a block no narrower than itself, a domain is listed or is below a wildcard.
Covers(c, e) ==
    \/ c.kind = "addr" /\ e.kind = "addr" /\ IsPrefix(c.path, e.path)
    \/ c = e /\ e.kind = "domain"
    \/ c.kind = "wildcard" /\ e.kind = "domain" /\ IsStrictPrefix(c.path, e.path)

EntryWithinCeiling(e, ceiling) == \E c \in ceiling : Covers(c, e)

Words(ceiling) == {c.kind : c \in ceiling}

\* A peer reference names a lease; it is the owner's own when a present lease of
\* the owner has that id or name.
PeerRef(p) == [kind |-> "peer", peer |-> p]

IsOwnPeerReference(e) ==
    \E p \in DOMAIN pePeer :
        e = PeerRef(p) /\ pePeer[p].own /\ pePeer[p].state # "gone"

\* outsideCeilingLocked: what a policy and an allowlist ask beyond the ceiling.
OutsideCeiling(ceiling, policy, allow) ==
    CASE ceiling = NoCeiling \/ policy = "none" -> {}
      [] policy = "internet" -> IF "internet" \in Words(ceiling) THEN {} ELSE {Word(policy)}
      [] policy = "lan" ->
           IF Words(ceiling) \cap {"lan", "internet"} # {} THEN {} ELSE {Word(policy)}
      [] OTHER -> {e \in allow : ~IsOwnPeerReference(e) /\ ~EntryWithinCeiling(e, ceiling)}

-----------------------------------------------------------------------------
(***************************************************************************)
(* The egress of the lease, as the store has it now.                       *)
(***************************************************************************)

NoEgress == [policy |-> "unset", entries |-> {}, peers |-> {}]

\* peerAllowances: every live exposing peer, for a restricted lease only the
\* named ones, and under a ceiling only the owner's own.
PeerAllowances ==
    {pePeer[p].host : p \in
        {q \in DOMAIN pePeer :
            /\ pePeer[q].state = "live"
            /\ peLease.policy = "restricted" =>
                 /\ PeerRef(q) \in peLease.allow
                 /\ peCeiling = NoCeiling \/ pePeer[q].own}}

\* egressForLocked: a restricted lease has its entries less what its owner's
\* ceiling does not cover; the wider policies have no entries; none has nothing.
EgressFor ==
    CASE peLease.policy = "none" -> [policy |-> "none", entries |-> {}, peers |-> {}]
      [] peLease.policy \in {"lan", "internet"} ->
           [policy |-> peLease.policy, entries |-> {}, peers |-> PeerAllowances]
      [] OTHER ->
           [policy |-> "restricted",
            entries |-> {e \in peLease.allow :
                           /\ e.kind # "peer"
                           /\ peCeiling = NoCeiling \/ EntryWithinCeiling(e, peCeiling)},
            peers |-> PeerAllowances]

PeMay(x) == x \in pemay
PePresent == peLease.state \in {"live", "suspended"}
RefreshIdle == [pc |-> "idle", eg |-> NoEgress, sb |-> 0]

PEInit ==
    /\ pemay \in PeScenarios
    /\ peLeft = PeBound
    /\ peLease = [state |-> "absent", sb |-> 0, policy |-> "restricted",
                  allow |-> {PeerRef("b"), PeerRef("c"), Addr(<<0, 1>>), Domain(<<Org, 3>>)}]
    /\ pePeer = [p \in {"b", "c"} |-> [own |-> p = "b", state |-> "gone", host |-> 0]]
    /\ peCeiling = NoCeiling
    /\ peNode = NoEgress /\ peMemo = NoEgress /\ peInFlight = FALSE
    /\ peRefresh = RefreshIdle /\ peQueued = FALSE
    /\ peSet = [pc |-> "idle", eg |-> NoEgress, sb |-> 0]
    /\ peStart = [pc |-> "idle", eg |-> NoEgress]
    /\ peLag = {} /\ peMissed = FALSE

-----------------------------------------------------------------------------
(***************************************************************************)
(* The lease.                                                              *)
(***************************************************************************)

\* No other event falls between the egress a start computes and its entry in the
\* store, unless the scenario says so: nothing re-applies what was missed there.
StartUndisturbed == peStart.pc = "idle" \/ PeMay("meanwhile")

\* Grant, up to the sandbox: the memo's hold, the egress computed under the store
\* lock, the sandbox created with it.
LeaseStart ==
    /\ peStart.pc = "idle" /\ peLeft > 0
    /\ peLease.state = "absent" \/ (peLease.state = "suspended" /\ peSet.pc = "idle")
    /\ peStart' = [pc |-> "started", eg |-> EgressFor]
    /\ peInFlight' = (peLease.state = "absent")
    /\ peLeft' = peLeft - 1
    /\ UNCHANGED <<peLease, pePeer, peCeiling, peNode, peMemo, peRefresh, peQueued, peSet,
                   peLag, peMissed, pemay>>

\* createSandbox returns: the memo is recorded and the lease is live with its new
\* sandbox.  It exposes no port, so no refresh is scheduled.
LeaseEnters ==
    /\ peStart.pc = "started"
    /\ peMemo' = peStart.eg /\ peNode' = peStart.eg
    /\ peLease' = [peLease EXCEPT !.state = "live", !.sb = @ + 1]
    /\ peStart' = [pc |-> "idle", eg |-> NoEgress]
    /\ peInFlight' = FALSE
    /\ UNCHANGED <<pePeer, peCeiling, peRefresh, peQueued, peSet, peLag, peMissed, pemay,
                   peLeft>>

\* Suspend: the sandbox goes; the memo stays until a refresh prunes it.
LeaseSuspends ==
    /\ PeMay("suspend") /\ peLease.state = "live" /\ peLeft > 0
    /\ peSet.pc = "idle"
    /\ peLease' = [peLease EXCEPT !.state = "suspended"]
    /\ peNode' = NoEgress
    /\ peLeft' = peLeft - 1
    /\ UNCHANGED <<pePeer, peCeiling, peMemo, peInFlight, peRefresh, peQueued, peSet, peStart,
                   peLag, peMissed, pemay>>

\* forgetAppliedEgress.
ForgetApplied(memo) == NoEgress

\* releaseBecauseIf, of the lease: out of the store, its memo forgotten.
LeaseReleases ==
    /\ PeMay("release") /\ PePresent /\ peStart.pc = "idle"
    /\ peLease' = [peLease EXCEPT !.state = "released"]
    /\ peNode' = NoEgress
    /\ peMemo' = ForgetApplied(peMemo)
    /\ UNCHANGED <<pePeer, peCeiling, peInFlight, peRefresh, peQueued, peSet, peStart, peLag,
                   peMissed, pemay, peLeft>>

-----------------------------------------------------------------------------
(***************************************************************************)
(* What moves the allowances: peers and the ceiling.                       *)
(***************************************************************************)

FreeHosts == {1, 2} \ {pePeer[p].host : p \in {q \in DOMAIN pePeer : pePeer[q].state = "live"}}

\* A lease that exposes ports goes live (grant, resume, restart, restore), on any
\* free address: a refresh is scheduled.
PeerUp(p) ==
    /\ PeMay("peer") /\ pePeer[p].state # "live" /\ peLeft > 0 /\ StartUndisturbed
    /\ \E h \in FreeHosts :
        pePeer' = [pePeer EXCEPT ![p].state = "live", ![p].host = h]
    /\ peQueued' = TRUE
    /\ peLeft' = peLeft - 1
    /\ UNCHANGED <<peLease, peCeiling, peNode, peMemo, peInFlight, peRefresh, peSet, peStart,
                   peLag, peMissed, pemay>>

\* It is released: a refresh is scheduled.
PeerReleased(p) ==
    /\ PeMay("peer") /\ pePeer[p].state # "gone" /\ peLeft > 0 /\ StartUndisturbed
    /\ pePeer' = [pePeer EXCEPT ![p].state = "gone", ![p].host = 0]
    /\ peQueued' = TRUE
    /\ peLeft' = peLeft - 1
    /\ UNCHANGED <<peLease, peCeiling, peNode, peMemo, peInFlight, peRefresh, peSet, peStart,
                   peLag, peMissed, pemay>>

\* It is paused: no refresh, so the allowance for its address outlives it.
PeerPaused(p) ==
    /\ PeMay("pause") /\ pePeer[p].state = "live" /\ peLeft > 0 /\ StartUndisturbed
    /\ pePeer' = [pePeer EXCEPT ![p].state = "paused", ![p].host = 0]
    /\ peLag' = peLag \cup {pePeer[p].host}
    /\ peLeft' = peLeft - 1
    /\ UNCHANGED <<peLease, peCeiling, peNode, peMemo, peInFlight, peRefresh, peQueued, peSet,
                   peStart, peMissed, pemay>>

\* The ceilings an administrator sets: a block around the lease's entry, a
\* narrower one beside it, a wildcard, the word lan.
Ceilings == {{Addr(<<0>>)}, {Addr(<<0, 0>>), Wildcard(<<Org>>)}, {Word("lan")}, NoCeiling}

\* handleUsersEgressCeiling: the ceiling set, and a refresh scheduled.
SetCeiling(c) ==
    /\ PeMay("ceiling") /\ c # peCeiling /\ peLeft > 0 /\ StartUndisturbed
    /\ peCeiling' = c
    /\ peQueued' = TRUE
    /\ peLeft' = peLeft - 1
    /\ UNCHANGED <<peLease, pePeer, peNode, peMemo, peInFlight, peRefresh, peSet, peStart,
                   peLag, peMissed, pemay>>

-----------------------------------------------------------------------------
(***************************************************************************)
(* The refresh.                                                            *)
(***************************************************************************)

\* runRefreshPeers takes refreshMu and reads the store once: nothing for a lease
\* that is not live or whose policy is none.
RefreshReads ==
    /\ peQueued /\ peRefresh.pc = "idle"
    /\ peQueued' = FALSE
    /\ peRefresh' = IF peLease.state = "live" /\ peLease.policy # "none"
                    THEN [pc |-> "compare", eg |-> EgressFor, sb |-> peLease.sb]
                    ELSE [RefreshIdle EXCEPT !.pc = "prune"]
    /\ peLag' = {} /\ peMissed' = (peMissed /\ peRefresh'.pc = "prune")
    /\ UNCHANGED <<peLease, pePeer, peCeiling, peNode, peMemo, peInFlight, peSet, peStart,
                   pemay, peLeft>>

\* The memo already says so.
RefreshUnchanged ==
    /\ peRefresh.pc = "compare" /\ peMemo = peRefresh.eg
    /\ peRefresh' = [peRefresh EXCEPT !.pc = "prune"]
    /\ UNCHANGED <<peLease, pePeer, peCeiling, peNode, peMemo, peInFlight, peQueued, peSet,
                   peStart, peLag, peMissed, pemay, peLeft>>

\* A policy change between its own UpdateEgress and its memo, and a refresh
\* between the two of its own, do not overlap unless the scenario says so.
SetMidway == peSet.pc \in {"apply", "record"}

\* Mutant: the memo is recorded whether or not the update succeeded.
AfterUpdateAlways(ok) == "record"

\* A failed update leaves the memo as it is, for the next refresh to retry.
AfterUpdate(ok) == IF ok THEN "record" ELSE "prune"

\* UpdateEgress, to the sandbox the refresh read: a sandbox of another incarnation
\* answers with an error.
RefreshApplies ==
    /\ peRefresh.pc = "compare" /\ peMemo # peRefresh.eg
    /\ ~SetMidway \/ PeMay("overlap")
    /\ \E ok \in {peLease.state = "live" /\ peLease.sb = peRefresh.sb}
                 \cup (IF PeMay("fail") THEN {FALSE} ELSE {}) :
        /\ peNode' = IF ok THEN peRefresh.eg ELSE peNode
        /\ peRefresh' = [peRefresh EXCEPT !.pc = AfterUpdate(ok)]
        /\ peMissed' = (peMissed \/ ~ok)
    /\ UNCHANGED <<peLease, pePeer, peCeiling, peMemo, peInFlight, peQueued, peSet, peStart,
                   peLag, pemay, peLeft>>

\* The memo follows, or goes when the lease left in between.
RefreshRecords ==
    /\ peRefresh.pc = "record"
    /\ peMemo' = IF PePresent THEN peRefresh.eg ELSE NoEgress
    /\ peRefresh' = [peRefresh EXCEPT !.pc = "prune"]
    /\ UNCHANGED <<peLease, pePeer, peCeiling, peNode, peInFlight, peQueued, peSet, peStart,
                   peLag, peMissed, pemay, peLeft>>

\* Mutant: the pass over the memos is left out.
PruneNothing(memo) == memo

\* The memos of leases that are neither live nor mid-create are dropped.
PruneApplied(memo) ==
    IF peLease.state # "live" /\ ~peInFlight THEN NoEgress ELSE memo

RefreshPrunes ==
    /\ peRefresh.pc = "prune"
    /\ peMemo' = PruneApplied(peMemo)
    /\ peRefresh' = RefreshIdle
    /\ UNCHANGED <<peLease, pePeer, peCeiling, peNode, peInFlight, peQueued, peSet, peStart,
                   peLag, peMissed, pemay, peLeft>>

-----------------------------------------------------------------------------
(***************************************************************************)
(* The policy change.                                                      *)
(***************************************************************************)

Requests ==
    {<<"restricted", {PeerRef("b"), Addr(<<0, 0>>)}>>, <<"restricted", {Addr(<<0>>)}>>,
     <<"internet", {}>>, <<"lan", {}>>, <<"none", {}>>}

\* A change to none while a refresh holds the egress of before: the refresh would
\* apply it afterwards, and later refreshes pass a lease by whose policy is none.
ClosesUnderRefresh(policy) == policy = "none" /\ peRefresh.pc # "idle"

\* handleNetwork: refused outside the ceiling; setNetwork's first lock stores and
\* saves the policy of a present lease that is not suspended.
SetNetwork(policy, allow) ==
    /\ PeMay("policy") /\ peSet.pc = "idle" /\ peLease.state = "live" /\ peLeft > 0
    /\ OutsideCeiling(peCeiling, policy, allow) = {}
    /\ ClosesUnderRefresh(policy) => PeMay("closing")
    /\ peLease' = [peLease EXCEPT !.policy = policy, !.allow = allow]
    /\ peSet' = [pc |-> "compute", eg |-> NoEgress, sb |-> peLease.sb]
    /\ peLeft' = peLeft - 1
    /\ UNCHANGED <<pePeer, peCeiling, peNode, peMemo, peInFlight, peRefresh, peQueued, peStart,
                   peLag, peMissed, pemay>>

\* The second lock: the egress from the store of now.
SetNetworkComputes ==
    /\ peSet.pc = "compute"
    /\ peRefresh.pc # "record" \/ PeMay("overlap")
    /\ peSet' = [peSet EXCEPT !.pc = "apply", !.eg = EgressFor]
    /\ UNCHANGED <<peLease, pePeer, peCeiling, peNode, peMemo, peInFlight, peRefresh, peQueued,
                   peStart, peLag, peMissed, pemay, peLeft>>

\* UpdateEgress: an error is the handler's answer, with no memo and no refresh.
SetNetworkApplies ==
    /\ peSet.pc = "apply"
    /\ \E ok \in {peLease.state = "live" /\ peLease.sb = peSet.sb}
                 \cup (IF PeMay("fail") THEN {FALSE} ELSE {}) :
        /\ peNode' = IF ok THEN peSet.eg ELSE peNode
        /\ peSet' = [peSet EXCEPT !.pc = IF ok THEN "record" ELSE "idle"]
        /\ peMissed' = (peMissed \/ ~ok)
    /\ UNCHANGED <<peLease, pePeer, peCeiling, peMemo, peInFlight, peRefresh, peQueued, peStart,
                   peLag, pemay, peLeft>>

\* lookupPresent, then the memo without the store lock: a release between the two
\* leaves a memo of a lease that is gone, for the refresh to prune.
SetNetworkRecords ==
    /\ peSet.pc = "record"
    /\ \E seen \in {PePresent, TRUE} :
        peMemo' = IF seen THEN peSet.eg ELSE peMemo
    /\ peSet' = [peSet EXCEPT !.pc = "schedule"]
    /\ UNCHANGED <<peLease, pePeer, peCeiling, peNode, peInFlight, peRefresh, peQueued, peStart,
                   peLag, peMissed, pemay, peLeft>>

\* Mutant: a policy change schedules no refresh.
SetNetworkQueuesNothing == peQueued

\* refreshPeersAsync at the end of setNetwork.
SetNetworkQueues == TRUE

SetNetworkAnswers ==
    /\ peSet.pc = "schedule"
    /\ peQueued' = SetNetworkQueues
    /\ peSet' = [peSet EXCEPT !.pc = "idle", !.eg = NoEgress]
    /\ UNCHANGED <<peLease, pePeer, peCeiling, peNode, peMemo, peInFlight, peRefresh, peStart,
                   peLag, peMissed, pemay, peLeft>>

-----------------------------------------------------------------------------
PeQuiet == peStart.pc = "idle" /\ peSet.pc = "idle" /\ peRefresh.pc = "idle" /\ ~peQueued

PENext ==
    \/ LeaseStart \/ LeaseEnters \/ LeaseSuspends \/ LeaseReleases
    \/ \E p \in DOMAIN pePeer : PeerUp(p) \/ PeerReleased(p) \/ PeerPaused(p)
    \/ \E c \in Ceilings : SetCeiling(c)
    \/ RefreshReads \/ RefreshUnchanged \/ RefreshApplies \/ RefreshRecords \/ RefreshPrunes
    \/ \E r \in Requests : SetNetwork(r[1], r[2])
    \/ SetNetworkComputes \/ SetNetworkApplies \/ SetNetworkRecords \/ SetNetworkAnswers
    \/ PeQuiet /\ UNCHANGED pevars

PESpec == PEInit /\ [][PENext]_pevars

-----------------------------------------------------------------------------
\* Once no start, policy change or refresh is under way, the node enforces for a
\* running lease exactly what its policy, its allowlist, the ceiling and the live
\* peers give, whatever raced, except for the address of a peer paused since the
\* last refresh and after an UpdateEgress that failed (refreshPeers).
EgressCatchesUp ==
    PeQuiet /\ peLease.state = "live" /\ ~peMissed =>
        [peNode EXCEPT !.peers = @ \ peLag] = EgressFor

\* Reach: the addresses and the names (of at most two labels) an entry opens.
AddrReach(e) == {a \in [1..AddrBits -> {0, 1}] : e.kind = "addr" /\ IsPrefix(e.path, a)}
NameReach(e) ==
    {n \in {<<Org>>, <<Org, 3>>, <<Org, 4>>} :
        \/ e.kind = "domain" /\ n = e.path
        \/ e.kind = "wildcard" /\ IsStrictPrefix(e.path, n)}

\* A restricted lease of an owner with a ceiling reaches, through its own entries,
\* only what some entry of the ceiling reaches, and no other owner's peer, as soon
\* as the refresh of a newly set ceiling has run (egressForLocked).
WithinCeiling ==
    PeQuiet /\ peLease.state = "live" /\ ~peMissed /\ peCeiling # NoCeiling
      /\ peNode.policy = "restricted" =>
        /\ \A e \in peNode.entries : \E c \in peCeiling :
             AddrReach(e) \subseteq AddrReach(c) /\ NameReach(e) \subseteq NameReach(c)
        /\ \A p \in DOMAIN pePeer :
             pePeer[p].state = "live" /\ ~pePeer[p].own => pePeer[p].host \notin peNode.peers \ peLag

\* When all is quiet there is no memo of a lease that was released: a memo left
\* behind would answer for the next refresh (forgetAppliedEgress, refreshPeers).
NoMemoOfGone == PeQuiet /\ peLease.state = "released" => peMemo = NoEgress

\* When all is quiet and no UpdateEgress failed, the memo of a running lease says
\* what the node enforces: the refresh skips a lease on its word (refreshPeers).
MemoIsTrue == PeQuiet /\ peLease.state = "live" /\ ~peMissed => peMemo = peNode

\* What the node enforces for a lease is, once nothing is in flight, what its
\* policy, its ceiling and its peers ask for, and the memo says so.
EgressHolds ==
  /\ EgressCatchesUp
  /\ WithinCeiling
  /\ NoMemoOfGone
  /\ MemoIsTrue
=============================================================================
