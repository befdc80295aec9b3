------------------------- MODULE LeaseStateProofs ---------------------------
(***************************************************************************)
(* What a lease carries, proved for every set of leases, requests, tokens, *)
(* names, grantees and children: its self token (LeaseTokens), its name    *)
(* and the people it is shared with (Sharing), and the children a fork     *)
(* makes of it (ForkClone). These are facts that the LeaseState run checks *)
(* on small instances. Each part has a hypothesis on the scenarios, the    *)
(* one the run has: what it leaves out is a race the code leaves open,     *)
(* named where the hypothesis is defined.                                  *)
(***************************************************************************)
EXTENDS LeaseTokens, Sharing, ForkClone, FiniteSetTheorems, TLAPS

-----------------------------------------------------------------------------
(***************************************************************************)
(* The self token opens its own lease for as long as that lease lives. A   *)
(* release that was marked in memory only is undone by a restart, and the  *)
(* row brings the token back with the lease: that is the cutoff the        *)
(* hypothesis NoCutoff leaves out.                                         *)
(***************************************************************************)

TkStates == {"none", "creating", "running", "suspended", "lost", "releasing", "gone"}
StagePcs == {"none", "look", "find", "stage", "staged"}
StageRecords == [pc : StagePcs, hash : Nat, token : Nat]
LlmRecords == [pc : {"none", "authed", "up", "sent", "asked"}, lease : TkLeases \cup {0}, token : Nat]

\* The state has the shape the code gives it.
TKTypeOK ==
    /\ tkLease \in [TkLeases -> [st : TkStates, hash : Nat]]
    /\ tkRow \in [TkLeases -> Int]
    /\ tkMem \in [TkLeases -> Nat]
    /\ tkGuest \in [TkLeases -> Nat]
    /\ tkCall \in [TkLeases -> StageRecords]
    /\ tkMinted \in Seq(TkLeases)
    /\ tkDead \in SUBSET (DOMAIN tkMinted)
    /\ tkUnstaged \in SUBSET TkLeases
    /\ tkBy \in LlmRecords
    /\ tkReq \in [TkRequests -> LlmRecords]
    /\ tkFlight \in Nat
    /\ "cutoff" \notin tkmay

\* t is no token, or one that was minted for l.
Own(t, l) == t = 0 \/ (t \in DOMAIN tkMinted /\ tkMinted[t] = l)

\* Everything that speaks for a lease speaks of its own tokens.  The file in the
\* guest of a clone that is still being created is the one exception.
OwnTokens(l) ==
    /\ Own(tkLease[l].hash, l)
    /\ Own(tkMem[l], l)
    /\ Own(tkCall[l].hash, l)
    /\ Own(tkCall[l].token, l)
    /\ tkLease[l].st # "creating" => Own(tkGuest[l], l)

\* The row of a lease that is up has the hash the lease has in memory.
RowFollows(l) ==
    /\ tkLease[l].st \in {"none", "creating", "gone"} => tkRow[l] = -1
    /\ tkLease[l].st \in {"running", "suspended", "lost"} => tkRow[l] = tkLease[l].hash

\* A staging in flight works on the hash the lease has, unless the lease was
\* released under it.
StagingFollows(l) ==
    /\ tkCall[l].pc \in {"look", "find"} => tkLease[l].st \in {"running", "releasing", "gone"}
    /\ tkCall[l].pc = "stage" => tkLease[l].st \in {"creating", "running", "releasing", "gone"}
    /\ tkCall[l].pc = "staged" => tkLease[l].st = "creating" /\ tkGuest[l] = tkLease[l].hash
    /\ tkLease[l].st = "creating" =>
         tkCall[l].pc \in {"stage", "staged"} /\ tkLease[l].hash # 0 /\ tkCall[l].token = tkLease[l].hash
    /\ tkCall[l].pc = "find" /\ tkLease[l].st = "running" => tkCall[l].hash = tkLease[l].hash
    /\ tkCall[l].pc = "stage" /\ tkLease[l].st = "running" =>
         tkLease[l].hash # 0 /\ tkCall[l].token = tkLease[l].hash
    /\ tkCall[l].pc = "none" => tkCall[l] = NoStage

\* The hash of a lease that is up, or about to be, is of no revoked token.
HashAlive(l) ==
    tkLease[l].st \in {"creating", "running", "suspended", "lost"} => tkLease[l].hash \notin tkDead

\* The guest of a running lease, staged and settled, holds the token of the hash.
GuestFollows(l) ==
    tkLease[l].st = "running" /\ tkCall[l] = NoStage /\ l \notin tkUnstaged
        => tkGuest[l] # 0 /\ tkLease[l].hash = tkGuest[l]

LeaseOK(l) ==
    /\ OwnTokens(l)
    /\ RowFollows(l)
    /\ StagingFollows(l)
    /\ HashAlive(l)
    /\ GuestFollows(l)

\* A request, or a release asked for by a guest, carries a token of its lease.
AskOK(q) == q.pc # "none" => q.lease \in TkLeases /\ q.token \in DOMAIN tkMinted /\ tkMinted[q.token] = q.lease

\* The inductive invariant of the token machine.
TInv ==
    /\ TKTypeOK
    /\ \A l \in TkLeases : LeaseOK(l)
    /\ \A r \in TkRequests : AskOK(tkReq[r])
    /\ tkBy = NoLlm \/ tkBy.pc = "asked"
    /\ AskOK(tkBy)
    /\ LlmFlightExact
-----------------------------------------------------------------------------
(***************************************************************************)
(* Minting, and the frame of a step of one lease.                          *)
(***************************************************************************)

\* Tokens that were minted keep their lease.
MintedKept ==
    /\ DOMAIN tkMinted \subseteq DOMAIN tkMinted'
    /\ \A t \in DOMAIN tkMinted : tkMinted'[t] = tkMinted[t]

\* A mint gives a lease a token that no lease had before.
LEMMA MintIsNew ==
    ASSUME TKTypeOK, NEW l \in TkLeases, NEW token, MintFor(l, token)
    PROVE  /\ token \in Nat \ {0}
           /\ tkMinted' \in Seq(TkLeases)
           /\ MintedKept
           /\ token \in DOMAIN tkMinted' \ DOMAIN tkMinted
           /\ tkMinted'[token] = l
<1>   tkMinted \in Seq(TkLeases) /\ token = Len(tkMinted) + 1 /\ tkMinted' = Append(tkMinted, l)
  BY DEF TKTypeOK, MintFor
<1>   /\ Len(tkMinted) \in Nat /\ DOMAIN tkMinted = 1 .. Len(tkMinted)
      /\ Len(tkMinted') = Len(tkMinted) + 1 /\ DOMAIN tkMinted' = 1 .. (Len(tkMinted) + 1)
      /\ tkMinted' \in Seq(TkLeases)
  OBVIOUS
<1>   \A t \in 1 .. Len(tkMinted) : tkMinted'[t] = tkMinted[t]
  OBVIOUS
<1>   tkMinted'[token] = l
  OBVIOUS
<1> QED
  BY DEF MintedKept

\* Zero is no token's number.
LEMMA ZeroIsNoToken ==
    ASSUME TKTypeOK
    PROVE  0 \notin DOMAIN tkMinted /\ 0 \notin tkDead
<1>   DOMAIN tkMinted = 1 .. Len(tkMinted) /\ Len(tkMinted) \in Nat
  BY DEF TKTypeOK
<1> QED
  BY DEF TKTypeOK

\* What a step of lease l leaves alone, and what it may add to the revoked.
LeaseFrame(l) ==
    /\ MintedKept
    /\ tkDead' \subseteq tkDead \cup TokensOf(l)
    /\ \A m \in TkLeases \ {l} :
        /\ tkLease'[m] = tkLease[m]
        /\ tkRow'[m] = tkRow[m]
        /\ tkMem'[m] = tkMem[m]
        /\ tkGuest'[m] = tkGuest[m]
        /\ tkCall'[m] = tkCall[m]
        /\ m \in tkUnstaged => m \in tkUnstaged'

\* A token keeps its lease.
LEMMA OwnKept ==
    ASSUME MintedKept, NEW t, NEW l, Own(t, l)
    PROVE  t = 0 \/ (t \in DOMAIN tkMinted' /\ tkMinted'[t] = l)
  BY DEF MintedKept, Own

\* The record of a lost lease.
LEMMA LostFields == [st |-> "lost", hash |-> 0].st = "lost" /\ [st |-> "lost", hash |-> 0].hash = 0
  OBVIOUS

\* The record of a gone lease.
LEMMA GoneFields == [st |-> "gone", hash |-> 0].st = "gone" /\ [st |-> "gone", hash |-> 0].hash = 0
  OBVIOUS

\* What the record of no staging holds.
LEMMA NoStageIs == NoStage.pc = "none" /\ NoStage.hash = 0 /\ NoStage.token = 0
  BY DEF NoStage

\* A step that mints nothing, and writes what was there or nothing, leaves a
\* lease that is not being created with tokens of its own.
LEMMA OwnAfter ==
    ASSUME NEW l, OwnTokens(l), tkMinted' = tkMinted, tkLease[l].st # "creating",
           tkLease'[l].hash \in {0, tkLease[l].hash}, tkMem'[l] \in {0, tkMem[l]},
           tkCall'[l].hash \in {0, tkCall[l].hash}, tkCall'[l].token \in {0, tkCall[l].token},
           tkGuest'[l] \in {0, tkGuest[l]}
    PROVE  OwnTokens(l)'
<1>1. Own(tkLease[l].hash, l)'
  BY ZenonT(60) DEF OwnTokens, Own
<1>2. Own(tkMem[l], l)'
  BY ZenonT(60) DEF OwnTokens, Own
<1>3. Own(tkCall[l].hash, l)' /\ Own(tkCall[l].token, l)'
  BY ZenonT(60) DEF OwnTokens, Own
<1>4. Own(tkGuest[l], l)'
  BY ZenonT(60) DEF OwnTokens, Own
<1> QED BY <1>1, <1>2, <1>3, <1>4, ZenonT(60) DEF OwnTokens

\* Nothing is asked of the staging of a lease that has none.
LEMMA SettledAfter ==
    ASSUME NEW l, tkCall'[l] = NoStage, tkLease'[l].st # "creating"
    PROVE  StagingFollows(l)'
<1>1. tkCall'[l].pc = "none"
  BY NoStageIs, ZenonT(60)
<1> QED BY <1>1, ZenonT(60) DEF StagingFollows, NoStage

\* A step of lease l keeps what holds of another lease: the tokens it revokes
\* are its own.
LEMMA OtherLeaseKept ==
    ASSUME TKTypeOK, NEW l \in TkLeases, LeaseFrame(l), NEW m \in TkLeases \ {l}, LeaseOK(m)
    PROVE  LeaseOK(m)'
<1>   /\ tkLease'[m] = tkLease[m] /\ tkRow'[m] = tkRow[m] /\ tkMem'[m] = tkMem[m]
      /\ tkGuest'[m] = tkGuest[m] /\ tkCall'[m] = tkCall[m]
      /\ m \in tkUnstaged => m \in tkUnstaged'
  BY DEF LeaseFrame
<1>2. OwnTokens(m)'
  <2>   MintedKept /\ OwnTokens(m)
    BY DEF LeaseFrame, LeaseOK
  <2> QED
    BY OwnKept DEF OwnTokens, Own
<1>3. RowFollows(m)' /\ StagingFollows(m)'
  BY DEF LeaseOK, RowFollows, StagingFollows
<1>   HashAlive(m)'
  <2>   tkLease[m].hash \notin TokensOf(l)
    BY ZeroIsNoToken DEF LeaseOK, OwnTokens, Own, TokensOf
  <2> QED
    BY DEF LeaseOK, HashAlive, LeaseFrame
<1>   GuestFollows(m)'
  BY DEF LeaseOK, GuestFollows
<1> QED
  BY <1>2, <1>3 DEF LeaseOK

\* A request keeps the token of its lease.
LEMMA AskKept ==
    ASSUME MintedKept, NEW q, AskOK(q)
    PROVE  q.pc # "none" => q.lease \in TkLeases /\ q.token \in DOMAIN tkMinted' /\ tkMinted'[q.token] = q.lease
  BY DEF MintedKept, AskOK

\* A step of one lease that leaves the requests alone keeps the invariant if it
\* keeps the types and what holds of that lease.
LEMMA LeaseStep ==
    ASSUME TInv, NEW l \in TkLeases, TKTypeOK', LeaseFrame(l), LeaseOK(l)',
           UNCHANGED <<tkReq, tkBy, tkFlight>>
    PROVE  TInv'
<1>1. \A m \in TkLeases : LeaseOK(m)'
  BY OtherLeaseKept DEF TInv
<1>2. \A r \in TkRequests : AskOK(tkReq[r])'
  BY AskKept DEF TInv, LeaseFrame, AskOK
<1>   AskOK(tkBy)' /\ (tkBy = NoLlm \/ tkBy.pc = "asked")'
  BY AskKept DEF TInv, LeaseFrame, AskOK, NoLlm
<1>   LlmFlightExact'
  BY DEF TInv, LlmFlightExact
<1> QED
  BY <1>1, <1>2 DEF TInv

-----------------------------------------------------------------------------
(***************************************************************************)
(* The steps of create and clone.                                          *)
(***************************************************************************)

\* A create mints, and its lease is known by the new token alone.
LEMMA FirstStageKeeps ==
    ASSUME TInv, NEW l \in TkLeases, NEW carried \in Nat, FirstStage(l, carried)
    PROVE  TInv'
<1>1. PICK token \in 1 .. TkTokens :
        /\ MintFor(l, token)
        /\ tkLease' = [tkLease EXCEPT ![l] = [st |-> "creating", hash |-> token]]
        /\ tkMem' = [tkMem EXCEPT ![l] = token]
        /\ tkCall' = [tkCall EXCEPT ![l] = [pc |-> "stage", hash |-> 0, token |-> token]]
  BY ZenonT(60) DEF FirstStage
<1>   /\ tkLease[l].st = "none"
      /\ tkGuest' = [tkGuest EXCEPT ![l] = carried]
      /\ UNCHANGED <<tkRow, tkDead, tkUnstaged, tkBy, tkReq, tkFlight, tkmay>>
  BY DEF FirstStage
<1>   TKTypeOK
  BY DEF TInv
<1>   /\ token \in Nat \ {0}
      /\ tkMinted' \in Seq(TkLeases)
      /\ MintedKept
      /\ token \in DOMAIN tkMinted' \ DOMAIN tkMinted
      /\ tkMinted'[token] = l
  BY <1>1, MintIsNew
<1>4. TKTypeOK'
  <2>1. tkLease' \in [TkLeases -> [st : TkStates, hash : Nat]]
    BY <1>1 DEF TKTypeOK, TkStates
  <2>   tkMem' \in [TkLeases -> Nat] /\ tkGuest' \in [TkLeases -> Nat]
    BY <1>1, ZenonT(60) DEF TKTypeOK
  <2>   tkCall' \in [TkLeases -> StageRecords]
    BY <1>1 DEF TKTypeOK, StageRecords, StagePcs
  <2> QED
    BY <2>1, ZenonT(60) DEF TKTypeOK, MintedKept
<1>5. LeaseFrame(l)
  BY <1>1 DEF LeaseFrame, TKTypeOK
<1>   /\ tkLease'[l] = [st |-> "creating", hash |-> token]
      /\ tkMem'[l] = token
      /\ tkCall'[l] = [pc |-> "stage", hash |-> 0, token |-> token]
      /\ tkRow'[l] = tkRow[l]
  BY <1>1 DEF TKTypeOK
<1>   LeaseOK(l)'
  <2>1. OwnTokens(l)'
    BY DEF OwnTokens, Own
  <2>2. RowFollows(l)'
    BY DEF TInv, LeaseOK, RowFollows
  <2>3. StagingFollows(l)'
    BY DEF StagingFollows
  <2>   HashAlive(l)'
    BY DEF HashAlive, TKTypeOK
  <2>   GuestFollows(l)'
    BY DEF GuestFollows
  <2> QED
    BY <2>1, <2>2, <2>3 DEF LeaseOK
<1> QED
  BY <1>4, <1>5, LeaseStep

\* A lease is registered with the token that was staged.
LEMMA CreateRegistersKeeps ==
    ASSUME TInv, NEW l \in TkLeases, CreateRegisters(l)
    PROVE  TInv'
<1>   TKTypeOK /\ LeaseOK(l)
  BY DEF TInv
<1>   /\ tkLease[l].st = "creating"
      /\ tkCall[l].pc = "staged"
      /\ tkLease' = [tkLease EXCEPT ![l].st = "running"]
      /\ tkRow' = [tkRow EXCEPT ![l] = tkLease[l].hash]
      /\ tkCall' = [tkCall EXCEPT ![l] = NoStage]
      /\ UNCHANGED <<tkMem, tkGuest, tkMinted, tkDead, tkUnstaged, tkBy, tkReq, tkFlight, tkmay>>
  BY DEF CreateRegisters
<1>2. TKTypeOK'
  <2>1. tkLease' \in [TkLeases -> [st : TkStates, hash : Nat]]
    BY ZenonT(60) DEF TKTypeOK, TkStates
  <2>   tkRow' \in [TkLeases -> Int]
    BY DEF TKTypeOK
  <2>   tkCall' \in [TkLeases -> StageRecords]
    BY DEF TKTypeOK, StageRecords, StagePcs, NoStage
  <2> QED
    BY <2>1, ZenonT(60) DEF TKTypeOK
<1>3. LeaseFrame(l)
  BY DEF LeaseFrame, TKTypeOK, MintedKept
<1>   /\ tkLease'[l].st = "running" /\ tkLease'[l].hash = tkLease[l].hash
      /\ tkRow'[l] = tkLease[l].hash
      /\ tkCall'[l] = NoStage
  BY DEF TKTypeOK
<1>   LeaseOK(l)'
  <2>   tkGuest[l] = tkLease[l].hash /\ tkLease[l].hash # 0
    BY DEF LeaseOK, StagingFollows
  <2>2. OwnTokens(l)'
    BY DEF LeaseOK, OwnTokens, Own, NoStage
  <2>   RowFollows(l)' /\ StagingFollows(l)' /\ GuestFollows(l)'
    BY DEF RowFollows, StagingFollows, GuestFollows, NoStage
  <2>   HashAlive(l)'
    BY DEF LeaseOK, HashAlive
  <2> QED
    BY <2>2 DEF LeaseOK
<1> QED
  BY <1>2, <1>3, LeaseStep

\* A create whose staging failed leaves nothing.
LEMMA CreateUnstagedKeeps ==
    ASSUME TInv, NEW l \in TkLeases, CreateUnstaged(l)
    PROVE  TInv'
<1>   TKTypeOK /\ LeaseOK(l)
  BY DEF TInv
<1>   /\ tkLease[l].st = "creating"
      /\ tkLease' = [tkLease EXCEPT ![l] = [st |-> "gone", hash |-> 0]]
      /\ tkGuest' = [tkGuest EXCEPT ![l] = 0]
      /\ tkCall' = [tkCall EXCEPT ![l] = NoStage]
      /\ UNCHANGED <<tkRow, tkMem, tkMinted, tkDead, tkUnstaged, tkBy, tkReq, tkFlight, tkmay>>
  BY DEF CreateUnstaged
<1>2. TKTypeOK'
  <2>1. tkLease' \in [TkLeases -> [st : TkStates, hash : Nat]]
    BY DEF TKTypeOK, TkStates
  <2>   tkGuest' \in [TkLeases -> Nat]
    BY DEF TKTypeOK
  <2>   tkCall' \in [TkLeases -> StageRecords]
    BY DEF TKTypeOK, StageRecords, StagePcs, NoStage
  <2> QED
    BY <2>1 DEF TKTypeOK
<1>3. LeaseFrame(l)
  BY DEF LeaseFrame, TKTypeOK, MintedKept
<1>   /\ tkLease'[l] = [st |-> "gone", hash |-> 0]
      /\ tkGuest'[l] = 0
      /\ tkCall'[l] = NoStage
  BY ZenonT(60) DEF TKTypeOK
<1>   LeaseOK(l)'
  BY DEF LeaseOK, OwnTokens, Own, NoStage, RowFollows, StagingFollows, HashAlive, GuestFollows
<1> QED
  BY <1>2, <1>3, LeaseStep

-----------------------------------------------------------------------------
(***************************************************************************)
(* The steps that bring a guest back, and its staging.                     *)
(***************************************************************************)

\* A lease that was up runs again, whatever token of its own its guest holds, and
\* its staging begins.
LEMMA GuestBackState ==
    ASSUME TKTypeOK, NEW l \in TkLeases, LeaseOK(l),
           tkLease[l].st \in {"running", "suspended", "lost"},
           NEW file \in Nat, Own(file, l),
           tkLease' = [tkLease EXCEPT ![l].st = "running"],
           tkRow' = [tkRow EXCEPT ![l] = tkLease[l].hash],
           tkGuest' = [tkGuest EXCEPT ![l] = file],
           tkCall' = [tkCall EXCEPT ![l] = [NoStage EXCEPT !.pc = "look"]],
           UNCHANGED <<tkMem, tkMinted, tkDead, tkUnstaged>>
    PROVE  /\ tkLease' \in [TkLeases -> [st : TkStates, hash : Nat]]
           /\ tkRow' \in [TkLeases -> Int]
           /\ tkGuest' \in [TkLeases -> Nat]
           /\ tkCall' \in [TkLeases -> StageRecords]
           /\ LeaseFrame(l)
           /\ LeaseOK(l)'
<1>1. tkLease' \in [TkLeases -> [st : TkStates, hash : Nat]]
  BY ZenonT(60) DEF TKTypeOK, TkStates
<1>2. tkRow' \in [TkLeases -> Int] /\ tkGuest' \in [TkLeases -> Nat]
  BY DEF TKTypeOK
<1>3. [NoStage EXCEPT !.pc = "look"] = [pc |-> "look", hash |-> 0, token |-> 0]
  BY DEF NoStage
<1>4. tkCall' \in [TkLeases -> StageRecords]
  BY <1>3 DEF TKTypeOK, StageRecords, StagePcs
<1>5. LeaseFrame(l)
  BY DEF LeaseFrame, TKTypeOK, MintedKept
<1>   /\ tkLease'[l].st = "running" /\ tkLease'[l].hash = tkLease[l].hash
      /\ tkRow'[l] = tkLease[l].hash
      /\ tkGuest'[l] = file
      /\ tkCall'[l] = [pc |-> "look", hash |-> 0, token |-> 0]
  BY <1>3 DEF TKTypeOK
<1>7. OwnTokens(l)'
  BY DEF LeaseOK, OwnTokens, Own
<1>   RowFollows(l)' /\ StagingFollows(l)' /\ GuestFollows(l)'
  BY DEF RowFollows, StagingFollows, GuestFollows, NoStage
<1>   HashAlive(l)'
  BY DEF LeaseOK, HashAlive
<1> QED
  BY <1>1, <1>2, <1>4, <1>5, <1>7 DEF LeaseOK

\* A resume, a restart, a restore and a recovery.
LEMMA GuestBackKeeps ==
    ASSUME TInv, NEW l \in TkLeases, NEW from \in SUBSET {"running", "suspended", "lost"},
           NEW file \in Nat, Own(file, l), GuestBack(l, from, file)
    PROVE  TInv'
<1>   TKTypeOK /\ LeaseOK(l)
  BY DEF TInv
<1>   /\ tkLease[l].st \in {"running", "suspended", "lost"}
      /\ tkLease' = [tkLease EXCEPT ![l].st = "running"]
      /\ tkRow' = [tkRow EXCEPT ![l] = tkLease[l].hash]
      /\ tkGuest' = [tkGuest EXCEPT ![l] = file]
      /\ tkCall' = [tkCall EXCEPT ![l] = [NoStage EXCEPT !.pc = "look"]]
      /\ UNCHANGED <<tkMem, tkMinted, tkDead, tkUnstaged, tkBy, tkReq, tkFlight, tkmay>>
  BY DEF GuestBack
<1>   /\ tkLease' \in [TkLeases -> [st : TkStates, hash : Nat]]
      /\ tkRow' \in [TkLeases -> Int]
      /\ tkGuest' \in [TkLeases -> Nat]
      /\ tkCall' \in [TkLeases -> StageRecords]
      /\ LeaseFrame(l)
      /\ LeaseOK(l)'
  BY GuestBackState, ZenonT(60)
<1>   TKTypeOK'
  BY DEF TKTypeOK
<1> QED
  BY LeaseStep, ZenonT(60)

\* A step that changes the staging of a lease, and of the rest at most the file
\* in its guest and the mark of a staging that failed.
LEMMA StagingStep ==
    ASSUME TInv, NEW l \in TkLeases,
           NEW call \in StageRecords, tkCall' = [tkCall EXCEPT ![l] = call],
           NEW file \in Nat, tkGuest' = [tkGuest EXCEPT ![l] = file],
           tkUnstaged' \in SUBSET TkLeases,
           \A m \in TkLeases \ {l} : m \in tkUnstaged => m \in tkUnstaged',
           UNCHANGED <<tkLease, tkRow, tkMem, tkMinted, tkDead, tkBy, tkReq, tkFlight, tkmay>>,
           OwnTokens(l)', StagingFollows(l)', GuestFollows(l)'
    PROVE  TInv'
<1>   TKTypeOK /\ LeaseOK(l)
  BY DEF TInv
<1>1. TKTypeOK'
  BY ZenonT(60) DEF TKTypeOK
<1>   LeaseFrame(l)
  BY ZenonT(60) DEF LeaseFrame, TKTypeOK, MintedKept
<1>   LeaseOK(l)'
  BY DEF LeaseOK, RowFollows, HashAlive
<1> QED
  BY <1>1, LeaseStep

\* A named save empties the guest's secrets, and the staging that follows it
\* begins.
LEMMA TokenSaveKeeps ==
    ASSUME TInv, NEW l \in TkLeases, TokenSave(l)
    PROVE  TInv'
<1>   TKTypeOK /\ LeaseOK(l)
  BY DEF TInv
<1>   /\ tkLease[l].st = "running"
      /\ tkGuest' = [tkGuest EXCEPT ![l] = 0]
      /\ tkCall' = [tkCall EXCEPT ![l] = [NoStage EXCEPT !.pc = "look"]]
      /\ UNCHANGED <<tkLease, tkRow, tkMem, tkMinted, tkDead, tkUnstaged, tkBy, tkReq, tkFlight, tkmay>>
  BY DEF TokenSave
<1>   [NoStage EXCEPT !.pc = "look"] = [pc |-> "look", hash |-> 0, token |-> 0]
  BY DEF NoStage
<1>3. [NoStage EXCEPT !.pc = "look"] \in StageRecords
  BY DEF StageRecords, StagePcs
<1>   tkCall'[l] = [pc |-> "look", hash |-> 0, token |-> 0] /\ tkGuest'[l] = 0
  BY DEF TKTypeOK
<1>   OwnTokens(l)'
  BY DEF LeaseOK, OwnTokens, Own
<1>   StagingFollows(l)' /\ GuestFollows(l)'
  BY DEF StagingFollows, GuestFollows, NoStage
<1> QED
  BY <1>3, StagingStep, ZenonT(60) DEF TKTypeOK

\* The staging reads the hash the lease has, or ends for a released lease.
LEMMA StageLooksKeeps ==
    ASSUME TInv, NEW l \in TkLeases, StageLooks(l)
    PROVE  TInv'
<1>   TKTypeOK /\ LeaseOK(l)
  BY DEF TInv
<1> DEFINE Call == IF tkLease[l].st \in {"releasing", "gone"} THEN NoStage
                   ELSE [pc |-> "find", hash |-> tkLease[l].hash, token |-> 0]
<1>   /\ tkCall[l].pc = "look"
      /\ tkCall' = [tkCall EXCEPT ![l] = Call]
      /\ UNCHANGED <<tkLease, tkRow, tkMem, tkGuest, tkMinted, tkDead, tkUnstaged, tkBy, tkReq, tkFlight, tkmay>>
  BY DEF StageLooks
<1>2. Call \in StageRecords
  BY DEF TKTypeOK, StageRecords, StagePcs, NoStage
<1>   tkCall'[l] = Call /\ tkGuest' = [tkGuest EXCEPT ![l] = tkGuest[l]]
  BY DEF TKTypeOK
<1>4. tkLease[l].st \in {"running", "releasing", "gone"}
  BY ZenonT(60) DEF LeaseOK, StagingFollows
<1>5. OwnTokens(l)'
  BY DEF LeaseOK, OwnTokens, Own, NoStage
<1>   StagingFollows(l)' /\ GuestFollows(l)'
  BY <1>4 DEF StagingFollows, GuestFollows, NoStage
<1> HIDE DEF Call
<1>   tkGuest[l] \in Nat /\ tkUnstaged' \in SUBSET TkLeases
  BY ZenonT(60) DEF TKTypeOK
<1> QED
  BY <1>2, <1>5, StagingStep, ZenonT(60)

\* The token that was found is the one of the hash the lease has.
LEMMA StageKeepsKeeps ==
    ASSUME TInv, NEW l \in TkLeases, StageKeeps(l)
    PROVE  TInv'
<1>t. TKTypeOK /\ LeaseOK(l)
  BY DEF TInv
<1>1. PICK t \in TokenFound(l) :
        /\ tkMem' = [tkMem EXCEPT ![l] = t]
        /\ tkCall' = [tkCall EXCEPT ![l] = [@ EXCEPT !.pc = "stage", !.token = t]]
  BY ZenonT(60) DEF StageKeeps
<1>2. /\ tkCall[l].pc = "find"
      /\ UNCHANGED <<tkLease, tkRow, tkGuest, tkMinted, tkDead, tkUnstaged, tkBy, tkReq, tkFlight, tkmay>>
  BY DEF StageKeeps
<1>3. t # 0 /\ t = tkCall[l].hash /\ t \in Nat
  BY <1>t DEF TokenFound, TKTypeOK, StageRecords
<1>4. tkCall'[l] = [pc |-> "stage", hash |-> t, token |-> t] /\ tkMem'[l] = t
  BY <1>1, <1>3, <1>t, ZenonT(60) DEF TKTypeOK, StageRecords
<1>5. TKTypeOK'
  <2>1. tkMem' \in [TkLeases -> Nat]
    BY <1>1, <1>3, <1>t DEF TKTypeOK
  <2>2. [tkCall[l] EXCEPT !.pc = "stage", !.token = t] \in StageRecords
    BY <1>3, <1>t, ZenonT(60) DEF TKTypeOK, StageRecords, StagePcs
  <2>3. tkCall' \in [TkLeases -> StageRecords]
    BY <1>1, <1>t, <2>2 DEF TKTypeOK
  <2> QED
    BY <1>2, <1>t, <2>1, <2>3 DEF TKTypeOK
<1>6. LeaseFrame(l)
  BY <1>1, <1>2, <1>t DEF LeaseFrame, TKTypeOK, MintedKept
<1>7. LeaseOK(l)'
  <2>f. /\ tkCall'[l].pc = "stage" /\ tkCall'[l].hash = tkCall[l].hash /\ tkCall'[l].token = tkCall[l].hash
        /\ tkMem'[l] = tkCall[l].hash /\ tkCall[l].hash # 0
        /\ tkLease'[l] = tkLease[l] /\ tkGuest'[l] = tkGuest[l]
    <3>1. tkCall'[l].pc = "stage" /\ tkCall'[l].hash = t /\ tkCall'[l].token = t
      BY <1>4
    <3> QED BY <1>2, <1>3, <1>4, <3>1, ZenonT(60)
  <2>o. OwnTokens(l) /\ StagingFollows(l) /\ GuestFollows(l)
    BY <1>t, ZenonT(60) DEF LeaseOK
  <2>1. OwnTokens(l)'
    BY <1>2, <2>f, <2>o, ZenonT(60) DEF OwnTokens, Own
  <2>2. StagingFollows(l)' /\ GuestFollows(l)'
    <3>1. tkLease[l].st \in {"running", "releasing", "gone"}
      BY <1>2, <2>o, ZenonT(60) DEF StagingFollows
    <3>2. tkLease[l].st = "running" => tkCall[l].hash = tkLease[l].hash
      BY <1>2, <2>o, ZenonT(60) DEF StagingFollows
    <3>3. StagingFollows(l)'
      BY <2>f, <3>1, <3>2 DEF StagingFollows
    <3>4. GuestFollows(l)'
      <4>1. NoStage.pc = "none"
        BY ZenonT(60) DEF NoStage
      <4>2. tkCall'[l] # NoStage
        BY <2>f, <4>1, ZenonT(60)
      <4> QED BY <4>2, ZenonT(60) DEF GuestFollows, NoStage
    <3> QED BY <3>3, <3>4, ZenonT(60)
  <2>3. RowFollows(l)' /\ HashAlive(l)'
    BY <1>2, <1>t DEF LeaseOK, RowFollows, HashAlive
  <2> QED
    BY <2>1, <2>2, <2>3 DEF LeaseOK
<1> QED
  BY <1>2, <1>5, <1>6, <1>7, LeaseStep

\* A staging that finds no token mints one, and the lease and its row follow it.
LEMMA StageMintsKeeps ==
    ASSUME TInv, NEW l \in TkLeases, StageMints(l)
    PROVE  TInv'
<1>t. TKTypeOK /\ LeaseOK(l)
  BY DEF TInv
<1>u. tkCall[l].pc = "find" /\ UNCHANGED <<tkGuest, tkDead, tkUnstaged, tkBy, tkReq, tkFlight, tkmay>>
  BY ZenonT(60) DEF StageMints
<1>1. CASE /\ tkLease[l].st \in {"releasing", "gone"}
           /\ tkCall' = [tkCall EXCEPT ![l] = NoStage]
           /\ UNCHANGED <<tkLease, tkRow, tkMem, tkMinted>>
  <2>1. NoStage \in StageRecords
    BY DEF NoStage, StageRecords, StagePcs
  <2>2. tkCall'[l] = NoStage /\ tkGuest' = [tkGuest EXCEPT ![l] = tkGuest[l]]
    BY <1>1, <1>u, <1>t, ZenonT(60) DEF TKTypeOK
  <2>3. OwnTokens(l)'
    <3>1. OwnTokens(l) /\ tkLease[l].st # "creating"
      BY <1>1, <1>t, ZenonT(60) DEF LeaseOK
    <3>2. tkCall'[l].hash = 0 /\ tkCall'[l].token = 0
      BY <2>2, NoStageIs, ZenonT(60)
    <3>3. tkLease' = tkLease /\ tkMem' = tkMem /\ tkGuest' = tkGuest /\ tkMinted' = tkMinted
      BY <1>1, <1>u
    <3> QED BY <3>1, <3>2, <3>3, OwnAfter, ZenonT(60)
  <2>4. StagingFollows(l)' /\ GuestFollows(l)'
    <3>1. tkLease'[l].st \in {"releasing", "gone"}
      BY <1>1, ZenonT(60)
    <3> QED BY <2>2, <3>1, SettledAfter, ZenonT(60) DEF GuestFollows
  <2>5. tkGuest[l] \in Nat /\ tkUnstaged' \in SUBSET TkLeases
    BY <1>u, <1>t, ZenonT(60) DEF TKTypeOK
  <2> QED
    BY <1>1, <1>u, <2>1, <2>2, <2>3, <2>4, <2>5, StagingStep, ZenonT(60)
<1>2. CASE \E token \in 1 .. TkTokens :
             /\ tkLease[l].st \notin {"releasing", "gone"}
             /\ MintFor(l, token)
             /\ tkLease' = [tkLease EXCEPT ![l].hash = token]
             /\ tkRow' = [tkRow EXCEPT ![l] = MintRow(l, token)]
             /\ tkMem' = [tkMem EXCEPT ![l] = token]
             /\ tkCall' = [tkCall EXCEPT ![l] = [@ EXCEPT !.pc = "stage", !.token = token]]
  <2>1. PICK token \in 1 .. TkTokens :
             /\ tkLease[l].st \notin {"releasing", "gone"}
             /\ MintFor(l, token)
             /\ tkLease' = [tkLease EXCEPT ![l].hash = token]
             /\ tkRow' = [tkRow EXCEPT ![l] = token]
             /\ tkMem' = [tkMem EXCEPT ![l] = token]
             /\ tkCall' = [tkCall EXCEPT ![l] = [@ EXCEPT !.pc = "stage", !.token = token]]
    BY <1>2, ZenonT(60) DEF MintRow
  <2>2. /\ token \in Nat \ {0}
        /\ tkMinted' \in Seq(TkLeases)
        /\ MintedKept
        /\ token \in DOMAIN tkMinted' \ DOMAIN tkMinted
        /\ tkMinted'[token] = l
    BY <1>t, <2>1, MintIsNew
  <2>3. tkLease[l].st = "running"
    BY <1>t, <1>u, <2>1 DEF LeaseOK, StagingFollows
  <2>4. /\ tkLease'[l].st = "running" /\ tkLease'[l].hash = token
        /\ tkRow'[l] = token /\ tkMem'[l] = token /\ tkGuest'[l] = tkGuest[l]
        /\ tkCall'[l].pc = "stage" /\ tkCall'[l].hash = tkCall[l].hash /\ tkCall'[l].token = token
    <3>1. tkLease'[l] = [tkLease[l] EXCEPT !.hash = token] /\ tkGuest' = tkGuest
      BY <1>t, <1>u, <2>1 DEF TKTypeOK
    <3>2. tkRow'[l] = token /\ tkMem'[l] = token
      BY <1>t, <2>1, ZenonT(60) DEF TKTypeOK
    <3>3. tkCall'[l] = [tkCall[l] EXCEPT !.pc = "stage", !.token = token]
      BY <1>t, <2>1, ZenonT(60) DEF TKTypeOK
    <3>4. tkLease[l] \in [st : TkStates, hash : Nat]
      BY <1>t, ZenonT(60) DEF TKTypeOK
    <3>5. tkCall[l] \in [pc : StagePcs, hash : Nat, token : Nat]
      BY <1>t, ZenonT(60) DEF TKTypeOK, StageRecords
    <3>6. tkLease'[l].st = "running" /\ tkLease'[l].hash = token
      BY <2>3, <3>1, <3>4
    <3>7. tkCall'[l].pc = "stage" /\ tkCall'[l].hash = tkCall[l].hash /\ tkCall'[l].token = token
      BY <3>3, <3>5
    <3> QED BY <3>1, <3>2, <3>6, <3>7, ZenonT(60)
  <2>5. TKTypeOK'
    <3>t. token \in Nat /\ token \in Int
      BY <2>2
    <3>1. tkMem' \in [TkLeases -> Nat] /\ tkRow' \in [TkLeases -> Int]
      BY <1>t, <3>t, <2>1, ZenonT(60) DEF TKTypeOK
    <3>2. tkLease' \in [TkLeases -> [st : TkStates, hash : Nat]]
      BY <1>t, <2>1, <2>2, ZenonT(60) DEF TKTypeOK
    <3>n. tkCall[l] \in StageRecords /\ token \in Nat
      BY <2>2, <1>t DEF TKTypeOK
    <3>3. [tkCall[l] EXCEPT !.pc = "stage", !.token = token] \in StageRecords
      BY <3>n, ZenonT(60) DEF StageRecords, StagePcs
    <3>4. tkCall' \in [TkLeases -> StageRecords]
      BY <1>t, <2>1, <3>3 DEF TKTypeOK
    <3> QED
      BY <1>t, <1>u, <2>2, <3>1, <3>2, <3>4, ZenonT(60) DEF TKTypeOK, MintedKept
  <2>6. LeaseFrame(l)
    BY <1>t, <1>u, <2>1, <2>2 DEF LeaseFrame, TKTypeOK
  <2>7. LeaseOK(l)'
    <3>1. OwnTokens(l)'
      <4>1. OwnTokens(l)
        BY <1>t, ZenonT(60) DEF LeaseOK
      <4>2. tkLease[l].st # "creating"
        BY <2>3
      <4>3. Own(tkCall[l].hash, l)' /\ Own(tkGuest[l], l)'
        <5>1. Own(tkCall[l].hash, l) /\ Own(tkGuest[l], l)
          BY <4>1, <4>2, ZenonT(60) DEF OwnTokens
        <5>2. tkCall[l].hash = 0 \/ (tkCall[l].hash \in DOMAIN tkMinted' /\ tkMinted'[tkCall[l].hash] = l)
          BY <2>2, <5>1, OwnKept, ZenonT(60)
        <5>3. tkGuest[l] = 0 \/ (tkGuest[l] \in DOMAIN tkMinted' /\ tkMinted'[tkGuest[l]] = l)
          BY <2>2, <5>1, OwnKept, ZenonT(60)
        <5> QED BY <2>4, <5>2, <5>3, ZenonT(60) DEF Own
      <4>4. Own(token, l)'
        BY <2>2, ZenonT(60) DEF Own
      <4> QED
        BY <2>4, <4>3, <4>4, ZenonT(60) DEF OwnTokens
    <3>n. tkCall'[l] # NoStage
      BY <2>4, NoStageIs, ZenonT(60)
    <3>2. RowFollows(l)'
      BY <2>4, ZenonT(60) DEF RowFollows
    <3>3. StagingFollows(l)'
      BY <2>2, <2>4, ZenonT(60) DEF StagingFollows
    <3>4. GuestFollows(l)'
      BY <3>n, ZenonT(60) DEF GuestFollows
    <3>5. HashAlive(l)'
      BY <1>t, <1>u, <2>2, <2>4 DEF HashAlive, TKTypeOK
    <3> QED
      BY <3>1, <3>2, <3>3, <3>4, <3>5, ZenonT(60) DEF LeaseOK
  <2> QED
    BY <1>u, <2>5, <2>6, <2>7, LeaseStep
<1> QED
  BY <1>1, <1>2, ZenonT(60) DEF StageMints

\* The file that is written is the token of the hash the lease has.
LEMMA StageWritesKeeps ==
    ASSUME TInv, NEW l \in TkLeases, StageWrites(l)
    PROVE  TInv'
<1>   TKTypeOK /\ LeaseOK(l)
  BY DEF TInv
<1> DEFINE Call == IF tkLease[l].st = "creating" THEN [tkCall[l] EXCEPT !.pc = "staged"] ELSE NoStage
<1>   /\ tkCall[l].pc = "stage"
      /\ tkGuest' = [tkGuest EXCEPT ![l] = tkCall[l].token]
      /\ tkCall' = [tkCall EXCEPT ![l] = Call]
      /\ tkUnstaged' = tkUnstaged \ {l}
      /\ UNCHANGED <<tkLease, tkRow, tkMem, tkMinted, tkDead, tkBy, tkReq, tkFlight, tkmay>>
  BY DEF StageWrites, StagedFile
<1>2. Call \in StageRecords
  BY ZenonT(60) DEF TKTypeOK, StageRecords, StagePcs, NoStage
<1>   tkCall'[l] = Call /\ tkGuest'[l] = tkCall[l].token /\ tkCall[l].token \in Nat
  BY DEF TKTypeOK, StageRecords
<1>4. OwnTokens(l)'
  <2>1. CASE tkLease[l].st = "creating"
    <3>   tkCall'[l].hash = tkCall[l].hash /\ tkCall'[l].token = tkCall[l].token
      BY <2>1 DEF TKTypeOK, StageRecords
    <3> QED
      BY DEF LeaseOK, OwnTokens, Own
  <2>2. CASE tkLease[l].st # "creating"
    BY <2>2 DEF LeaseOK, OwnTokens, Own, NoStage
  <2> QED
    BY <2>1, <2>2
<1>   StagingFollows(l)' /\ GuestFollows(l)'
  <2>1. CASE tkLease[l].st = "creating"
    <3> USE <2>1
    <3>   tkCall'[l].pc = "staged" /\ tkCall'[l].token = tkCall[l].token
      BY DEF TKTypeOK, StageRecords
    <3> QED
      BY DEF LeaseOK, StagingFollows, GuestFollows
  <2>2. CASE tkLease[l].st # "creating"
    <3> USE <2>2
    <3>   tkCall'[l] = NoStage
      OBVIOUS
    <3> QED
      BY DEF LeaseOK, StagingFollows, GuestFollows, NoStage
  <2> QED
    BY <2>1, <2>2
<1> HIDE DEF Call
<1>   tkUnstaged' \in SUBSET TkLeases /\ \A m \in TkLeases \ {l} : m \in tkUnstaged => m \in tkUnstaged'
  BY DEF TKTypeOK
<1> QED
  BY <1>2, <1>4, StagingStep, ZenonT(60)

\* A staging that fails is remembered.
LEMMA StageFailsKeeps ==
    ASSUME TInv, NEW l \in TkLeases, StageFails(l)
    PROVE  TInv'
<1>   TKTypeOK /\ LeaseOK(l)
  BY DEF TInv
<1>   /\ tkLease[l].st # "creating"
      /\ tkCall' = [tkCall EXCEPT ![l] = NoStage]
      /\ tkUnstaged' = tkUnstaged \cup {l}
      /\ UNCHANGED <<tkLease, tkRow, tkMem, tkGuest, tkMinted, tkDead, tkBy, tkReq, tkFlight, tkmay>>
  BY ZenonT(60) DEF StageFails
<1>2. NoStage \in StageRecords
  BY ZenonT(60) DEF NoStage, StageRecords, StagePcs
<1>   tkCall'[l] = NoStage /\ tkGuest' = [tkGuest EXCEPT ![l] = tkGuest[l]]
  BY ZenonT(60) DEF TKTypeOK
<1>4. OwnTokens(l)'
  BY DEF LeaseOK, OwnTokens, Own, NoStage
<1>   StagingFollows(l)' /\ GuestFollows(l)'
  BY DEF StagingFollows, GuestFollows, NoStage
<1>   /\ tkGuest[l] \in Nat /\ tkUnstaged' \in SUBSET TkLeases
      /\ \A m \in TkLeases \ {l} : m \in tkUnstaged => m \in tkUnstaged'
  BY DEF TKTypeOK
<1> QED
  BY <1>2, <1>4, StagingStep, ZenonT(60)

-----------------------------------------------------------------------------
(***************************************************************************)
(* Pause, loss, release and the backend's restart.                         *)
(***************************************************************************)

\* A pause keeps the lease, its token and its row.
LEMMA TokenSuspendKeeps ==
    ASSUME TInv, NEW l \in TkLeases, TokenSuspend(l)
    PROVE  TInv'
<1>   TKTypeOK /\ LeaseOK(l)
  BY DEF TInv
<1>   /\ tkLease[l].st = "running"
      /\ tkCall[l] = NoStage
      /\ tkLease' = [tkLease EXCEPT ![l].st = "suspended"]
      /\ tkRow' = [tkRow EXCEPT ![l] = tkLease[l].hash]
      /\ UNCHANGED <<tkMem, tkGuest, tkCall, tkMinted, tkDead, tkUnstaged, tkBy, tkReq, tkFlight, tkmay>>
  BY DEF TokenSuspend
<1>2. TKTypeOK'
  <2>   tkLease' \in [TkLeases -> [st : TkStates, hash : Nat]]
    BY ZenonT(60) DEF TKTypeOK, TkStates
  <2>   tkRow' \in [TkLeases -> Int]
    BY DEF TKTypeOK
  <2> QED
    BY DEF TKTypeOK
<1>3. LeaseFrame(l)
  BY DEF LeaseFrame, TKTypeOK, MintedKept
<1>   /\ tkLease'[l].st = "suspended" /\ tkLease'[l].hash = tkLease[l].hash
      /\ tkRow'[l] = tkLease[l].hash
  BY DEF TKTypeOK
<1>   LeaseOK(l)'
  <2>1. OwnTokens(l)'
    BY DEF LeaseOK, OwnTokens, Own
  <2>   RowFollows(l)' /\ StagingFollows(l)' /\ GuestFollows(l)'
    BY DEF RowFollows, StagingFollows, GuestFollows, NoStage
  <2>   HashAlive(l)'
    BY DEF LeaseOK, HashAlive
  <2> QED
    BY <2>1 DEF LeaseOK
<1> QED
  BY <1>2, <1>3, LeaseStep

\* A lease that is lost has no hash left, in memory or in its row.
LEMMA TokenLostKeeps ==
    ASSUME TInv, NEW l \in TkLeases, TokenLost(l)
    PROVE  TInv'
<1>   TKTypeOK /\ LeaseOK(l)
  BY DEF TInv
<1>   /\ tkCall[l] = NoStage
      /\ tkLease[l].st \in {"running", "suspended"}
      /\ tkLease' = [tkLease EXCEPT ![l] = [st |-> "lost", hash |-> 0]]
      /\ tkRow' = [tkRow EXCEPT ![l] = 0]
      /\ tkDead' = tkDead \cup TokensOf(l)
      /\ UNCHANGED <<tkMem, tkGuest, tkCall, tkMinted, tkUnstaged, tkBy, tkReq, tkFlight, tkmay>>
  BY ZenonT(60) DEF TokenLost, LostHash
<1>2. TKTypeOK'
  <2>1. tkLease' \in [TkLeases -> [st : TkStates, hash : Nat]]
    BY DEF TKTypeOK, TkStates
  <2>   tkRow' \in [TkLeases -> Int]
    BY DEF TKTypeOK
  <2>   tkDead' \in SUBSET (DOMAIN tkMinted')
    BY DEF TKTypeOK, TokensOf
  <2> QED
    BY <2>1 DEF TKTypeOK
<1>3. LeaseFrame(l)
  BY DEF LeaseFrame, TKTypeOK, MintedKept
<1>   tkLease'[l] = [st |-> "lost", hash |-> 0] /\ tkRow'[l] = 0
  BY DEF TKTypeOK
<1>4. tkLease'[l].st = "lost" /\ tkLease'[l].hash = 0 /\ tkLease[l].st # "creating"
  BY LostFields, ZenonT(60)
<1>   LeaseOK(l)'
  <2>1. OwnTokens(l)'
    <3>1. OwnTokens(l)
      BY ZenonT(60) DEF LeaseOK
    <3> QED BY <1>4, <3>1, OwnAfter, ZenonT(60)
  <2>   RowFollows(l)' /\ StagingFollows(l)' /\ GuestFollows(l)'
    <3>1. RowFollows(l)' /\ GuestFollows(l)'
      BY <1>4, ZenonT(60) DEF RowFollows, GuestFollows
    <3> QED BY <1>4, <3>1, SettledAfter, ZenonT(60)
  <2>   HashAlive(l)'
    <3>1. 0 \notin tkDead'
      BY ZeroIsNoToken DEF TokensOf
    <3> QED BY <1>4, <3>1, ZenonT(60) DEF HashAlive
  <2> QED
    BY <2>1, ZenonT(60) DEF LeaseOK
<1> QED
  BY <1>2, <1>3, LeaseStep, ZenonT(60)

\* The mark of a release drops the hash and revokes the lease's tokens.
LEMMA ReleasedState ==
    ASSUME TKTypeOK, NEW l \in TkLeases, LeaseOK(l), TokenReleased(l)
    PROVE  /\ tkLease' \in [TkLeases -> [st : TkStates, hash : Nat]]
           /\ tkMem' \in [TkLeases -> Nat]
           /\ tkDead' \in SUBSET (DOMAIN tkMinted')
           /\ LeaseFrame(l)
           /\ LeaseOK(l)'
<1>1. /\ tkLease[l].st \in {"running", "suspended", "lost"}
      /\ tkLease' = [tkLease EXCEPT ![l] = [st |-> "releasing", hash |-> 0]]
      /\ tkMem' = [tkMem EXCEPT ![l] = 0]
      /\ tkDead' = tkDead \cup TokensOf(l)
      /\ UNCHANGED <<tkRow, tkGuest, tkCall, tkMinted, tkUnstaged>>
  BY DEF TokenReleased, UpLeases
<1>2. tkLease' \in [TkLeases -> [st : TkStates, hash : Nat]] /\ tkMem' \in [TkLeases -> Nat]
  BY <1>1 DEF TKTypeOK, TkStates
<1>3. tkDead' \in SUBSET (DOMAIN tkMinted')
  BY <1>1 DEF TKTypeOK, TokensOf
<1>4. LeaseFrame(l)
  BY <1>1, ZenonT(60) DEF LeaseFrame, TKTypeOK, MintedKept
<1>5. tkLease'[l] = [st |-> "releasing", hash |-> 0] /\ tkMem'[l] = 0
  BY <1>1 DEF TKTypeOK
<1>5a. /\ tkLease'[l].st = "releasing" /\ tkLease'[l].hash = 0 /\ tkMem'[l] = 0
       /\ tkCall'[l] = tkCall[l] /\ tkGuest'[l] = tkGuest[l] /\ tkMinted' = tkMinted
  BY <1>1, <1>5
<1>5b. OwnTokens(l) /\ StagingFollows(l) /\ tkLease[l].st # "creating"
  BY <1>1, ZenonT(60) DEF LeaseOK
<1>6. OwnTokens(l)'
  BY <1>5a, <1>5b, ZenonT(60) DEF OwnTokens, Own
<1>7. StagingFollows(l)'
  <2>1. tkCall[l].pc # "staged" /\ (tkCall[l].pc = "none" => tkCall[l] = NoStage)
    BY <1>5b, ZenonT(60) DEF StagingFollows
  <2> QED BY <1>5a, <2>1 DEF StagingFollows
<1>8. RowFollows(l)' /\ GuestFollows(l)' /\ HashAlive(l)'
  BY <1>5a DEF RowFollows, GuestFollows, HashAlive
<1> QED
  BY <1>2, <1>3, <1>4, <1>6, <1>7, <1>8 DEF LeaseOK

\* A release by the owner.
LEMMA TokenReleaseKeeps ==
    ASSUME TInv, NEW l \in TkLeases, TokenRelease(l)
    PROVE  TInv'
<1>   TKTypeOK /\ LeaseOK(l)
  BY DEF TInv
<1>   TokenReleased(l) /\ UNCHANGED tkBy
  BY DEF TokenRelease
<1>   /\ tkLease' \in [TkLeases -> [st : TkStates, hash : Nat]]
      /\ tkMem' \in [TkLeases -> Nat]
      /\ tkDead' \in SUBSET (DOMAIN tkMinted')
      /\ LeaseFrame(l)
      /\ LeaseOK(l)'
  BY ReleasedState, ZenonT(60)
<1>   UNCHANGED <<tkRow, tkGuest, tkCall, tkMinted, tkUnstaged, tkReq, tkFlight, tkmay>>
  BY DEF TokenReleased
<1>   TKTypeOK'
  BY DEF TKTypeOK
<1> QED
  BY LeaseStep

\* The rest of a release.
LEMMA TokenReleaseEndsKeeps ==
    ASSUME TInv, NEW l \in TkLeases, TokenReleaseEnds(l)
    PROVE  TInv'
<1>   TKTypeOK /\ LeaseOK(l)
  BY DEF TInv
<1>   /\ tkLease[l].st = "releasing"
      /\ tkLease' = [tkLease EXCEPT ![l].st = "gone"]
      /\ tkRow' = [tkRow EXCEPT ![l] = -1]
      /\ tkGuest' = [tkGuest EXCEPT ![l] = 0]
      /\ UNCHANGED <<tkMem, tkCall, tkMinted, tkDead, tkUnstaged, tkBy, tkReq, tkFlight, tkmay>>
  BY DEF TokenReleaseEnds
<1>2. TKTypeOK'
  <2>   tkLease' \in [TkLeases -> [st : TkStates, hash : Nat]]
    BY ZenonT(60) DEF TKTypeOK, TkStates
  <2>   tkRow' \in [TkLeases -> Int] /\ tkGuest' \in [TkLeases -> Nat]
    BY DEF TKTypeOK
  <2> QED
    BY DEF TKTypeOK
<1>3. LeaseFrame(l)
  BY DEF LeaseFrame, TKTypeOK, MintedKept
<1>   /\ tkLease'[l].st = "gone" /\ tkLease'[l].hash = tkLease[l].hash
      /\ tkRow'[l] = -1 /\ tkGuest'[l] = 0
  BY DEF TKTypeOK
<1>   LeaseOK(l)'
  <2>1. OwnTokens(l)'
    BY DEF LeaseOK, OwnTokens, Own
  <2>   StagingFollows(l)'
    BY DEF LeaseOK, StagingFollows
  <2>   RowFollows(l)' /\ GuestFollows(l)' /\ HashAlive(l)'
    BY ZenonT(60) DEF RowFollows, GuestFollows, HashAlive
  <2> QED
    BY <2>1 DEF LeaseOK
<1> QED
  BY <1>2, <1>3, LeaseStep

\* The backend reads its rows back: a lease that was up has the hash it had, and
\* a staging that was cut off is remembered.
LEMMA TokenBackendRestartKeeps ==
    ASSUME TInv, TokenBackendRestart
    PROVE  TInv'
<1>t. TKTypeOK /\ \A l \in TkLeases : LeaseOK(l)
  BY ZenonT(60) DEF TInv
<1>1. /\ \A l \in TkLeases : tkLease[l].st = "releasing" => TkMay("cutoff")
      /\ tkLease' = [l \in TkLeases |->
           IF tkRow[l] = -1 THEN [st |-> "gone", hash |-> 0]
           ELSE [st |-> IF tkLease[l].st = "releasing" THEN "running" ELSE tkLease[l].st,
                 hash |-> tkRow[l]]]
      /\ tkMem' = [l \in TkLeases |-> 0]
      /\ tkGuest' = [l \in TkLeases |-> IF tkRow[l] = -1 THEN 0 ELSE tkGuest[l]]
      /\ tkCall' = [l \in TkLeases |-> NoStage]
      /\ tkReq' = [r \in TkRequests |-> NoLlm]
      /\ tkFlight' = 0
      /\ tkmay' = tkmay \ {"backend"}
      /\ tkUnstaged' = tkUnstaged \cup {l \in TkLeases : tkCall[l] # NoStage}
      /\ UNCHANGED <<tkRow, tkMinted, tkDead, tkBy>>
  BY ZenonT(60) DEF TokenBackendRestart
<1>2. \A l \in TkLeases : tkLease[l].st # "releasing"
  BY <1>1, <1>t, ZenonT(60) DEF TkMay, TKTypeOK
<1>3. ASSUME NEW l \in TkLeases
      PROVE  \/ /\ tkRow[l] = -1
                /\ tkLease'[l] = [st |-> "gone", hash |-> 0] /\ tkGuest'[l] = 0
             \/ /\ tkLease[l].st \in {"running", "suspended", "lost"}
                /\ tkLease'[l] = [st |-> tkLease[l].st, hash |-> tkLease[l].hash]
                /\ tkRow[l] = tkLease[l].hash /\ tkGuest'[l] = tkGuest[l]
  <2>1. CASE tkRow[l] = -1
    BY <1>1, <2>1, ZenonT(60)
  <2>2. CASE tkRow[l] # -1
    <3>1. tkLease[l].st \in {"running", "suspended", "lost"}
      BY <1>2, <1>t, <2>2, ZenonT(60) DEF LeaseOK, RowFollows, TKTypeOK, TkStates
    <3>2. tkRow[l] = tkLease[l].hash
      BY <1>t, <3>1, ZenonT(60) DEF LeaseOK, RowFollows
    <3> QED
      BY <1>1, <1>2, <2>2, <3>1, <3>2, ZenonT(60)
  <2> QED
    BY <2>1, <2>2, ZenonT(60)
<1>4. TKTypeOK'
  <2>1. ASSUME NEW l \in TkLeases
        PROVE  tkLease'[l] \in [st : TkStates, hash : Nat] /\ tkGuest'[l] \in Nat
    <3>1. tkLease[l] \in [st : TkStates, hash : Nat] /\ tkGuest[l] \in Nat
      BY <1>t, ZenonT(60) DEF TKTypeOK
    <3>2. CASE tkLease'[l] = [st |-> "gone", hash |-> 0] /\ tkGuest'[l] = 0
      <4>1. "gone" \in TkStates /\ 0 \in Nat
        BY DEF TkStates
      <4>2. [st |-> "gone", hash |-> 0] \in [st : TkStates, hash : Nat]
        BY <4>1
      <4> QED BY <3>2, <4>1, <4>2, ZenonT(60)
    <3>3. CASE tkLease'[l] = [st |-> tkLease[l].st, hash |-> tkLease[l].hash] /\ tkGuest'[l] = tkGuest[l]
      BY <3>1, <3>3, ZenonT(60)
    <3> QED
      BY <1>3, <3>2, <3>3, ZenonT(60)
  <2>2. tkLease' \in [TkLeases -> [st : TkStates, hash : Nat]] /\ tkGuest' \in [TkLeases -> Nat]
    BY <1>1, <2>1, ZenonT(60)
  <2>3. tkCall' \in [TkLeases -> StageRecords]
    BY <1>1, ZenonT(60) DEF NoStage, StageRecords, StagePcs
  <2>4. tkReq' \in [TkRequests -> LlmRecords]
    BY <1>1, ZenonT(60) DEF NoLlm, LlmRecords
  <2> QED
    BY <1>1, <1>t, <2>2, <2>3, <2>4, ZenonT(60) DEF TKTypeOK
<1>5. ASSUME NEW l \in TkLeases
      PROVE  LeaseOK(l)'
  <2>1. tkCall'[l] = NoStage /\ tkMem'[l] = 0 /\ tkRow' = tkRow /\ tkDead' = tkDead /\ tkMinted' = tkMinted
    BY <1>1, ZenonT(60)
  <2>2. l \notin tkUnstaged' => l \notin tkUnstaged /\ tkCall[l] = NoStage
    BY <1>1, ZenonT(60)
  <2>3. CASE /\ tkRow[l] = -1
             /\ tkLease'[l] = [st |-> "gone", hash |-> 0] /\ tkGuest'[l] = 0
    <3>1. tkLease'[l].st = "gone" /\ tkLease'[l].hash = 0
      BY <2>3, GoneFields, ZenonT(60)
    <3>2. tkCall'[l].hash = 0 /\ tkCall'[l].token = 0
      BY <2>1, NoStageIs, ZenonT(60)
    <3>3. OwnTokens(l)'
      BY <2>1, <2>3, <3>1, <3>2, ZenonT(60) DEF OwnTokens, Own
    <3>4. RowFollows(l)' /\ HashAlive(l)' /\ GuestFollows(l)'
      BY <2>1, <2>3, <3>1, ZenonT(60) DEF RowFollows, HashAlive, GuestFollows
    <3>5. StagingFollows(l)'
      BY <2>1, <3>1, SettledAfter, ZenonT(60)
    <3> QED BY <3>3, <3>4, <3>5, ZenonT(60) DEF LeaseOK
  <2>4. CASE /\ tkLease[l].st \in {"running", "suspended", "lost"}
             /\ tkLease'[l] = [st |-> tkLease[l].st, hash |-> tkLease[l].hash]
             /\ tkRow[l] = tkLease[l].hash /\ tkGuest'[l] = tkGuest[l]
    <3>1. LeaseOK(l)
      BY <1>t, ZenonT(60)
    <3>a. tkLease'[l].st = tkLease[l].st /\ tkLease'[l].hash = tkLease[l].hash /\ tkLease[l].st # "creating"
      <4>1. tkLease'[l] = [st |-> tkLease[l].st, hash |-> tkLease[l].hash] /\ tkLease[l].st # "creating"
        BY <2>4, ZenonT(60)
      <4> QED BY <4>1
    <3>b. tkCall'[l].hash = 0 /\ tkCall'[l].token = 0
      BY <2>1, NoStageIs, ZenonT(60)
    <3>2. OwnTokens(l)'
      <4>1. OwnTokens(l)
        BY <3>1, ZenonT(60) DEF LeaseOK
      <4> QED BY <2>1, <2>4, <3>a, <3>b, <4>1, OwnAfter, ZenonT(60)
    <3>3. RowFollows(l)' /\ StagingFollows(l)'
      <4>1. StagingFollows(l)'
        BY <2>1, <3>a, SettledAfter, ZenonT(60)
      <4> QED BY <2>1, <2>4, <3>a, <4>1, ZenonT(60) DEF RowFollows
    <3>4. HashAlive(l)'
      BY <2>1, <3>a, <3>1, ZenonT(60) DEF LeaseOK, HashAlive
    <3>5. GuestFollows(l)'
      BY <2>1, <2>2, <2>4, <3>1 DEF LeaseOK, GuestFollows
    <3> QED
      BY <3>2, <3>3, <3>4, <3>5 DEF LeaseOK
  <2> QED
    BY <1>3, <2>3, <2>4, ZenonT(60)
<1>6. \A r \in TkRequests : AskOK(tkReq[r])'
  BY <1>1, ZenonT(60) DEF AskOK, NoLlm
<1>7. AskOK(tkBy)' /\ (tkBy = NoLlm \/ tkBy.pc = "asked")'
  BY <1>1, ZenonT(60) DEF TInv, AskOK, NoLlm
<1>8. LlmFlightExact'
  <2>1. {r \in TkRequests : tkReq'[r].pc = "sent"} = {}
    BY <1>1 DEF NoLlm
  <2>2. Cardinality({r \in TkRequests : tkReq'[r].pc = "sent"}) = 0
    BY <2>1, FS_EmptySet, ZenonT(60)
  <2>3. 0 <= LlmMax
    BY TokenAssumption
  <2> QED
    BY <1>1, <2>2, <2>3, ZenonT(60) DEF LlmFlightExact
<1> QED
  BY <1>4, <1>5, <1>6, <1>7, <1>8, ZenonT(60) DEF TInv

-----------------------------------------------------------------------------
(***************************************************************************)
(* What a token opens.                                                     *)
(***************************************************************************)

\* A release asked for by a guest is of the lease whose token the guest holds.
LEMMA TokenRequestKeeps ==
    ASSUME TInv, TokenRequest
    PROVE  TInv'
<1>   PICK l \in TkLeases, path \in TkLeases :
        /\ tkGuest[l] # 0
        /\ path \in LeaseBySelfToken(tkGuest[l])
        /\ TokenReleased(path)
        /\ tkBy' = [pc |-> "asked", lease |-> path, token |-> tkGuest[l]]
  BY ZenonT(60) DEF TokenRequest, TokenScope
<1>   TKTypeOK /\ LeaseOK(path)
  BY DEF TInv
<1>2. /\ tkLease' \in [TkLeases -> [st : TkStates, hash : Nat]]
      /\ tkMem' \in [TkLeases -> Nat]
      /\ tkDead' \in SUBSET (DOMAIN tkMinted')
      /\ LeaseFrame(path)
      /\ LeaseOK(path)'
  BY ReleasedState, ZenonT(60)
<1>   UNCHANGED <<tkRow, tkGuest, tkCall, tkMinted, tkUnstaged, tkReq, tkFlight, tkmay>>
  BY DEF TokenReleased
<1>4. tkBy' \in LlmRecords
  BY DEF TKTypeOK, LlmRecords
<1>5. TKTypeOK'
  BY <1>2, <1>4, ZenonT(60) DEF TKTypeOK
<1>6. \A m \in TkLeases : LeaseOK(m)'
  BY <1>2, OtherLeaseKept, ZenonT(60) DEF TInv
<1>7. tkGuest[l] \in DOMAIN tkMinted /\ tkMinted[tkGuest[l]] = path
  BY ZenonT(60) DEF LeaseBySelfToken, LeaseOK, OwnTokens, Own
<1>   AskOK(tkBy)' /\ (tkBy = NoLlm \/ tkBy.pc = "asked")'
  BY <1>7, ZenonT(60) DEF AskOK
<1>   (\A r \in TkRequests : AskOK(tkReq[r])') /\ LlmFlightExact'
  BY ZenonT(60) DEF TInv, AskOK, LlmFlightExact
<1> QED
  BY <1>5, <1>6, ZenonT(60) DEF TInv

\* A step of one request that leaves the leases alone.
LEMMA RequestStep ==
    ASSUME TInv, NEW r \in TkRequests, NEW q \in LlmRecords,
           tkReq' = [tkReq EXCEPT ![r] = q], AskOK(q),
           tkFlight' \in Nat, LlmFlightExact',
           UNCHANGED <<tkLease, tkRow, tkMem, tkGuest, tkCall, tkMinted, tkDead, tkUnstaged, tkBy, tkmay>>
    PROVE  TInv'
<1>t. TKTypeOK
  BY ZenonT(60) DEF TInv
<1>1. TKTypeOK'
  BY <1>t DEF TKTypeOK
<1>2. ASSUME NEW l \in TkLeases PROVE LeaseOK(l)'
  <2>   LeaseOK(l)
    BY ZenonT(60) DEF TInv
  <2> QED
    BY ZenonT(60) DEF LeaseOK, OwnTokens, Own, RowFollows, StagingFollows, HashAlive, GuestFollows
<1>3. ASSUME NEW s \in TkRequests PROVE AskOK(tkReq[s])'
  <2>   tkReq'[s] = (IF s = r THEN q ELSE tkReq[s])
    BY <1>t DEF TKTypeOK
  <2>   AskOK(tkReq[s])
    BY ZenonT(60) DEF TInv
  <2> QED
    BY DEF AskOK
<1>   AskOK(tkBy)' /\ (tkBy = NoLlm \/ tkBy.pc = "asked")'
  BY DEF TInv, AskOK, NoLlm
<1> QED
  BY <1>1, <1>2, <1>3, ZenonT(60) DEF TInv

\* The count does not change when a request that is not being served moves on to
\* anything but being served.
LEMMA SentKept ==
    ASSUME TInv, NEW r \in TkRequests, NEW q \in LlmRecords,
           tkReq' = [tkReq EXCEPT ![r] = q], tkReq[r].pc # "sent", q.pc # "sent",
           UNCHANGED tkFlight
    PROVE  LlmFlightExact' /\ tkFlight' \in Nat
<1>   tkReq \in [TkRequests -> LlmRecords] /\ tkFlight \in Nat
  BY DEF TInv, TKTypeOK
<1>   {s \in TkRequests : tkReq'[s].pc = "sent"} = {s \in TkRequests : tkReq[s].pc = "sent"}
  OBVIOUS
<1>   Cardinality({s \in TkRequests : tkReq'[s].pc = "sent"}) = Cardinality({s \in TkRequests : tkReq[s].pc = "sent"})
  BY ZenonT(60)
<1> QED
  BY DEF TInv, LlmFlightExact

\* A request is let in by the hash of the lease in its path.
LEMMA LlmBeginKeeps ==
    ASSUME TInv, NEW r \in TkRequests, LlmBegin(r)
    PROVE  TInv'
<1>1. PICK l \in UpLeases, g \in TkLeases :
        /\ tkGuest[g] # 0
        /\ LlmTokenOK(l, tkGuest[g])
        /\ tkReq' = [tkReq EXCEPT ![r] = [pc |-> "authed", lease |-> l, token |-> tkGuest[g]]]
  BY ZenonT(60) DEF LlmBegin
<1>   /\ tkReq[r] = NoLlm
      /\ UNCHANGED <<tkLease, tkRow, tkMem, tkGuest, tkCall, tkMinted, tkDead, tkUnstaged, tkBy, tkFlight, tkmay>>
  BY DEF LlmBegin
<1> DEFINE q == [pc |-> "authed", lease |-> l, token |-> tkGuest[g]]
<1>   TKTypeOK /\ l \in TkLeases /\ LeaseOK(l)
  BY ZenonT(60) DEF TInv, UpLeases
<1>   q \in LlmRecords /\ q.pc # "sent" /\ tkReq[r].pc # "sent"
  BY DEF TKTypeOK, LlmRecords, NoLlm
<1>4. tkGuest[g] \in DOMAIN tkMinted /\ tkMinted[tkGuest[g]] = l
  BY <1>1, ZenonT(60) DEF LlmTokenOK, LeaseBySelfToken, LeaseOK, OwnTokens, Own
<1>5. AskOK(q)
  BY <1>4, ZenonT(60) DEF AskOK
<1>   tkReq' = [tkReq EXCEPT ![r] = q]
  BY <1>1
<1> HIDE DEF q
<1>   LlmFlightExact' /\ tkFlight' \in Nat
  BY SentKept, ZenonT(60)
<1> QED
  BY <1>5, RequestStep, ZenonT(60)

\* A request that gives up is no request any more.
LEMMA NoLlmOK == NoLlm \in LlmRecords /\ NoLlm.pc = "none" /\ AskOK(NoLlm)
  BY DEF NoLlm, LlmRecords, AskOK

\* A request moves on with the lease and the token it came with.
LEMMA AskMovesOn ==
    ASSUME TInv, NEW r \in TkRequests, tkReq[r].pc # "none", NEW pc \in {"up", "sent"}
    PROVE  /\ [tkReq[r] EXCEPT !.pc = pc] \in LlmRecords
           /\ [tkReq[r] EXCEPT !.pc = pc].pc = pc
           /\ AskOK([tkReq[r] EXCEPT !.pc = pc])
<1>   tkReq[r] \in LlmRecords /\ AskOK(tkReq[r])
  BY DEF TInv, TKTypeOK
<1>   [tkReq[r] EXCEPT !.pc = pc] = [pc |-> pc, lease |-> tkReq[r].lease, token |-> tkReq[r].token]
  BY DEF LlmRecords
<1> QED
  BY DEF LlmRecords, AskOK

\* A request for a paused lease resumes it, as its owner would.
LEMMA LlmResumesKeeps ==
    ASSUME TInv, NEW r \in TkRequests, LlmResumes(r)
    PROVE  TInv'
<1> DEFINE q == [tkReq[r] EXCEPT !.pc = "up"]
<1>t. TKTypeOK /\ tkReq[r] \in LlmRecords /\ AskOK(tkReq[r])
  BY ZenonT(60) DEF TInv, TKTypeOK
<1>   tkReq[r].pc = "authed" /\ UNCHANGED <<tkMem, tkMinted, tkDead, tkUnstaged, tkBy, tkFlight, tkmay>>
  BY ZenonT(60) DEF LlmResumes
<1>p. PICK l \in TkLeases : l = tkReq[r].lease
  BY <1>t, ZenonT(60) DEF AskOK
<1>l. LeaseOK(l)
  BY DEF TInv
<1>q. q \in LlmRecords /\ q.pc = "up" /\ AskOK(q)
  BY AskMovesOn, ZenonT(60)
<1>0. tkReq[r].pc # "sent" /\ q.pc # "sent" /\ NoLlm.pc # "sent" /\ NoLlm \in LlmRecords /\ AskOK(NoLlm)
  BY <1>q, NoLlmOK, ZenonT(60)
<1>1. CASE /\ tkLease[l].st = "suspended"
           /\ \E file \in {0, tkGuest[l]} :
                /\ tkGuest' = [tkGuest EXCEPT ![l] = file]
                /\ tkLease' = [tkLease EXCEPT ![l].st = "running"]
                /\ tkRow' = [tkRow EXCEPT ![l] = tkLease[l].hash]
                /\ tkCall' = [tkCall EXCEPT ![l] = [NoStage EXCEPT !.pc = "look"]]
           /\ tkReq' = [tkReq EXCEPT ![r].pc = "up"]
  <2>1. PICK file \in {0, tkGuest[l]} :
                /\ tkGuest' = [tkGuest EXCEPT ![l] = file]
                /\ tkLease' = [tkLease EXCEPT ![l].st = "running"]
                /\ tkRow' = [tkRow EXCEPT ![l] = tkLease[l].hash]
                /\ tkCall' = [tkCall EXCEPT ![l] = [NoStage EXCEPT !.pc = "look"]]
    BY <1>1, ZenonT(60)
  <2>2. tkReq' = [tkReq EXCEPT ![r] = q]
    BY <1>1
  <2>3. file \in Nat /\ Own(file, l)
    <3>1. tkGuest[l] \in Nat
      BY <1>t, ZenonT(60) DEF TKTypeOK
    <3>2. Own(tkGuest[l], l)
      BY <1>1, <1>l, ZenonT(60) DEF LeaseOK, OwnTokens
    <3>3. 0 \in Nat /\ Own(0, l)
      BY DEF Own
    <3> QED BY <3>1, <3>2, <3>3, ZenonT(60)
  <2> HIDE DEF q
  <2>4. /\ tkLease' \in [TkLeases -> [st : TkStates, hash : Nat]]
        /\ tkRow' \in [TkLeases -> Int]
        /\ tkGuest' \in [TkLeases -> Nat]
        /\ tkCall' \in [TkLeases -> StageRecords]
        /\ LeaseFrame(l)
        /\ LeaseOK(l)'
    BY <1>1, <1>t, <1>l, <2>1, <2>3, GuestBackState, ZenonT(60)
  <2>5. tkReq' \in [TkRequests -> LlmRecords]
    BY <1>t, <1>q, <2>2, ZenonT(60) DEF TKTypeOK
  <2>6. TKTypeOK'
    BY <1>t, <2>4, <2>5 DEF TKTypeOK
  <2>7. \A m \in TkLeases : LeaseOK(m)'
    BY <1>t, <1>l, <2>4, OtherLeaseKept, ZenonT(60) DEF TInv
  <2>8. ASSUME NEW s \in TkRequests PROVE AskOK(tkReq[s])'
    <3>   tkReq'[s] = (IF s = r THEN q ELSE tkReq[s])
      BY <1>t, <2>2, ZenonT(60) DEF TKTypeOK
    <3>   AskOK(tkReq[s])
      BY ZenonT(60) DEF TInv
    <3> QED
      BY <1>q, ZenonT(60) DEF AskOK
  <2>   AskOK(tkBy)' /\ (tkBy = NoLlm \/ tkBy.pc = "asked")'
    BY DEF TInv, AskOK, NoLlm
  <2>    LlmFlightExact'
    BY <1>0, <1>q, <2>2, SentKept, ZenonT(60)
  <2> QED
    BY <2>6, <2>7, <2>8 DEF TInv
<1>2. CASE tkReq' = [tkReq EXCEPT ![r] = NoLlm] /\ UNCHANGED <<tkLease, tkRow, tkGuest, tkCall>>
  <2> USE <1>2
  <2>   LlmFlightExact' /\ tkFlight' \in Nat
    BY <1>0, SentKept, ZenonT(60)
  <2> QED
    BY <1>0, RequestStep, ZenonT(60)
<1>3. CASE tkReq' = [tkReq EXCEPT ![r].pc = "up"] /\ UNCHANGED <<tkLease, tkRow, tkGuest, tkCall>>
  <2> USE <1>3
  <2>   tkReq' = [tkReq EXCEPT ![r] = q]
    OBVIOUS
  <2> HIDE DEF q
  <2>   LlmFlightExact' /\ tkFlight' \in Nat
    BY <1>0, <1>q, SentKept, ZenonT(60)
  <2> QED
    BY <1>q, RequestStep, ZenonT(60)
<1> QED
  BY <1>p, <1>1, <1>2, <1>3, ZenonT(60) DEF LlmResumes

\* A slot is counted when it is taken, and only below the cap.
LEMMA LlmAdmitsKeeps ==
    ASSUME TInv, NEW r \in TkRequests, LlmAdmits(r)
    PROVE  TInv'
<1>t. TKTypeOK /\ LlmFlightExact
  BY DEF TInv
<1>u. tkReq[r].pc = "up" /\ UNCHANGED <<tkLease, tkRow, tkMem, tkGuest, tkCall, tkMinted, tkDead, tkUnstaged, tkBy, tkmay>>
  BY DEF LlmAdmits
<1>0. tkReq[r].pc # "sent" /\ NoLlm.pc # "sent" /\ NoLlm \in LlmRecords /\ AskOK(NoLlm)
  BY <1>u, NoLlmOK
<1>1. CASE tkReq' = [tkReq EXCEPT ![r] = NoLlm] /\ UNCHANGED tkFlight
  <2> USE <1>1
  <2>   LlmFlightExact' /\ tkFlight' \in Nat
    BY <1>0, SentKept, ZenonT(60)
  <2> QED
    BY <1>0, <1>u, RequestStep, ZenonT(60)
<1>2. CASE ~LlmFull /\ tkReq' = [tkReq EXCEPT ![r].pc = "sent"] /\ tkFlight' = tkFlight + 1
  <2> DEFINE q == [tkReq[r] EXCEPT !.pc = "sent"]
             S == {s \in TkRequests : tkReq[s].pc = "sent"}
             T == {s \in TkRequests : tkReq'[s].pc = "sent"}
  <2>1. q \in LlmRecords /\ q.pc = "sent" /\ AskOK(q)
    BY <1>u, AskMovesOn, ZenonT(60)
  <2>2. tkReq' = [tkReq EXCEPT ![r] = q]
    BY <1>2
  <2> HIDE DEF q
  <2>3. T = S \cup {r} /\ r \notin S
    BY <1>t, <1>u, <2>1, <2>2, ZenonT(60) DEF TKTypeOK
  <2>4. IsFiniteSet(S)
    BY TokenAssumption, FS_Subset
  <2> HIDE DEF S, T
  <2>5. Cardinality(T) = Cardinality(S) + 1
    BY <2>3, <2>4, FS_AddElement, ZenonT(60)
  <2>6. tkFlight = Cardinality(S) /\ tkFlight \in Nat /\ tkFlight < LlmMax
    <3>1. tkFlight \in Nat
      BY <1>t, ZenonT(60) DEF TKTypeOK
    <3>2. tkFlight = Cardinality(S)
      BY <1>t, ZenonT(60) DEF LlmFlightExact, S
    <3>3. ~(tkFlight >= LlmMax)
      BY <1>2, ZenonT(60) DEF LlmFull
    <3>4. LlmMax \in Nat
      BY TokenAssumption
    <3> QED BY <3>1, <3>2, <3>3, <3>4
  <2>   tkFlight' = Cardinality(T) /\ tkFlight' <= LlmMax /\ tkFlight' \in Nat
    BY <1>2, <2>5, <2>6, TokenAssumption
  <2>   LlmFlightExact'
    BY DEF LlmFlightExact, T
  <2> QED
    BY <1>u, <2>1, <2>2, RequestStep, ZenonT(60)
<1> QED
  BY <1>1, <1>2 DEF LlmAdmits

\* Every end of a request that had a slot gives it back.
LEMMA LlmEndsKeeps ==
    ASSUME TInv, NEW r \in TkRequests, LlmEnds(r)
    PROVE  TInv'
<1>t. TKTypeOK /\ LlmFlightExact
  BY DEF TInv
<1>   /\ tkReq[r].pc = "sent"
      /\ tkReq' = [tkReq EXCEPT ![r] = NoLlm]
      /\ tkFlight' = IF tkFlight <= 1 THEN 0 ELSE tkFlight - 1
      /\ UNCHANGED <<tkLease, tkRow, tkMem, tkGuest, tkCall, tkMinted, tkDead, tkUnstaged, tkBy, tkmay>>
  BY DEF LlmEnds
<1> DEFINE S == {s \in TkRequests : tkReq[s].pc = "sent"}
           T == {s \in TkRequests : tkReq'[s].pc = "sent"}
<1>2. T = S \ {r} /\ r \in S
  BY <1>t, NoLlmOK DEF TKTypeOK
<1>3. IsFiniteSet(S)
  BY TokenAssumption, FS_Subset, ZenonT(60)
<1>4. tkFlight = Cardinality(S) /\ tkFlight \in Nat /\ tkFlight <= LlmMax
  BY <1>t DEF LlmFlightExact, TKTypeOK
<1> HIDE DEF S, T
<1>5. Cardinality(T) = Cardinality(S) - 1 /\ Cardinality(T) \in Nat
  BY <1>2, <1>3, FS_RemoveElement, FS_CardinalityType, ZenonT(60)
<1>   tkFlight' = Cardinality(T) /\ tkFlight' <= LlmMax /\ tkFlight' \in Nat
  BY <1>4, <1>5, TokenAssumption
<1>   LlmFlightExact'
  BY DEF LlmFlightExact, T
<1> QED
  BY NoLlmOK, RequestStep, ZenonT(60)

-----------------------------------------------------------------------------
(***************************************************************************)
(* The invariant, and what it says.                                        *)
(***************************************************************************)

\* No restart of the backend cuts a release off between its mark and its rows.
NoCutoff == \A s \in TkScenarios : "cutoff" \notin s

\* The invariant holds of an empty backend.
LEMMA TokenInit ==
    ASSUME NoCutoff, TKInit
    PROVE  TInv
<1>1. TKTypeOK
  <2>1. tkLease \in [TkLeases -> [st : TkStates, hash : Nat]] /\ tkRow \in [TkLeases -> Int]
    BY DEF TKInit, TkStates
  <2>2. tkCall \in [TkLeases -> StageRecords]
    BY DEF TKInit, NoStage, StageRecords, StagePcs
  <2>   tkReq \in [TkRequests -> LlmRecords] /\ tkBy \in LlmRecords
    BY NoLlmOK DEF TKInit
  <2>   tkMinted \in Seq(TkLeases)
    <3>1. tkMinted = << >>
      BY ZenonT(60) DEF TKInit
    <3>2. << >> \in Seq(TkLeases)
      OBVIOUS
    <3> QED BY <3>1, <3>2, ZenonT(60)
  <2> QED
    BY <2>1, <2>2 DEF TKInit, TKTypeOK, NoCutoff
<1>2. \A l \in TkLeases : LeaseOK(l)
  <2> TAKE l \in TkLeases
  <2>1. tkLease[l] = [st |-> "none", hash |-> 0] /\ tkRow[l] = -1 /\ tkMem[l] = 0 /\ tkGuest[l] = 0
        /\ tkCall[l] = NoStage /\ tkDead = {}
    BY ZenonT(60) DEF TKInit
  <2>2. tkLease[l].st = "none" /\ tkLease[l].hash = 0
    BY <2>1
  <2>3. OwnTokens(l)
    BY <2>1, <2>2, NoStageIs, ZenonT(60) DEF OwnTokens, Own
  <2>4. RowFollows(l) /\ HashAlive(l) /\ GuestFollows(l)
    BY <2>1, <2>2, ZenonT(60) DEF RowFollows, HashAlive, GuestFollows
  <2>5. StagingFollows(l)
    BY <2>1, <2>2, NoStageIs, ZenonT(60) DEF StagingFollows
  <2> QED BY <2>3, <2>4, <2>5, ZenonT(60) DEF LeaseOK
<1>3. (\A r \in TkRequests : AskOK(tkReq[r])) /\ AskOK(tkBy) /\ tkBy = NoLlm
  BY NoLlmOK DEF TKInit
<1>   LlmFlightExact
  <2>1. {r \in TkRequests : tkReq[r].pc = "sent"} = {}
    <3>1. \A r \in TkRequests : tkReq[r].pc = "none"
      BY NoLlmOK, ZenonT(60) DEF TKInit
    <3> QED BY <3>1, ZenonT(60)
  <2>   Cardinality({r \in TkRequests : tkReq[r].pc = "sent"}) = 0
    BY <2>1, FS_EmptySet, ZenonT(60)
  <2>   0 <= LlmMax
    BY TokenAssumption
  <2> QED
    BY DEF LlmFlightExact, TKInit
<1> QED
  BY <1>1, <1>2, <1>3, ZenonT(60) DEF TInv

\* Every step keeps it.
LEMMA TokenNext ==
    ASSUME TInv, [TKNext]_tkvars
    PROVE  TInv'
<1>0. CASE UNCHANGED tkvars
  <2> USE <1>0
  <2>1. TKTypeOK' /\ LlmFlightExact'
    BY DEF TInv, TKTypeOK, LlmFlightExact, tkvars
  <2>   \A l \in TkLeases : LeaseOK(l)'
    BY ZenonT(60) DEF TInv, tkvars, LeaseOK, OwnTokens, Own, RowFollows, StagingFollows, HashAlive, GuestFollows
  <2>   (\A r \in TkRequests : AskOK(tkReq[r])') /\ AskOK(tkBy)' /\ (tkBy = NoLlm \/ tkBy.pc = "asked")'
    BY ZenonT(60) DEF TInv, tkvars, AskOK, NoLlm
  <2> QED
    BY <2>1, ZenonT(60) DEF TInv
<1>t. TKTypeOK /\ \A l \in TkLeases : LeaseOK(l)
  BY DEF TInv
<1>g. ASSUME NEW l \in TkLeases PROVE tkGuest[l] \in Nat
  BY <1>t DEF TKTypeOK
<1>1. ASSUME NEW l \in TkLeases, TokenCreate(l) PROVE TInv'
  BY <1>1, FirstStageKeeps DEF TokenCreate
<1>2. ASSUME NEW l \in TkLeases, TokenClone(l) PROVE TInv'
  BY <1>2, <1>g, FirstStageKeeps DEF TokenClone, UpLeases
<1>3. ASSUME NEW l \in TkLeases, TokenResume(l) PROVE TInv'
  <2>   PICK file \in {0, tkGuest[l]} : GuestBack(l, {"suspended"}, file)
    BY <1>3 DEF TokenResume
  <2>2. tkLease[l].st = "suspended"
    BY DEF GuestBack
  <2>   Own(0, l) /\ (tkLease[l].st = "suspended" => Own(tkGuest[l], l))
    BY <1>t, ZenonT(60) DEF LeaseOK, OwnTokens, Own
  <2>   file \in Nat /\ Own(file, l)
    BY <1>g, <2>2
  <2> QED
    BY GuestBackKeeps
<1>4. ASSUME NEW l \in TkLeases, TokenRestart(l) PROVE TInv'
  <2>   Own(0, l) /\ GuestBack(l, {"running", "suspended"}, 0)
    BY <1>4 DEF TokenRestart, Own
  <2> QED
    BY GuestBackKeeps
<1>5. ASSUME NEW l \in TkLeases, TokenRestore(l) PROVE TInv'
  <2>1. PICK file \in {0} \cup {t \in DOMAIN tkMinted : tkMinted[t] = l} :
            GuestBack(l, {"running", "suspended", "lost"}, file)
    BY <1>5 DEF TokenRestore
  <2>   DOMAIN tkMinted = 1 .. Len(tkMinted) /\ Len(tkMinted) \in Nat
    <3>1. tkMinted \in Seq(TkLeases)
      BY <1>t, ZenonT(60) DEF TKTypeOK
    <3> QED BY <3>1
  <2>   file \in Nat /\ Own(file, l)
    BY DEF Own
  <2> QED
    BY <2>1, GuestBackKeeps
<1>6. ASSUME NEW l \in TkLeases,
             \/ CreateRegisters(l) \/ CreateUnstaged(l) \/ TokenSave(l) \/ StageLooks(l) \/ StageKeeps(l)
             \/ StageMints(l) \/ StageWrites(l) \/ StageFails(l)
             \/ TokenSuspend(l) \/ TokenLost(l) \/ TokenRelease(l) \/ TokenReleaseEnds(l)
      PROVE  TInv'
  BY <1>6, CreateRegistersKeeps, CreateUnstagedKeeps, TokenSaveKeeps, StageLooksKeeps, StageKeepsKeeps,
     StageMintsKeeps, StageWritesKeeps, StageFailsKeeps, TokenSuspendKeeps, TokenLostKeeps,
     TokenReleaseKeeps, TokenReleaseEndsKeeps, ZenonT(60)
<1>7. ASSUME NEW r \in TkRequests, LlmBegin(r) \/ LlmResumes(r) \/ LlmAdmits(r) \/ LlmEnds(r) PROVE TInv'
  BY <1>7, LlmBeginKeeps, LlmResumesKeeps, LlmAdmitsKeeps, LlmEndsKeeps, ZenonT(60)
<1> QED
  BY <1>0, <1>1, <1>2, <1>3, <1>4, <1>5, <1>6, <1>7, TokenBackendRestartKeeps, TokenRequestKeeps, ZenonT(60) DEF TKNext

\* The invariant implies what the run checks.
LEMMA TokenImplies ==
    ASSUME TInv
    PROVE  TokensHold
<1>   TKTypeOK /\ \A l \in TkLeases : LeaseOK(l)
  BY ZenonT(60) DEF TInv
<1>1. GuestTokenWorks
  BY DEF LeaseOK, GuestFollows, GuestTokenWorks
<1>2. TokenNamesItsLease
  BY ZenonT(60) DEF LeaseOK, OwnTokens, Own, TokenNamesItsLease, UpLeases
<1>   RevokedStaysDead
  BY ZenonT(60) DEF LeaseOK, HashAlive, RevokedStaysDead, UpLeases
<1>   TokenOpensItsOwn
  BY ZenonT(60) DEF TInv, AskOK, TokenOpensItsOwn
<1> QED
  BY <1>1, <1>2 DEF TokensHold, TInv

\* The state of the tokens always satisfies the inductive invariant, however many
\* leases, tokens and requests there are: each lease's hash, row, memory and file
\* speak of tokens minted for that lease, and none of them of a revoked one.
THEOREM TokenInvariance ==
    ASSUME NoCutoff
    PROVE  TKSpec => []TInv
<1>1. TKInit => TInv
  BY TokenInit
<1>2. TInv /\ [TKNext]_tkvars => TInv'
  BY TokenNext
<1> QED
  BY <1>1, <1>2, PTL DEF TKSpec

\* Across resumes, restarts, restores, saves, clones, losses, releases and
\* restarts of the backend: a staged guest's token works, opens its own lease and
\* no other, is dead for good once its lease is lost or released, and the LLM
\* slots are exactly the requests being served (TokensHold).
THEOREM TokensAlwaysHold ==
    ASSUME NoCutoff
    PROVE  TKSpec => []TokensHold
<1>1. TInv => TokensHold
  BY TokenImplies
<1> QED
  BY <1>1, TokenInvariance, PTL

-----------------------------------------------------------------------------
(***************************************************************************)
(* A name belongs to one lease, and a share to a lease that is there.      *)
(***************************************************************************)

ShStates == {"live", "suspended", "lost", "released", "gone"}
Shares == [mode : Modes \cup {"none"}, ends : BOOLEAN, over : BOOLEAN]
ShareTable == [ShLeases -> [Grantees -> Shares]]

\* The races the code leaves open are out: a release between the two critical
\* sections of a grant, a release cut off by the backend's end whose name was
\* given away, and a row that could not be written before a restart reads it.
ShareScenario(may) ==
    "grantrace" \notin may /\ "cutoff" \notin may /\ ("fail" \notin may \/ "restart" \notin may)

\* The state has the shape the code gives it.
SHTypeOK ==
    /\ shLease \in [ShLeases -> [state : ShStates, name : ShNames \cup {NoName}]]
    /\ shRow \in [ShLeases -> ShNames \cup {NoName, NoLease}]
    /\ shMap \in ShareTable
    /\ shRows \in ShareTable
    /\ shTold \in ShareTable
    /\ shNamed \in [ShLeases -> ShNames \cup {NoName}]
    /\ ShareScenario(shmay)

\* The lease a grant or revoke has looked up is still there.
CallFollows ==
    shCall # NoCall =>
        /\ shCall \in [op : {"grant", "revoke"}, lease : ShLeases, user : Grantees, share : Shares]
        /\ InStore(shCall.lease)

\* A lease has the name its owner was told; no two in the store share one; and
\* the row of a lease that a restart would bring back says the same.
NamesFollow ==
    /\ \A l \in ShLeases :
          /\ shLease[l].state = "gone" <=> shRow[l] = NoLease
          /\ shLease[l].state # "gone" => shNamed[l] = shLease[l].name
          /\ "fail" \notin shmay /\ shRow[l] # NoLease => shRow[l] = shLease[l].name
          /\ "name" \notin shmay => shLease[l].name = NoName
    /\ \A l, o \in ShLeases :
          l # o /\ InStore(l) /\ InStore(o) /\ shLease[l].name = shLease[o].name =>
              shLease[l].name = NoName

\* The shares of a lease are those its owner was told of until it is gone, and
\* none after; the rows say the same.
SharesFollow ==
    \A l \in ShLeases :
        /\ shLease[l].state # "gone" => shMap[l] = shTold[l]
        /\ shLease[l].state = "gone" => shMap[l] = [u \in Grantees |-> NoShare]
        /\ "fail" \notin shmay => shRows[l] = shMap[l]

\* The inductive invariant of names and shares.
SHInv == SHTypeOK /\ CallFollows /\ NamesFollow /\ SharesFollow

-----------------------------------------------------------------------------
\* The invariant holds when the backend starts.
LEMMA SharingInit ==
    ASSUME \A may \in ShScenarios : ShareScenario(may), SHInit
    PROVE  SHInv
<1>1. NoShare \in Shares
  BY ZenonT(60) DEF NoShare, Shares
<1>2. SHTypeOK
  BY <1>1, ZenonT(60) DEF SHInit, SHTypeOK, ShStates, ShareTable
<1>3. CallFollows
  BY DEF SHInit, CallFollows
<1>   NamesFollow
  BY ZenonT(60) DEF SHInit, NamesFollow, NoName, NoLease
<1>   SharesFollow
  BY DEF SHInit, SharesFollow
<1> QED BY <1>2, <1>3 DEF SHInv

\* A lease gets the name its owner asked for, unless another has it.
LEMMA NameStep ==
    ASSUME SHInv, NEW l \in ShLeases, NEW n \in ShNames, SetLeaseName(l, n)
    PROVE  SHInv'
<1>   /\ shLease' = [shLease EXCEPT ![l].name = n] /\ shNamed' = [shNamed EXCEPT ![l] = n]
      /\ shRow' = [shRow EXCEPT ![l] = n] \/ ("fail" \in shmay /\ shRow' = shRow)
      /\ UNCHANGED <<shMap, shRows, shCall, shTold, shmay>>
      /\ InStore(l) /\ ~NameTaken(l, n) /\ "name" \in shmay
  BY DEF SetLeaseName, ShMay
<1>   /\ \A o \in ShLeases : shLease'[o].state = shLease[o].state
      /\ \A o \in ShLeases : shLease'[o].name = IF o = l THEN n ELSE shLease[o].name
      /\ \A o \in ShLeases : InStore(o)' <=> InStore(o)
  BY DEF SHInv, SHTypeOK, InStore
<1>3. SHTypeOK'
  BY ZenonT(60) DEF SHInv, SHTypeOK
<1>4. CallFollows'
  BY DEF SHInv, CallFollows
<1>   NamesFollow'
  <2>1. n # NoName /\ n # NoLease
    BY SharingAssumption
  <2>   \A o \in ShLeases :
          /\ shLease'[o].state = "gone" <=> shRow'[o] = NoLease
          /\ shLease'[o].state # "gone" => shNamed'[o] = shLease'[o].name
          /\ "fail" \notin shmay' /\ shRow'[o] # NoLease => shRow'[o] = shLease'[o].name
          /\ "name" \notin shmay' => shLease'[o].name = NoName
    BY <2>1 DEF SHInv, SHTypeOK, NamesFollow, InStore
  <2>   \A k, o \in ShLeases :
          k # o /\ InStore(k)' /\ InStore(o)' /\ shLease'[k].name = shLease'[o].name =>
              shLease'[k].name = NoName
    BY DEF SHInv, NamesFollow, NameTaken
  <2> QED BY DEF NamesFollow
<1>   SharesFollow'
  BY DEF SHInv, SharesFollow
<1> QED BY <1>3, <1>4 DEF SHInv

\* A step that keeps every lease where it is, up to its being suspended or lost,
\* and rewrites the row of one of them at most.
LEMMA KeptStep ==
    ASSUME SHInv, NEW l \in ShLeases, InStore(l), shLease' \in [ShLeases -> [state : ShStates, name : ShNames \cup {NoName}]],
           \A o \in ShLeases : /\ shLease'[o].name = shLease[o].name
                               /\ shLease'[o].state = "gone" <=> shLease[o].state = "gone"
                               /\ InStore(o)' <=> InStore(o),
           shRow' = [shRow EXCEPT ![l] = shLease[l].name],
           UNCHANGED <<shMap, shRows, shCall, shTold, shNamed, shmay>>
    PROVE  SHInv'
<1>1. shLease[l].name \in ShNames \cup {NoName} /\ shLease[l].name # NoLease
  BY SharingAssumption, ZenonT(60) DEF SHInv, SHTypeOK, NoName, NoLease
<1>2. shRow'[l] = shLease[l].name /\ \A o \in ShLeases \ {l} : shRow'[o] = shRow[o]
  BY ZenonT(60) DEF SHInv, SHTypeOK
<1>3. SHTypeOK'
  BY <1>1, ZenonT(60) DEF SHInv, SHTypeOK
<1>4. CallFollows'
  BY DEF SHInv, CallFollows
<1>   NamesFollow'
  BY <1>1, <1>2, ZenonT(60) DEF SHInv, NamesFollow, InStore
<1>   SharesFollow'
  BY ZenonT(60) DEF SHInv, SharesFollow
<1> QED BY <1>3, <1>4, ZenonT(60) DEF SHInv

\* Labels, pauses and losses.
LEMMA StateSteps ==
    ASSUME SHInv, NEW l \in ShLeases, LabelSaved(l) \/ ShPause(l) \/ ShLost(l)
    PROVE  SHInv'
<1>   /\ InStore(l) /\ shRow' = [shRow EXCEPT ![l] = shLease[l].name]
      /\ UNCHANGED <<shMap, shRows, shCall, shTold, shNamed, shmay>>
  BY ZenonT(60) DEF LabelSaved, ShPause, ShLost, InStore
<1>2. CASE UNCHANGED shLease
  <2> USE <1>2
  <2>   shLease' \in [ShLeases -> [state : ShStates, name : ShNames \cup {NoName}]]
    BY DEF SHInv, SHTypeOK
  <2> QED BY KeptStep, ZenonT(60) DEF InStore
<1>3. ASSUME NEW a \in {"live", "suspended", "lost"}, shLease' = [shLease EXCEPT ![l].state = a]
      PROVE  SHInv'
  <2> USE <1>3
  <2>   shLease' \in [ShLeases -> [state : ShStates, name : ShNames \cup {NoName}]]
    BY DEF SHInv, SHTypeOK, ShStates
  <2>   \A o \in ShLeases : /\ shLease'[o].name = shLease[o].name
                            /\ shLease'[o].state = "gone" <=> shLease[o].state = "gone"
                            /\ InStore(o)' <=> InStore(o)
    BY DEF SHInv, SHTypeOK, InStore
  <2> QED BY KeptStep, ZenonT(60)
<1>   UNCHANGED shLease \/ \E a \in {"live", "suspended", "lost"} : shLease' = [shLease EXCEPT ![l].state = a]
  BY DEF LabelSaved, ShPause, ShLost
<1> QED BY <1>2, <1>3, ZenonT(60)

\* A release marks its lease; no grant or revoke is between its lookup and its
\* commit on it.
LEMMA MarkStep ==
    ASSUME SHInv, NEW l \in ShLeases, ShReleaseMark(l)
    PROVE  SHInv'
<1>   /\ shLease' = [shLease EXCEPT ![l].state = "released"] /\ InStore(l) /\ shCall.lease # l
      /\ UNCHANGED <<shRow, shMap, shRows, shCall, shTold, shNamed, shmay>>
  BY ZenonT(60) DEF ShReleaseMark, ShMay, SHInv, SHTypeOK, ShareScenario
<1>   /\ \A o \in ShLeases : shLease'[o].name = shLease[o].name
      /\ \A o \in ShLeases \ {l} : shLease'[o].state = shLease[o].state
      /\ shLease'[l].state = "released"
  BY DEF SHInv, SHTypeOK
<1>3. SHTypeOK'
  BY DEF SHInv, SHTypeOK, ShStates
<1>4. CallFollows'
  BY DEF SHInv, CallFollows, InStore
<1>   NamesFollow'
  <2>   \A o \in ShLeases :
          /\ shLease'[o].state = "gone" <=> shRow'[o] = NoLease
          /\ shLease'[o].state # "gone" => shNamed'[o] = shLease'[o].name
          /\ "fail" \notin shmay' /\ shRow'[o] # NoLease => shRow'[o] = shLease'[o].name
          /\ "name" \notin shmay' => shLease'[o].name = NoName
    BY DEF SHInv, NamesFollow, InStore
  <2>   \A k, o \in ShLeases :
          k # o /\ InStore(k)' /\ InStore(o)' /\ shLease'[k].name = shLease'[o].name =>
              shLease'[k].name = NoName
    BY DEF SHInv, NamesFollow, InStore
  <2> QED BY DEF NamesFollow
<1>   SharesFollow'
  BY ZenonT(60) DEF SHInv, SharesFollow, InStore
<1> QED BY <1>3, <1>4 DEF SHInv

\* The lease, its row and its shares go together.
LEMMA GoneStep ==
    ASSUME SHInv, NEW l \in ShLeases, ShReleaseEnd(l)
    PROVE  SHInv'
<1> DEFINE none == [u \in Grantees |-> NoShare]
<1>1. /\ shLease[l].state = "released"
      /\ shLease' = [shLease EXCEPT ![l] = [state |-> "gone", name |-> NoName]]
      /\ shMap' = [shMap EXCEPT ![l] = none] /\ shRows' = [shRows EXCEPT ![l] = none]
      /\ shRow' = [shRow EXCEPT ![l] = NoLease]
      /\ UNCHANGED <<shCall, shTold, shNamed, shmay>>
  BY ZenonT(60) DEF ShReleaseEnd, SharesAfterRelease
<1>2. none \in [Grantees -> Shares]
  BY ZenonT(60) DEF NoShare, Shares
<1> HIDE DEF none
<1>3. SHTypeOK'
  BY <1>1, <1>2, ZenonT(60) DEF SHInv, SHTypeOK, ShStates, ShareTable
<1>4. /\ shLease'[l].state = "gone" /\ shLease'[l].name = NoName /\ shRow'[l] = NoLease
      /\ shMap'[l] = none /\ shRows'[l] = none
      /\ \A o \in ShLeases \ {l} : /\ shLease'[o] = shLease[o] /\ shRow'[o] = shRow[o]
                                   /\ shMap'[o] = shMap[o] /\ shRows'[o] = shRows[o]
  <2>1. /\ shLease'[l] = [state |-> "gone", name |-> NoName]
        /\ \A o \in ShLeases \ {l} : shLease'[o] = shLease[o]
    BY <1>1, ZenonT(60) DEF SHInv, SHTypeOK
  <2>2. shRow'[l] = NoLease /\ \A o \in ShLeases \ {l} : shRow'[o] = shRow[o]
    BY <1>1, ZenonT(60) DEF SHInv, SHTypeOK
  <2>3. shMap'[l] = none /\ \A o \in ShLeases \ {l} : shMap'[o] = shMap[o]
    BY <1>1, ZenonT(60) DEF SHInv, SHTypeOK, ShareTable
  <2>4. shRows'[l] = none /\ \A o \in ShLeases \ {l} : shRows'[o] = shRows[o]
    BY <1>1, ZenonT(60) DEF SHInv, SHTypeOK, ShareTable
  <2>5. shLease'[l].state = "gone" /\ shLease'[l].name = NoName
    BY <2>1
  <2> QED BY <2>1, <2>2, <2>3, <2>4, <2>5, ZenonT(60)
<1>5. CallFollows'
  BY <1>1, <1>4, ZenonT(60) DEF SHInv, CallFollows, InStore
<1>6. NamesFollow'
  <2>1. \A o \in ShLeases :
          /\ shLease'[o].state = "gone" <=> shRow'[o] = NoLease
          /\ shLease'[o].state # "gone" => shNamed'[o] = shLease'[o].name
          /\ "fail" \notin shmay' /\ shRow'[o] # NoLease => shRow'[o] = shLease'[o].name
          /\ "name" \notin shmay' => shLease'[o].name = NoName
    BY <1>1, <1>4, ZenonT(60) DEF SHInv, NamesFollow, InStore
  <2>2. \A k, o \in ShLeases :
          k # o /\ InStore(k)' /\ InStore(o)' /\ shLease'[k].name = shLease'[o].name =>
              shLease'[k].name = NoName
    BY <1>1, <1>4 DEF SHInv, NamesFollow, InStore
  <2> QED BY <2>1, <2>2, ZenonT(60) DEF NamesFollow
<1>7. SharesFollow'
  BY <1>1, <1>4, ZenonT(60) DEF SHInv, SharesFollow, none
<1> QED BY <1>3, <1>5, <1>6, <1>7, ZenonT(60) DEF SHInv

\* A grant or a revoke looks its lease up.
LEMMA LookupStep ==
    ASSUME SHInv, GrantBegin \/ RevokeBegin
    PROVE  SHInv'
<1>1. ASSUME NEW op \in {"grant", "revoke"}, NEW l \in ShLeases, NEW u \in Grantees, NEW share \in Shares,
             ShareLookup(op, l, u, share)
      PROVE  SHInv'
  <2>   /\ shLease[l].state \in {"live", "suspended"}
        /\ shCall' = [op |-> op, lease |-> l, user |-> u, share |-> share]
        /\ UNCHANGED <<shLease, shRow, shMap, shRows, shTold, shNamed, shmay>>
    BY <1>1, ZenonT(60) DEF ShareLookup
  <2>   CallFollows'
    BY ZenonT(60) DEF CallFollows, InStore
  <2>   (SHTypeOK /\ NamesFollow /\ SharesFollow)'
    BY ZenonT(60) DEF SHInv, SHTypeOK, NamesFollow, SharesFollow, InStore
  <2> QED BY ZenonT(60) DEF SHInv
<1>   NoShare \in Shares /\ \A m \in Modes, ends \in BOOLEAN : [mode |-> m, ends |-> ends, over |-> FALSE] \in Shares
  BY DEF NoShare, Shares
<1> QED BY <1>1, ZenonT(60) DEF GrantBegin, RevokeBegin

\* Writing one share of a lease leaves shares.
LEMMA ShareEdit ==
    ASSUME NEW f \in ShareTable, NEW l \in ShLeases, NEW u \in Grantees, NEW sh \in Shares
    PROVE  [f[l] EXCEPT ![u] = sh] \in [Grantees -> Shares]
BY DEF ShareTable

\* A grant or a revoke changes one share, in memory, in its row and in what the
\* owner was told.
LEMMA CommitStep ==
    ASSUME SHInv, GrantCommit \/ RevokeCommit
    PROVE  SHInv'
<1> DEFINE l == shCall.lease
           u == shCall.user
<1>0. NoShare \in Shares
  BY ZenonT(60) DEF NoShare, Shares
<1>1. PICK share \in Shares :
        /\ shCall # NoCall /\ l \in ShLeases /\ u \in Grantees /\ InStore(l)
        /\ shMap' = [shMap EXCEPT ![l][u] = share] /\ shTold' = [shTold EXCEPT ![l][u] = share]
        /\ ShareRowWritten(l, u, share) /\ shCall' = NoCall
        /\ UNCHANGED <<shLease, shRow, shNamed, shmay>>
  <2>1. CASE GrantCommit
    <3>1. shCall.op = "grant"
      BY <2>1 DEF GrantCommit
    <3>2. shCall # NoCall
      BY <3>1 DEF NoCall
    <3>3. l \in ShLeases /\ u \in Grantees /\ shCall.share \in Shares /\ InStore(l)
      BY <3>2 DEF SHInv, CallFollows
    <3> QED BY <2>1, <3>2, <3>3, ZenonT(60) DEF GrantCommit
  <2>2. CASE RevokeCommit
    <3>1. shCall.op = "revoke"
      BY <2>2 DEF RevokeCommit
    <3>2. shCall # NoCall
      BY <3>1 DEF NoCall
    <3>3. l \in ShLeases /\ u \in Grantees /\ InStore(l)
      BY <3>2, ZenonT(60) DEF SHInv, CallFollows
    <3> QED BY <1>0, <2>2, <3>2, <3>3, ZenonT(60) DEF RevokeCommit, RevokedRow
  <2> QED BY <2>1, <2>2, ZenonT(60)
<1> HIDE DEF l, u
<1>2. shLease[l].state # "gone" /\ shRow[l] # NoLease
  BY <1>1, ZenonT(60) DEF InStore, SHInv, NamesFollow
<1>3. shRows' = [shRows EXCEPT ![l][u] = share] \/ ("fail" \in shmay /\ shRows' = shRows)
  BY <1>1, <1>2 DEF ShareRowWritten, ShMay
<1>a. /\ shMap' = [shMap EXCEPT ![l] = [shMap[l] EXCEPT ![u] = share]]
      /\ shTold' = [shTold EXCEPT ![l] = [shTold[l] EXCEPT ![u] = share]]
      /\ shRows' = [shRows EXCEPT ![l] = [shRows[l] EXCEPT ![u] = share]] \/ ("fail" \in shmay /\ shRows' = shRows)
      /\ l \in ShLeases /\ u \in Grantees
      /\ shMap \in ShareTable /\ shTold \in ShareTable /\ shRows \in ShareTable
  BY <1>1, <1>3, ZenonT(60) DEF SHInv, SHTypeOK
<1>b. PICK m \in [Grantees -> Shares], r \in [Grantees -> Shares], t \in [Grantees -> Shares] :
        /\ m = [shMap[l] EXCEPT ![u] = share] /\ r = [shRows[l] EXCEPT ![u] = share]
        /\ t = [shTold[l] EXCEPT ![u] = share]
  BY <1>a, ShareEdit, ZenonT(60)
<1>c. /\ shMap' = [shMap EXCEPT ![l] = m] /\ shTold' = [shTold EXCEPT ![l] = t]
      /\ shRows' = [shRows EXCEPT ![l] = r] \/ ("fail" \in shmay /\ shRows' = shRows)
  BY <1>a, <1>b, ZenonT(60)
<1>4. /\ shMap'[l] = m /\ shTold'[l] = t
      /\ \A k \in ShLeases \ {l} : shMap'[k] = shMap[k] /\ shTold'[k] = shTold[k]
      /\ "fail" \notin shmay => shRows'[l] = r /\ \A k \in ShLeases \ {l} : shRows'[k] = shRows[k]
  <2>1. shMap'[l] = m /\ \A k \in ShLeases \ {l} : shMap'[k] = shMap[k]
    BY <1>a, <1>c, ZenonT(60) DEF ShareTable
  <2>2. shTold'[l] = t /\ \A k \in ShLeases \ {l} : shTold'[k] = shTold[k]
    BY <1>a, <1>c, ZenonT(60) DEF ShareTable
  <2>3. "fail" \notin shmay => shRows'[l] = r /\ \A k \in ShLeases \ {l} : shRows'[k] = shRows[k]
    BY <1>a, <1>c, ZenonT(60) DEF ShareTable
  <2> QED BY <2>1, <2>2, <2>3, ZenonT(60)
<1>5. shMap' \in ShareTable /\ shTold' \in ShareTable /\ shRows' \in ShareTable
  BY <1>a, <1>c DEF ShareTable
<1>6. SHTypeOK'
  BY <1>1, <1>5, ZenonT(60) DEF SHInv, SHTypeOK
<1>7. CallFollows' /\ NamesFollow'
  BY <1>1, ZenonT(60) DEF SHInv, CallFollows, NamesFollow, InStore
<1>8. SharesFollow'
  <2>1. shMap[l] = shTold[l] /\ ("fail" \notin shmay => shRows[l] = shMap[l])
    BY <1>1, <1>2 DEF SHInv, SharesFollow
  <2>2. shMap'[l] = shTold'[l] /\ ("fail" \notin shmay => shRows'[l] = shMap'[l])
    BY <1>b, <1>4, <2>1, ZenonT(60)
  <2> QED BY <1>1, <1>2, <1>4, <2>2, ZenonT(60) DEF SHInv, SharesFollow
<1> QED BY <1>6, <1>7, <1>8 DEF SHInv

\* A share lapses wherever it is written.
LEMMA LapseStep ==
    ASSUME SHInv, ShareLapses
    PROVE  SHInv'
<1>1. PICK l \in ShLeases, u \in Grantees :
        /\ shMap[l][u].ends
        /\ shMap' = [shMap EXCEPT ![l][u].over = TRUE]
        /\ shRows' = [shRows EXCEPT ![l][u].over = shRows[l][u].ends]
        /\ shTold' = [shTold EXCEPT ![l][u].over = shTold[l][u].ends]
        /\ UNCHANGED <<shLease, shRow, shCall, shNamed, shmay>>
  BY ZenonT(60) DEF ShareLapses
<1>2. shMap[l][u] \in Shares /\ shRows[l][u] \in Shares /\ shTold[l][u] \in Shares
  BY DEF SHInv, SHTypeOK, ShareTable
<1>3. shMap[l][u].ends = TRUE
  BY <1>1, <1>2, ZenonT(60) DEF Shares
<1>4. shLease[l].state # "gone"
  <2>1. shMap[l] = [v \in Grantees |-> NoShare] => shMap[l][u] = NoShare
    OBVIOUS
  <2>2. NoShare.ends = FALSE
    BY DEF NoShare
  <2> QED BY <1>1, <2>1, <2>2, ZenonT(60) DEF SHInv, SharesFollow
<1>5. shMap \in ShareTable /\ shRows \in ShareTable /\ shTold \in ShareTable
  BY DEF SHInv, SHTypeOK
<1>6. PICK m \in Shares, r \in Shares, t \in Shares :
        /\ m = [shMap[l][u] EXCEPT !.over = TRUE]
        /\ r = [shRows[l][u] EXCEPT !.over = shRows[l][u].ends]
        /\ t = [shTold[l][u] EXCEPT !.over = shTold[l][u].ends]
  BY <1>2, ZenonT(60) DEF Shares
<1>7. PICK hm \in [Grantees -> Shares], hr \in [Grantees -> Shares], ht \in [Grantees -> Shares] :
        hm = [shMap[l] EXCEPT ![u] = m] /\ hr = [shRows[l] EXCEPT ![u] = r] /\ ht = [shTold[l] EXCEPT ![u] = t]
  BY <1>5, ShareEdit, ZenonT(60)
<1>8. shMap' = [shMap EXCEPT ![l] = hm] /\ shRows' = [shRows EXCEPT ![l] = hr] /\ shTold' = [shTold EXCEPT ![l] = ht]
  BY <1>1, <1>6, <1>7, ZenonT(60)
<1>9. shMap' \in ShareTable /\ shRows' \in ShareTable /\ shTold' \in ShareTable
  BY <1>5, <1>8, ZenonT(60) DEF ShareTable
<1>10. /\ shMap'[l] = hm /\ shRows'[l] = hr /\ shTold'[l] = ht
      /\ \A k \in ShLeases \ {l} : shMap'[k] = shMap[k] /\ shRows'[k] = shRows[k] /\ shTold'[k] = shTold[k]
  BY <1>5, <1>8 DEF ShareTable
<1>11. SHTypeOK'
  BY <1>1, <1>9, ZenonT(60) DEF SHInv, SHTypeOK
<1>12. CallFollows' /\ NamesFollow'
  BY <1>1, ZenonT(60) DEF SHInv, CallFollows, NamesFollow, InStore
<1>13. shMap'[l] = shTold'[l] /\ ("fail" \notin shmay => shRows'[l] = shMap'[l])
  <2>1. shMap[l] = shTold[l] /\ ("fail" \notin shmay => shRows[l] = shMap[l])
    BY <1>4, ZenonT(60) DEF SHInv, SharesFollow
  <2>2. m = t /\ ("fail" \notin shmay => r = m)
    BY <1>3, <1>6, <2>1, ZenonT(60)
  <2> QED BY <1>7, <1>10, <2>1, <2>2, ZenonT(60)
<1>14. SharesFollow'
  <2> SUFFICES ASSUME NEW k \in ShLeases
               PROVE  /\ shLease'[k].state # "gone" => shMap'[k] = shTold'[k]
                      /\ shLease'[k].state = "gone" => shMap'[k] = [v \in Grantees |-> NoShare]
                      /\ "fail" \notin shmay' => shRows'[k] = shMap'[k]
    BY ZenonT(60) DEF SharesFollow
  <2>1. CASE k = l
    BY <1>1, <1>4, <1>13, <2>1, ZenonT(60)
  <2>2. CASE k # l
    <3>1. shMap'[k] = shMap[k] /\ shRows'[k] = shRows[k] /\ shTold'[k] = shTold[k]
      BY <1>10, <2>2, ZenonT(60)
    <3> QED BY <1>1, <3>1, ZenonT(60) DEF SHInv, SharesFollow
  <2> QED BY <2>1, <2>2, ZenonT(60)
<1> QED BY <1>11, <1>12, <1>14 DEF SHInv

\* A restart reads back what the rows hold.
LEMMA RestartStep ==
    ASSUME SHInv, ShRestart
    PROVE  SHInv'
<1>1. /\ "restart" \in shmay
      /\ "name" \notin shmay \/ \A l \in ShLeases : shLease[l].state # "released"
      /\ shLease' = [l \in ShLeases |->
                       IF shRow[l] = NoLease THEN [state |-> "gone", name |-> NoName]
                       ELSE [state |-> IF shLease[l].state = "released" THEN "live" ELSE shLease[l].state,
                             name |-> shRow[l]]]
      /\ shMap' = shRows /\ shCall' = NoCall
      /\ UNCHANGED <<shRow, shRows, shTold, shNamed, shmay>>
  BY ZenonT(60) DEF ShRestart, ShMay, SHInv, SHTypeOK, ShareScenario
<1>2. "fail" \notin shmay
  BY <1>1, ZenonT(60) DEF SHInv, SHTypeOK, ShareScenario
<1>3. \A l \in ShLeases :
        /\ shLease'[l].state = "gone" <=> shLease[l].state = "gone"
        /\ shLease'[l].state = IF shLease[l].state = "released" THEN "live" ELSE shLease[l].state
        /\ shLease[l].state # "gone" => shLease'[l].name = shLease[l].name
        /\ shLease[l].state = "gone" => shLease'[l].name = NoName
        /\ shLease'[l].name \in ShNames \cup {NoName}
  BY <1>1, <1>2, ZenonT(60) DEF SHInv, SHTypeOK, NamesFollow
<1>4. shLease' \in [ShLeases -> [state : ShStates, name : ShNames \cup {NoName}]]
  BY <1>1, <1>3 DEF SHInv, SHTypeOK, ShStates
<1>5. SHTypeOK'
  BY <1>1, <1>4, ZenonT(60) DEF SHInv, SHTypeOK
<1>6. CallFollows'
  BY <1>1, ZenonT(60) DEF CallFollows
<1>7. NamesFollow'
  <2>1. \A o \in ShLeases :
          /\ shLease'[o].state = "gone" <=> shRow'[o] = NoLease
          /\ shLease'[o].state # "gone" => shNamed'[o] = shLease'[o].name
          /\ "fail" \notin shmay' /\ shRow'[o] # NoLease => shRow'[o] = shLease'[o].name
          /\ "name" \notin shmay' => shLease'[o].name = NoName
    BY <1>1, <1>3, ZenonT(60) DEF SHInv, NamesFollow
  <2>2. \A k, o \in ShLeases :
          k # o /\ InStore(k)' /\ InStore(o)' /\ shLease'[k].name = shLease'[o].name =>
              shLease'[k].name = NoName
    <3> SUFFICES ASSUME NEW k \in ShLeases, NEW o \in ShLeases, k # o, InStore(k)', InStore(o)',
                        shLease'[k].name = shLease'[o].name
                 PROVE  shLease'[k].name = NoName
      BY ZenonT(60)
    <3>1. CASE "name" \notin shmay
      BY <1>1, <2>1, <3>1, ZenonT(60)
    <3>2. CASE "name" \in shmay
      <4>1. \A i \in {k, o} : shLease'[i].state = shLease[i].state
        BY <1>1, <1>3, <3>2, ZenonT(60)
      <4>2. InStore(k) /\ InStore(o)
        BY <4>1, ZenonT(60) DEF InStore
      <4>3. shLease[k].state # "gone" /\ shLease[o].state # "gone"
        BY <4>2, ZenonT(60) DEF InStore
      <4>4. shLease'[k].name = shLease[k].name /\ shLease'[o].name = shLease[o].name
        BY <1>3, <4>3, ZenonT(60)
      <4> QED BY <4>2, <4>4, ZenonT(60) DEF SHInv, NamesFollow
    <3> QED BY <3>1, <3>2
  <2> QED BY <2>1, <2>2, ZenonT(60) DEF NamesFollow
<1>8. SharesFollow'
  BY <1>1, <1>2, <1>3, ZenonT(60) DEF SHInv, SharesFollow
<1> QED BY <1>5, <1>6, <1>7, <1>8, ZenonT(60) DEF SHInv

\* Every step keeps the invariant.
LEMMA SharingStep ==
    ASSUME SHInv, [SHNext]_shvars PROVE SHInv'
<1>1. ASSUME UNCHANGED shvars PROVE SHInv'
  BY <1>1, ZenonT(60) DEF shvars, SHInv, SHTypeOK, CallFollows, NamesFollow, SharesFollow, InStore
<1> QED
  BY <1>1, NameStep, StateSteps, MarkStep, GoneStep, LookupStep, CommitStep, LapseStep, RestartStep, ZenonT(60)
     DEF SHNext, SetHolder, SetComment

\* What follows from the invariant for names and shares.
LEMMA SharingHolds ==
    ASSUME SHInv PROVE NamesAndSharesHold
<1>1. NameLeadsToOne
  <2> SUFFICES ASSUME NEW n \in ShNames
               PROVE  Cardinality(ByName(n)) <= 1 /\ \A l \in ByName(n) : shNamed[l] = n
    BY DEF NameLeadsToOne
  <2>1. \A l \in ByName(n) : shNamed[l] = n
    BY ZenonT(60) DEF ByName, InStore, SHInv, NamesFollow
  <2>2. n # NoName
    BY SharingAssumption
  <2>3. \A k, l \in ByName(n) : k = l
    BY <2>2, ZenonT(60) DEF ByName, SHInv, NamesFollow
  <2>   ByName(n) = {} \/ \E l : ByName(n) = {l}
    BY <2>3, ZenonT(60)
  <2>   Cardinality(ByName(n)) = 0 \/ Cardinality(ByName(n)) = 1
    BY FS_EmptySet, FS_Singleton
  <2> QED BY <2>1
<1>2. SharedAsTold
  BY ZenonT(60) DEF SharedAsTold, SharedWith, ShareOpens, InStore, SHInv, SharesFollow, Grantees
<1>   HeldSharesAreListed
  <2> SUFFICES ASSUME NEW l \in ShLeases, NEW u \in Grantees, shMap[l][u] # NoShare, shLease[l].state # "released"
               PROVE  <<l, u>> \in SharesListed
    BY ZenonT(60) DEF HeldSharesAreListed
  <2>   shLease[l].state # "gone"
    BY DEF SHInv, SharesFollow
  <2> QED BY ZenonT(60) DEF SharesListed, InStore
<1> QED BY <1>1, <1>2, ZenonT(60) DEF NamesAndSharesHold

\* Where no scenario opens one of the races the code leaves open, the invariant
\* of names and shares always holds (setName, GrantShare, RevokeShare, release).
THEOREM SharingInvariance ==
    ASSUME \A may \in ShScenarios : ShareScenario(may)
    PROVE  SHSpec => []SHInv
<1>1. SHInit => SHInv
  BY SharingInit
<1>2. SHInv /\ [SHNext]_shvars => SHInv'
  BY SharingStep
<1> QED BY <1>1, <1>2, PTL DEF SHSpec

\* Names and shares mean the same in memory, in the rows and to the user who
\* asks, for every number of leases, users, names and calls.
THEOREM SharesAlwaysHold ==
    ASSUME \A may \in ShScenarios : ShareScenario(may)
    PROVE  SHSpec => []NamesAndSharesHold
<1>1. SHInv => NamesAndSharesHold
  BY SharingHolds
<1> QED BY <1>1, SharingInvariance, PTL

-----------------------------------------------------------------------------
(***************************************************************************)
(* A fork makes all its children or none, and leaves the source as it      *)
(* found it.                                                               *)
(***************************************************************************)

FkPcs == {"idle", "quota", "checkpoint", "disk", "memory", "create", "stage", "commit",
          "rollback", "finish", "done", "failed"}
ForkRecord ==
    [op : {"none", "clone", "fork"}, pc : FkPcs, count : Nat, child : Nat, made : SUBSET FkChildren]
SourceRecord == [busy : BOOLEAN, released : BOOLEAN, token : BOOLEAN]

\* A race the code leaves open is out: a child paused before the fork has
\* answered gets its row back from the pause.
ForkScenario(may) == "early" \notin may

\* The state has the shape the code gives it.
FKTypeOK ==
    /\ fk \in ForkRecord
    /\ fkSrc \in SourceRecord
    /\ fkStore \in [FkChildren -> {"none", "live", "pausing", "paused", "dropped", "ended"}]
    /\ fkRows \subseteq FkChildren /\ fkVM \subseteq FkChildren
    /\ ForkScenario(fkmay)

\* The child made but not yet in the store, or given up with its token unstaged.
Unstored == IF fk.pc \in {"stage", "commit", "rollback", "failed"} THEN {fk.child} ELSE {}

\* The request makes its children one after the other, none before its
\* reservations, and has none left when it failed; only a fork that stages tokens
\* gives one up.
ChildrenInTurn ==
    /\ fk.pc # "idle" => fk.count \in FkChildren /\ fk.op \in {"clone", "fork"}
    /\ fk.pc \in {"create", "stage", "commit"} =>
          fk.child \in FkChildren /\ fk.child <= fk.count /\ \A c \in fk.made : c < fk.child
    /\ fk.pc = "stage" => fkSrc.token
    /\ fk.pc \in {"rollback", "failed"} /\ fk.child # NoChild => fk.op = "fork" /\ fkSrc.token
    /\ fk.pc \in {"idle", "quota", "checkpoint", "disk", "memory", "failed"} => fk.made = {}

\* A mark belongs to the child in hand.  Until the fork has answered, whatever
\* exists besides is known to the rollback.
MadeIsKnown ==
    /\ fkCreating \subseteq Unstored
    /\ fk.pc # "done" =>
        /\ fkVMRow \subseteq fk.made \cup Unstored
        /\ fkMemo \subseteq fk.made \cup Unstored
        /\ \A c \in FkChildren : fkStore[c] = "none" \/ (fkStore[c] = "live" /\ c \in fk.made)

\* The sandbox of a running child, and of the child in hand, is there: the mark
\* keeps the sweep away from the latter.
ChildrenRun ==
    /\ \A c \in FkChildren : fkStore[c] = "live" => c \in fkVM
    /\ fk.pc \in {"stage", "commit"} => fk.child \in fkVM /\ fk.child \in fkCreating

\* A row has its lease; no child leaves the store unmarked in mid-pause; a
\* deleted owner's store is empty; a failed request holds nothing.
ForkLeavesRight ==
    /\ \A c \in fkRows : fkStore[c] \in {"live", "pausing", "paused"}
    /\ \A c \in FkChildren : fkStore[c] # "dropped"
    /\ fkOwner = "gone" => \A c \in FkChildren : fkStore[c] \notin {"live", "pausing", "paused"}
    /\ fk.pc = "failed" => fkHeld = NothingHeld /\ fkSrc.busy = FALSE

\* The inductive invariant of the fork.
FKInv == FKTypeOK /\ ChildrenInTurn /\ MadeIsKnown /\ ChildrenRun /\ ForkLeavesRight

-----------------------------------------------------------------------------
\* The invariant holds before the request.
LEMMA ForkInit ==
    ASSUME \A may \in FkScenarios : ForkScenario(may), FKInit
    PROVE  FKInv
<1>1. FKTypeOK
  <2>1. fkSrc \in SourceRecord
    <3>1. ("token" \in fkmay) \in BOOLEAN
      OBVIOUS
    <3> QED BY <3>1, ZenonT(60) DEF FKInit, SourceRecord
  <2>2. fk \in ForkRecord
    BY ZenonT(60) DEF FKInit, ForkRecord, FkPcs, NoChild
  <2> QED BY <2>1, <2>2, ZenonT(60) DEF FKInit, FKTypeOK
<1>2. ChildrenInTurn /\ MadeIsKnown
  BY ZenonT(60) DEF FKInit, ChildrenInTurn, MadeIsKnown, Unstored
<1>3. ForkLeavesRight /\ ChildrenRun
  BY DEF FKInit, ForkLeavesRight, ChildrenRun
<1> QED BY <1>1, <1>2, <1>3, ZenonT(60) DEF FKInv

\* A step of the request that makes and drops no child.
LEMMA ForkRequestStep ==
    ASSUME FKInv, fk' \in ForkRecord, fkSrc' \in SourceRecord, fk'.made = fk.made,
           fk'.pc # "done", fk.pc # "done", ChildrenInTurn',
           fk'.pc \in {"stage", "commit"} => fk.pc \in {"stage", "commit"} /\ fk'.child = fk.child,
           Unstored \subseteq Unstored',
           fk'.pc = "failed" => fkHeld' = NothingHeld /\ fkSrc'.busy = FALSE,
           UNCHANGED <<fkStore, fkRows, fkVM, fkVMRow, fkCreating, fkMemo, fkOwner, fkmay>>
    PROVE  FKInv'
<1>1. FKTypeOK'
  BY ZenonT(60) DEF FKInv, FKTypeOK
<1>2. MadeIsKnown'
  BY ZenonT(60) DEF FKInv, MadeIsKnown
<1>3. ChildrenRun'
  BY ZenonT(60) DEF FKInv, ChildrenRun
<1>   ForkLeavesRight'
  BY ZenonT(60) DEF FKInv, ForkLeavesRight
<1> QED BY <1>1, <1>2, <1>3, ZenonT(60) DEF FKInv

\* A refusal before the first child gives everything back.
LEMMA RefusedStep ==
    ASSUME FKInv, fk.pc \in {"quota", "checkpoint", "disk", "memory"},
           fk' = [fk EXCEPT !.pc = "failed", !.child = NoChild],
           fkSrc' = [fkSrc EXCEPT !.busy = FALSE], fkHeld' = NothingHeld,
           UNCHANGED <<fkStore, fkRows, fkVM, fkVMRow, fkCreating, fkMemo, fkOwner, fkmay>>
    PROVE  FKInv'
<1>1. /\ fk' \in ForkRecord /\ fk'.made = fk.made /\ fk'.pc = "failed" /\ fk'.count = fk.count
      /\ fk'.op = fk.op /\ fk'.child = NoChild
  BY ZenonT(60) DEF FKInv, FKTypeOK, ForkRecord, FkPcs, NoChild
<1>2. fkSrc' \in SourceRecord /\ fkSrc'.busy = FALSE
  BY ZenonT(60) DEF FKInv, FKTypeOK, SourceRecord
<1>3. ChildrenInTurn'
  BY <1>1, ZenonT(60) DEF FKInv, ChildrenInTurn
<1>   Unstored \subseteq Unstored' /\ fk.pc # "done"
  BY ZenonT(60) DEF Unstored
<1> QED BY <1>1, <1>2, <1>3, ForkRequestStep, ZenonT(60)

\* The end of a rollback gives everything back.
LEMMA RolledBackStep ==
    ASSUME FKInv, ForkRolledBack
    PROVE  FKInv'
<1>0. /\ fk.pc = "rollback" /\ fk.made = {} /\ fk' = [fk EXCEPT !.pc = "failed"]
      /\ fkSrc' = [fkSrc EXCEPT !.busy = FALSE] /\ fkHeld' = NothingHeld
      /\ UNCHANGED <<fkStore, fkRows, fkVM, fkVMRow, fkCreating, fkMemo, fkOwner, fkmay>>
  BY ZenonT(60) DEF ForkRolledBack, HeldAfterRollback
<1>1. /\ fk' \in ForkRecord /\ fk'.made = fk.made /\ fk'.pc = "failed" /\ fk'.count = fk.count
      /\ fk'.op = fk.op /\ fk'.child = fk.child
  BY <1>0, ZenonT(60) DEF FKInv, FKTypeOK, ForkRecord, FkPcs
<1>2. fkSrc' \in SourceRecord /\ fkSrc'.busy = FALSE /\ fkSrc'.token = fkSrc.token
  BY <1>0, ZenonT(60) DEF FKInv, FKTypeOK, SourceRecord
<1>3. ChildrenInTurn'
  BY <1>0, <1>1, <1>2, ZenonT(60) DEF FKInv, ChildrenInTurn
<1>4. Unstored \subseteq Unstored'
  BY <1>0, <1>1, ZenonT(60) DEF Unstored
<1>5. fk.pc # "done" /\ fk'.pc # "done" /\ fk'.pc \notin {"stage", "commit"}
  BY <1>0, <1>1, ZenonT(60)
<1> QED BY <1>0, <1>1, <1>2, <1>3, <1>4, <1>5, ForkRequestStep, ZenonT(60)

\* The steps of the request up to its first child, and those between two children
\* that only move it on.
LEMMA ReserveSteps ==
    ASSUME FKInv,
           \/ ForkBegin \/ ForkReserve \/ ForkRefuse \/ ForkCheckpoint \/ ForkDisk \/ ForkMemory
           \/ ForkStage
    PROVE  FKInv'
<1>0. fk \in ForkRecord /\ fkSrc \in SourceRecord /\ ChildrenInTurn
  BY DEF FKInv, FKTypeOK
<1>1. ASSUME NEW p \in FkPcs, NEW q \in FkPcs, fk.pc = p, fk' = [fk EXCEPT !.pc = q],
             <<p, q>> \in {<<"quota", "checkpoint">>, <<"checkpoint", "disk">>, <<"disk", "memory">>,
                           <<"stage", "commit">>},
             fkSrc' = fkSrc,
             UNCHANGED <<fkStore, fkRows, fkVM, fkVMRow, fkCreating, fkMemo, fkOwner, fkmay>>
      PROVE  FKInv'
  <2> USE <1>1
  <2>1. /\ fk' \in ForkRecord /\ fk'.made = fk.made /\ fk'.pc = q /\ fk'.count = fk.count
        /\ fk'.child = fk.child /\ fk'.op = fk.op
    BY <1>0 DEF ForkRecord
  <2>2. /\ q \notin {"done", "idle", "failed", "create", "stage", "rollback"} /\ p # "done" /\ p # "idle"
        /\ q = "commit" <=> p = "stage"
        /\ q \in {"quota", "checkpoint", "disk", "memory"} => p \in {"quota", "checkpoint", "disk"}
        /\ p \notin {"commit", "rollback", "failed"}
    OBVIOUS
  <2>3. ChildrenInTurn'
    BY <1>0, <2>1, <2>2, ZenonT(60) DEF ChildrenInTurn
  <2>4. Unstored \subseteq Unstored'
    BY <2>1, <2>2, ZenonT(60) DEF Unstored
  <2> QED BY <1>0, <2>1, <2>2, <2>3, <2>4, ForkRequestStep, ZenonT(60)
<1>2. CASE ForkBegin
  <2>1. PICK n \in ForkCount :
           fk' = [fk EXCEPT !.op = IF FkMay("clone") THEN "clone" ELSE "fork", !.pc = "quota", !.count = n]
    BY <1>2, ZenonT(60) DEF ForkBegin
  <2>2. n \in FkChildren /\ n \in Nat
    BY ForkAssumption DEF ForkCount
  <2>3. /\ fk' \in ForkRecord /\ fk'.made = fk.made /\ fk'.pc = "quota" /\ fk'.count = n
        /\ fk'.op \in {"clone", "fork"}
    BY <1>0, <2>1, <2>2, ZenonT(60) DEF ForkRecord, FkPcs
  <2>   /\ fk.pc = "idle" /\ fkSrc' = [fkSrc EXCEPT !.busy = TRUE]
        /\ UNCHANGED <<fkStore, fkRows, fkVM, fkVMRow, fkCreating, fkMemo, fkOwner, fkmay>>
    BY <1>2, ZenonT(60) DEF ForkBegin
  <2>5. fkSrc' \in SourceRecord
    BY <1>0, ZenonT(60) DEF SourceRecord
  <2>6. Unstored = {} /\ fk.made = {}
    BY <1>0, ZenonT(60) DEF ChildrenInTurn, Unstored
  <2>7. ChildrenInTurn'
    BY <2>2, <2>3, <2>6, ZenonT(60) DEF ChildrenInTurn
  <2>8. Unstored \subseteq Unstored'
    BY <2>6, ZenonT(60)
  <2> QED BY <2>3, <2>5, <2>7, <2>8, ForkRequestStep, ZenonT(60)
<1>3. CASE ForkReserve
  <2> USE <1>3
  <2>1. CASE fkOwner # "live"
    BY <2>1, RefusedStep, ZenonT(60) DEF ForkReserve, Refused
  <2>2. CASE fkOwner = "live"
    BY <1>1, <2>2 DEF ForkReserve, FkPcs
  <2> QED BY <2>1, <2>2
<1>4. CASE ForkRefuse
  BY <1>4, RefusedStep, ZenonT(60) DEF ForkRefuse, Refused
<1>5. CASE ForkCheckpoint
  BY <1>1, <1>5 DEF ForkCheckpoint, FkPcs
<1>6. CASE ForkDisk
  BY <1>1, <1>6 DEF ForkDisk, FkPcs
<1>7. CASE ForkMemory
  <2>   /\ fk.pc = "memory" /\ fk' = [fk EXCEPT !.pc = "create", !.child = 1] /\ UNCHANGED fkSrc
        /\ UNCHANGED <<fkStore, fkRows, fkVM, fkVMRow, fkCreating, fkMemo, fkOwner, fkmay>>
    BY <1>7, ZenonT(60) DEF ForkMemory
  <2>2. /\ fk' \in ForkRecord /\ fk'.made = fk.made /\ fk'.pc = "create" /\ fk'.count = fk.count
        /\ fk'.child = 1 /\ fk'.op = fk.op
    BY <1>0, ZenonT(60) DEF ForkRecord, FkPcs
  <2>3. fk.count \in FkChildren /\ 1 \in FkChildren /\ 1 <= fk.count
    BY <1>0, ForkAssumption DEF ChildrenInTurn
  <2>4. fk.made = {} /\ fk.op \in {"clone", "fork"}
    BY <1>0, ZenonT(60) DEF ChildrenInTurn
  <2>5. ChildrenInTurn'
    BY <2>2, <2>3, <2>4, ZenonT(60) DEF ChildrenInTurn
  <2>6. Unstored \subseteq Unstored'
    BY ZenonT(60) DEF Unstored
  <2> QED BY <1>0, <2>2, <2>5, <2>6, ForkRequestStep, ZenonT(60)
<1>9. CASE ForkStage
  BY <1>1, <1>9 DEF ForkStage, FkPcs
<1> QED BY <1>2, <1>3, <1>4, <1>5, <1>6, <1>7, <1>9, ZenonT(60)

\* A create that fails leaves at most a sandbox that nobody marks.
LEMMA CreateFailsStep ==
    ASSUME FKInv, ForkCreateFails PROVE FKInv'
<1>0. /\ fk.pc = "create" /\ fk' = [fk EXCEPT !.pc = "rollback", !.child = NoChild]
      /\ fkVM' = fkVM \/ fkVM' = fkVM \cup {fk.child}
      /\ UNCHANGED <<fkSrc, fkStore, fkRows, fkVMRow, fkCreating, fkMemo, fkHeld, fkOwner, fkmay>>
  BY ZenonT(60) DEF ForkCreateFails
<1>1. /\ fk' \in ForkRecord /\ fk'.made = fk.made /\ fk'.pc = "rollback" /\ fk'.count = fk.count
      /\ fk'.op = fk.op /\ fk'.child = NoChild
  BY <1>0, ZenonT(60) DEF FKInv, FKTypeOK, ForkRecord, FkPcs, NoChild
<1>2. fkVM \subseteq fkVM' /\ fkVM' \subseteq FkChildren
  BY <1>0, ZenonT(60) DEF FKInv, FKTypeOK, ChildrenInTurn
<1>3. Unstored = {} /\ Unstored \subseteq Unstored'
  BY <1>0, ZenonT(60) DEF Unstored
<1>4. FKTypeOK'
  BY <1>0, <1>1, <1>2, ZenonT(60) DEF FKInv, FKTypeOK
<1>5. ChildrenInTurn'
  BY <1>0, <1>1, ZenonT(60) DEF FKInv, ChildrenInTurn
<1>6. MadeIsKnown'
  BY <1>0, <1>1, <1>3, ZenonT(60) DEF FKInv, MadeIsKnown
<1>7. ChildrenRun' /\ ForkLeavesRight'
  BY <1>0, <1>1, <1>2, ZenonT(60) DEF FKInv, ChildrenRun, ForkLeavesRight
<1> QED BY <1>4, <1>5, <1>6, <1>7, ZenonT(60) DEF FKInv

\* A child is created, and the fork knows it.
LEMMA CreateStep ==
    ASSUME FKInv, ForkCreate PROVE FKInv'
<1>0. /\ fk.pc = "create" /\ fk' = [fk EXCEPT !.pc = IF fkSrc.token THEN "stage" ELSE "commit"]
      /\ fkVM' = fkVM \cup {fk.child} /\ fkVMRow' = fkVMRow \cup {fk.child}
      /\ fkCreating' = fkCreating \cup {fk.child} /\ fkMemo' = fkMemo \cup {fk.child}
      /\ UNCHANGED <<fkSrc, fkStore, fkRows, fkHeld, fkOwner, fkmay>>
  BY ZenonT(60) DEF ForkCreate
<1>1. /\ fk' \in ForkRecord /\ fk'.made = fk.made /\ fk'.pc \in {"stage", "commit"} /\ fk'.count = fk.count
      /\ fk'.child = fk.child /\ fk'.op = fk.op /\ (fk'.pc = "stage" => fkSrc.token)
  BY <1>0 DEF FKInv, FKTypeOK, ForkRecord, FkPcs
<1>2. fk.child \in FkChildren
  BY <1>0, ZenonT(60) DEF FKInv, ChildrenInTurn
<1>3. Unstored = {} /\ Unstored' = {fk.child}
  BY <1>0, <1>1, ZenonT(60) DEF Unstored
<1>4. FKTypeOK'
  BY <1>0, <1>1, <1>2, ZenonT(60) DEF FKInv, FKTypeOK
<1>5. ChildrenInTurn'
  BY <1>0, <1>1, ZenonT(60) DEF FKInv, ChildrenInTurn
<1>6. MadeIsKnown'
  <2>1. fkCreating' \subseteq {fk.child}
    BY <1>0, <1>3, ZenonT(60) DEF FKInv, MadeIsKnown
  <2>2. fkVMRow' \subseteq fk.made \cup {fk.child} /\ fkMemo' \subseteq fk.made \cup {fk.child}
    BY <1>0, <1>3, ZenonT(60) DEF FKInv, MadeIsKnown
  <2> QED BY <1>0, <1>1, <1>3, <2>1, <2>2, ZenonT(60) DEF FKInv, MadeIsKnown
<1>7. ChildrenRun'
  <2>1. fk.child \in fkVM' /\ fk.child \in fkCreating'
    BY <1>0, ZenonT(60)
  <2>2. fkVM \subseteq fkVM' /\ fkStore' = fkStore
    BY <1>0, ZenonT(60)
  <2> QED BY <1>1, <2>1, <2>2, ZenonT(60) DEF FKInv, ChildrenRun
<1>8. ForkLeavesRight'
  <2>1. fk'.pc # "failed"
    BY <1>1, ZenonT(60)
  <2> QED BY <1>0, <2>1, ZenonT(60) DEF FKInv, ForkLeavesRight
<1> QED BY <1>4, <1>5, <1>6, <1>7, <1>8, ZenonT(60) DEF FKInv

\* What dropping a child's sandbox does, whether or not the delete succeeds.
LEMMA DroppedIs ==
    ASSUME NEW c, ChildDropped(c)
    PROVE  /\ fkVM \ {c} \subseteq fkVM' /\ fkVM' \subseteq fkVM
           /\ fkVMRow' = fkVMRow \ {c} /\ fkCreating' = fkCreating \ {c} /\ fkMemo' = fkMemo \ {c}
  BY ZenonT(60) DEF ChildDropped, DeleteIgnored

\* The child in hand is not in the store yet.
LEMMA ChildNotStored ==
    ASSUME FKInv, fk.pc \in {"stage", "commit"}
    PROVE  fk.child \in FkChildren /\ fkStore[fk.child] = "none"
<1>1. fk.child \in Nat /\ fk.child \in FkChildren /\ \A c \in fk.made : c < fk.child
  BY ZenonT(60) DEF FKInv, FKTypeOK, ForkRecord, ChildrenInTurn
<1>2. fk.child \notin fk.made
  BY <1>1
<1> QED BY <1>1, <1>2, ZenonT(60) DEF FKInv, MadeIsKnown

\* The child in hand is dropped and the request turns back.
LEMMA TurnBack ==
    ASSUME FKInv, fk.pc \in {"stage", "commit"}, ChildDropped(fk.child),
           fk' = [fk EXCEPT !.pc = "rollback", !.child = NoChild],
           UNCHANGED <<fkSrc, fkStore, fkRows, fkHeld, fkOwner, fkmay>>
    PROVE  FKInv'
<1>1. /\ fk' \in ForkRecord /\ fk'.made = fk.made /\ fk'.pc = "rollback" /\ fk'.count = fk.count
      /\ fk'.op = fk.op /\ fk'.child = NoChild
  BY ZenonT(60) DEF FKInv, FKTypeOK, ForkRecord, FkPcs, NoChild
<1>2. Unstored = {fk.child}
  BY ZenonT(60) DEF Unstored
<1>3. FKTypeOK'
  BY <1>1, DroppedIs, ZenonT(60) DEF FKInv, FKTypeOK
<1>4. ChildrenInTurn'
  BY <1>1, ZenonT(60) DEF FKInv, ChildrenInTurn
<1>5. fkCreating' = {} /\ fkVMRow' \subseteq fk.made /\ fkMemo' \subseteq fk.made
  <2>1. /\ fkCreating \subseteq {fk.child}
        /\ fkVMRow \subseteq fk.made \cup {fk.child} /\ fkMemo \subseteq fk.made \cup {fk.child}
    BY <1>2, ZenonT(60) DEF FKInv, MadeIsKnown
  <2>2. fkVMRow' = fkVMRow \ {fk.child} /\ fkCreating' = fkCreating \ {fk.child} /\ fkMemo' = fkMemo \ {fk.child}
    BY DroppedIs, ZenonT(60)
  <2> QED BY <2>1, <2>2, ZenonT(60)
<1>6. MadeIsKnown'
  BY <1>1, <1>5, ZenonT(60) DEF FKInv, MadeIsKnown
<1>7. ChildrenRun'
  <2>1. fk.child \in FkChildren /\ fkStore[fk.child] # "live"
    BY ChildNotStored, ZenonT(60)
  <2> QED BY <1>1, <2>1, DroppedIs, ZenonT(60) DEF FKInv, ChildrenRun
<1>8. ForkLeavesRight'
  BY <1>1, ZenonT(60) DEF FKInv, ForkLeavesRight
<1> QED BY <1>3, <1>4, <1>6, <1>7, <1>8, ZenonT(60) DEF FKInv

\* A child enters the store with its row, unless its owner was deleted.
LEMMA CommitFork ==
    ASSUME FKInv, ForkCommit PROVE FKInv'
<1>1. CASE OwnerGone
  BY <1>1, TurnBack, ZenonT(60) DEF ForkCommit
<1>2. CASE ~OwnerGone
  <2> DEFINE c == fk.child
             last == c = fk.count
  <2>0. fk \in ForkRecord /\ fk.pc = "commit" /\ c \in FkChildren /\ fk.count \in FkChildren /\ c <= fk.count
    BY ZenonT(60) DEF FKInv, FKTypeOK, ChildrenInTurn, ForkCommit
  <2>1. /\ fkOwner = "live"
        /\ fkStore' = [fkStore EXCEPT ![c] = "live"] /\ fkRows' = fkRows \cup {c}
        /\ fkCreating' = fkCreating \ {c}
        /\ UNCHANGED <<fkVM, fkVMRow, fkMemo, fkSrc, fkHeld, fkOwner, fkmay>>
    BY <1>2, ZenonT(60) DEF ForkCommit, OwnerGone
  <2>2. fk' = [fk EXCEPT !.made = fk.made \cup {c}, !.pc = IF last THEN "finish" ELSE "create",
                         !.child = IF last THEN NoChild ELSE c + 1]
    BY <1>2, ZenonT(60) DEF ForkCommit
  <2>3. /\ fk' \in ForkRecord /\ fk'.made = fk.made \cup {c} /\ fk'.count = fk.count
        /\ fk'.pc \in {"finish", "create"}
        /\ fk'.pc = "create" => fk'.child = c + 1 /\ c # fk.count
    <3>1. PICK q \in {"finish", "create"}, k \in Nat :
             /\ fk' = [fk EXCEPT !.made = fk.made \cup {c}, !.pc = q, !.child = k]
             /\ q = "create" => k = c + 1 /\ c # fk.count
      <4>1. c \in Nat /\ c + 1 \in Nat /\ NoChild \in Nat
        <5>1. c \in Nat
          BY <2>0, ZenonT(60) DEF ForkRecord
        <5> HIDE DEF c
        <5> QED BY <5>1 DEF NoChild
      <4>2. CASE last
        BY <2>2, <4>1, <4>2, ZenonT(60)
      <4>3. CASE ~last
        BY <2>2, <4>1, <4>3, ZenonT(60)
      <4> QED BY <4>2, <4>3, ZenonT(60)
    <3> QED BY <2>0, <3>1, ZenonT(60) DEF ForkRecord, FkPcs
  <2>4. c # fk.count => c + 1 \in FkChildren /\ c + 1 <= fk.count
    <3>1. c \in Nat \ {0} /\ fk.count \in Nat \ {0}
      BY <2>0, ForkAssumption, ZenonT(60)
    <3>2. c # fk.count => c + 1 <= fk.count /\ c + 1 \in 1..fk.count
      BY <2>0, <3>1
    <3> QED BY <2>0, <3>2, ForkAssumption, ZenonT(60)
  <2>5. Unstored = {c} /\ Unstored' = {}
    BY <2>0, <2>3, ZenonT(60) DEF Unstored
  <2>6. fkStore'[c] = "live" /\ \A d \in FkChildren \ {c} : fkStore'[d] = fkStore[d]
    BY <2>0, <2>1, ZenonT(60) DEF FKInv, FKTypeOK
  <2>a. c \in fkVM /\ \A d \in fk.made : d < c
    BY <2>0, ZenonT(60) DEF FKInv, ChildrenRun, ChildrenInTurn
  <2>o. fk'.op = fk.op /\ fk.op \in {"clone", "fork"}
    BY <2>0, <2>2, ZenonT(60) DEF ForkRecord, FKInv, ChildrenInTurn
  <2>b. \A d \in fk'.made : d < c + 1
    <3>1. c \in Nat /\ \A d \in fk.made : d \in Nat
      BY <2>0, ForkAssumption, ZenonT(60) DEF ForkRecord
    <3> HIDE DEF c
    <3> QED BY <2>3, <2>a, <3>1
  <2> HIDE DEF c, last
  <2>7. FKTypeOK'
    BY <2>0, <2>1, <2>3, ZenonT(60) DEF FKInv, FKTypeOK
  <2>8. ChildrenInTurn'
    BY <2>0, <2>3, <2>4, <2>b, <2>o, ZenonT(60) DEF ChildrenInTurn
  <2>9. MadeIsKnown'
    <3>1. fkCreating' = {}
      BY <2>1, <2>5, ZenonT(60) DEF FKInv, MadeIsKnown
    <3> QED BY <2>0, <2>1, <2>3, <2>5, <2>6, <3>1, ZenonT(60) DEF FKInv, MadeIsKnown
  <2>10. ForkLeavesRight'
    BY <2>0, <2>1, <2>3, <2>6, ZenonT(60) DEF FKInv, FKTypeOK, ForkLeavesRight
  <2>11. ChildrenRun'
    BY <2>0, <2>1, <2>3, <2>6, <2>a, ZenonT(60) DEF FKInv, ChildrenRun
  <2> QED BY <2>7, <2>8, <2>9, <2>10, <2>11, ZenonT(60) DEF FKInv
<1> QED BY <1>1, <1>2

\* A child that cannot be given its token: a fork gives it up.
LEMMA StageFailsStep ==
    ASSUME FKInv, ForkStageFails PROVE FKInv'
<1>1. CASE fk.op = "clone"
  BY <1>1, TurnBack, ZenonT(60) DEF ForkStageFails
<1>2. CASE fk.op # "clone"
  <2>0. /\ fk.pc = "stage" /\ fk' = [fk EXCEPT !.pc = "rollback"]
        /\ UNCHANGED <<fkVM, fkVMRow, fkCreating, fkMemo, fkSrc, fkStore, fkRows, fkHeld, fkOwner, fkmay>>
    BY <1>2, ZenonT(60) DEF ForkStageFails
  <2>1. /\ fk' \in ForkRecord /\ fk'.made = fk.made /\ fk'.pc = "rollback" /\ fk'.count = fk.count
        /\ fk'.op = fk.op /\ fk'.child = fk.child
    BY <2>0, ZenonT(60) DEF FKInv, FKTypeOK, ForkRecord, FkPcs
  <2>2. fk.op = "fork" /\ fkSrc.token /\ fk.count \in FkChildren
    BY <1>2, <2>0, ZenonT(60) DEF FKInv, ChildrenInTurn
  <2>3. ChildrenInTurn'
    BY <2>0, <2>1, <2>2, ZenonT(60) DEF ChildrenInTurn
  <2>4. Unstored \subseteq Unstored'
    BY <2>0, <2>1, ZenonT(60) DEF Unstored
  <2>5. fkSrc \in SourceRecord /\ fk'.pc \notin {"stage", "commit", "done", "failed"} /\ fk.pc # "done"
    BY <2>0, <2>1, ZenonT(60) DEF FKInv, FKTypeOK
  <2> QED BY <2>0, <2>1, <2>3, <2>4, <2>5, ForkRequestStep, ZenonT(60)
<1> QED BY <1>1, <1>2

\* The undoing of a child.
LEMMA RollbackStep ==
    ASSUME FKInv, ForkRollback PROVE FKInv'
<1>1. PICK c \in fk.made :
        /\ ChildDropped(c) /\ fkRows' = fkRows \ {c} /\ fk' = [fk EXCEPT !.made = fk.made \ {c}]
        /\ fkStore' = [fkStore EXCEPT ![c] = IF fkStore[c] = "pausing" THEN "dropped" ELSE "none"]
  BY ZenonT(60) DEF ForkRollback, RollbackRows
<1>2. fk.pc = "rollback" /\ UNCHANGED <<fkSrc, fkHeld, fkOwner, fkmay>>
  BY ZenonT(60) DEF ForkRollback
<1>3. c \in FkChildren /\ fkStore[c] # "pausing"
  BY <1>2 DEF FKInv, FKTypeOK, ForkRecord, MadeIsKnown
<1>4. fkStore'[c] = "none" /\ \A d \in FkChildren \ {c} : fkStore'[d] = fkStore[d]
  BY <1>1, <1>3 DEF FKInv, FKTypeOK
<1>5. /\ fk' \in ForkRecord /\ fk'.made = fk.made \ {c} /\ fk'.pc = "rollback" /\ fk'.count = fk.count
      /\ fk'.op = fk.op /\ fk'.child = fk.child
  BY <1>1, <1>2 DEF FKInv, FKTypeOK, ForkRecord
<1>6. Unstored' = Unstored
  BY <1>2, <1>5, ZenonT(60) DEF Unstored
<1>d. /\ fkVM \ {c} \subseteq fkVM' /\ fkVM' \subseteq fkVM
      /\ fkVMRow' = fkVMRow \ {c} /\ fkCreating' = fkCreating \ {c} /\ fkMemo' = fkMemo \ {c}
  BY <1>1, DroppedIs, ZenonT(60)
<1>7. FKTypeOK'
  <2>1. fkStore' \in [FkChildren -> {"none", "live", "pausing", "paused", "dropped", "ended"}]
    BY <1>1, <1>3, ZenonT(60) DEF FKInv, FKTypeOK
  <2> QED BY <1>1, <1>2, <1>5, <1>d, <2>1, ZenonT(60) DEF FKInv, FKTypeOK
<1>8. ChildrenInTurn'
  BY <1>2, <1>5, ZenonT(60) DEF FKInv, ChildrenInTurn
<1>9. MadeIsKnown'
  <2>1. /\ fkCreating' \subseteq Unstored' /\ fkVMRow' \subseteq fk'.made \cup Unstored'
        /\ fkMemo' \subseteq fk'.made \cup Unstored'
    BY <1>2, <1>5, <1>6, <1>d, ZenonT(60) DEF FKInv, MadeIsKnown
  <2> QED BY <1>2, <1>4, <1>5, <2>1, ZenonT(60) DEF FKInv, MadeIsKnown
<1>10. ChildrenRun'
  BY <1>4, <1>5, <1>d, ZenonT(60) DEF FKInv, ChildrenRun
<1>11. ForkLeavesRight'
  BY <1>1, <1>2, <1>3, <1>4, <1>5, ZenonT(60) DEF FKInv, FKTypeOK, ForkLeavesRight
<1> QED BY <1>7, <1>8, <1>9, <1>10, <1>11, ZenonT(60) DEF FKInv

\* The request answers with its children.
LEMMA FinishFork ==
    ASSUME FKInv, ForkFinish PROVE FKInv'
<1>   /\ fk.pc = "finish" /\ fk' = [fk EXCEPT !.pc = "done"] /\ fkSrc' = [fkSrc EXCEPT !.busy = FALSE]
      /\ UNCHANGED <<fkStore, fkRows, fkVM, fkVMRow, fkCreating, fkMemo, fkOwner, fkmay>>
  BY ZenonT(60) DEF ForkFinish
<1>1. /\ fk' \in ForkRecord /\ fk'.pc = "done" /\ fk'.count = fk.count /\ fkSrc' \in SourceRecord
      /\ fk'.op = fk.op
  BY ZenonT(60) DEF FKInv, FKTypeOK, ForkRecord, FkPcs, SourceRecord
<1>2. Unstored = {} /\ Unstored' = {}
  BY <1>1, ZenonT(60) DEF Unstored
<1>3. FKTypeOK' /\ ChildrenInTurn' /\ MadeIsKnown'
  BY <1>1, <1>2, ZenonT(60) DEF FKInv, FKTypeOK, ChildrenInTurn, MadeIsKnown
<1>4. ChildrenRun' /\ ForkLeavesRight'
  BY <1>1, ZenonT(60) DEF FKInv, ChildrenRun, ForkLeavesRight
<1> QED BY <1>3, <1>4, ZenonT(60) DEF FKInv

\* What happens meanwhile to the children and the source.
LEMMA MeanwhileSteps ==
    ASSUME FKInv,
           \/ SourceReleased \/ ChildRelease \/ ChildPause \/ ChildPaused
           \/ OwnerMarked \/ OwnerCleanup \/ ForkSwept
    PROVE  FKInv'
\* A child that leaves the store takes all it has with it.
<1>1. ASSUME NEW c \in FkChildren, fkStore[c] \in {"live", "pausing", "paused"}, ChildReleasedAs(c),
             UNCHANGED <<fk, fkSrc, fkHeld, fkOwner, fkmay>>
      PROVE  FKInv'
  <2> USE <1>1
  <2>   /\ fkStore'[c] \in {"none", "ended"} /\ (fkStore[c] = "live" => fkStore'[c] = "none")
        /\ \A d \in FkChildren \ {c} : fkStore'[d] = fkStore[d]
        /\ fkStore' \in [FkChildren -> {"none", "live", "pausing", "paused", "dropped", "ended"}]
    BY ZenonT(60) DEF ChildReleasedAs, FKInv, FKTypeOK
  <2>2. /\ fkRows' = fkRows \ {c} /\ fkVM \ {c} \subseteq fkVM' /\ fkVM' \subseteq fkVM
        /\ fkVMRow' \subseteq fkVMRow /\ fkCreating' = fkCreating \ {c} /\ fkMemo' \subseteq fkMemo
    BY DroppedIs, ZenonT(60) DEF ChildReleasedAs
  <2>3. Unstored' = Unstored
    BY ZenonT(60) DEF Unstored
  <2>4. FKTypeOK' /\ ChildrenInTurn'
    BY <2>2, ZenonT(60) DEF FKInv, FKTypeOK, ChildrenInTurn
  <2>5. MadeIsKnown'
    BY <2>2, <2>3, ZenonT(60) DEF FKInv, MadeIsKnown
  <2>6. ChildrenRun'
    <3>1. fk.pc \in {"stage", "commit"} => c # fk.child
      BY ChildNotStored, ZenonT(60)
    <3> QED BY <2>2, <3>1, ZenonT(60) DEF FKInv, ChildrenRun
  <2>7. ForkLeavesRight'
    BY <2>2, ZenonT(60) DEF FKInv, FKTypeOK, ForkLeavesRight
  <2> QED BY <2>4, <2>5, <2>6, <2>7, ZenonT(60) DEF FKInv
\* Changes of the source and of the owner's mark.
<1>2. ASSUME fkSrc' = fkSrc \/ fkSrc' = [fkSrc EXCEPT !.released = TRUE],
             fkOwner' = "gone" => \A c \in FkChildren : fkStore[c] \notin {"live", "pausing", "paused"},
             UNCHANGED <<fk, fkStore, fkRows, fkVM, fkVMRow, fkCreating, fkMemo, fkHeld, fkmay>>
      PROVE  FKInv'
  <2> USE <1>2
  <2>   fkSrc' \in SourceRecord /\ fkSrc'.busy = fkSrc.busy
    BY ZenonT(60) DEF FKInv, FKTypeOK, SourceRecord
  <2>1. fkSrc'.token = fkSrc.token
    BY ZenonT(60) DEF FKInv, FKTypeOK, SourceRecord
  <2>2. FKTypeOK' /\ ChildrenInTurn' /\ MadeIsKnown'
    BY <2>1, ZenonT(60) DEF FKInv, FKTypeOK, ChildrenInTurn, MadeIsKnown, Unstored
  <2>3. ChildrenRun' /\ ForkLeavesRight'
    BY ZenonT(60) DEF FKInv, ChildrenRun, ForkLeavesRight
  <2> QED BY <2>2, <2>3, ZenonT(60) DEF FKInv
<1>3. CASE SourceReleased
  <2> USE <1>3
  <2>   fkOwner' = fkOwner
    BY ZenonT(60) DEF SourceReleased
  <2>   fkOwner' = "gone" => \A c \in FkChildren : fkStore[c] \notin {"live", "pausing", "paused"}
    BY ZenonT(60) DEF FKInv, ForkLeavesRight
  <2> QED BY <1>2, ZenonT(60) DEF SourceReleased
<1>4. CASE ChildRelease
  BY <1>1, <1>4, ZenonT(60) DEF ChildRelease
\* A pause comes only after the answer: nothing is left to undo.
<1>5. ASSUME NEW c \in FkChildren, NEW a, fk.pc = "done", fkStore' = [fkStore EXCEPT ![c] = a],
             a \in {"pausing", "paused", "none"},
             fkOwner = "gone" => a = "none",
             \A d \in fkRows' : d \in fkRows \/ d = c, c \in fkRows' => a # "none",
             fkVM \ {c} \subseteq fkVM', fkVM' \subseteq fkVM,
             UNCHANGED <<fk, fkSrc, fkCreating, fkHeld, fkOwner, fkmay>>
      PROVE  FKInv'
  <2> USE <1>5
  <2>   /\ fkStore'[c] = a /\ \A d \in FkChildren \ {c} : fkStore'[d] = fkStore[d]
        /\ fkStore' \in [FkChildren -> {"none", "live", "pausing", "paused", "dropped", "ended"}]
    BY ZenonT(60) DEF FKInv, FKTypeOK
  <2>2. FKTypeOK' /\ ChildrenInTurn'
    BY ZenonT(60) DEF FKInv, FKTypeOK, ChildrenInTurn
  <2>3. MadeIsKnown'
    BY ZenonT(60) DEF FKInv, MadeIsKnown, Unstored
  <2>4. ChildrenRun'
    BY ZenonT(60) DEF FKInv, ChildrenRun
  <2>5. ForkLeavesRight'
    BY ZenonT(60) DEF FKInv, FKTypeOK, ForkLeavesRight
  <2> QED BY <2>2, <2>3, <2>4, <2>5, ZenonT(60) DEF FKInv
<1>6. CASE ChildPause
  <2> USE <1>6
  <2>   PICK c \in FkChildren : fkStore[c] = "live" /\ fkStore' = [fkStore EXCEPT ![c] = "pausing"]
                              /\ fkVM' = fkVM \ {c}
    BY ZenonT(60) DEF ChildPause
  <2>   fk.pc = "done" /\ UNCHANGED <<fk, fkSrc, fkRows, fkCreating, fkHeld, fkOwner, fkmay>>
    BY ZenonT(60) DEF ChildPause, FkMay, FKInv, FKTypeOK, ForkScenario
  <2>   fkOwner # "gone"
    BY ZenonT(60) DEF FKInv, ForkLeavesRight
  <2> QED BY <1>5, ZenonT(60)
<1>7. CASE ChildPaused
  <2>   PICK c \in FkChildren :
          /\ fkStore[c] \in {"pausing", "dropped", "ended"}
          /\ fkStore' = [fkStore EXCEPT ![c] = IF fkStore[c] = "pausing" THEN "paused" ELSE "none"]
          /\ fkRows' = IF fkStore[c] = "ended" THEN fkRows ELSE fkRows \cup {c}
          /\ UNCHANGED <<fk, fkSrc, fkVM, fkCreating, fkHeld, fkOwner, fkmay>>
    BY <1>7, ZenonT(60) DEF ChildPaused
  <2>   fk.pc = "done" /\ fkStore[c] # "dropped"
    BY ZenonT(60) DEF FKInv, MadeIsKnown, ForkLeavesRight
  <2>3. CASE fkStore[c] = "pausing"
    <3> USE <2>3
    <3>   fkOwner # "gone"
      BY ZenonT(60) DEF FKInv, ForkLeavesRight
    <3> QED BY <1>5, ZenonT(60)
  <2>4. CASE fkStore[c] = "ended"
    <3> USE <2>4
    <3>   c \notin fkRows
      BY ZenonT(60) DEF FKInv, ForkLeavesRight
    <3> QED BY <1>5, ZenonT(60)
  <2> QED BY <2>3, <2>4, ZenonT(60)
<1>8. CASE OwnerMarked
  <2> USE <1>8
  <2>   fkOwner' = "marked"
    BY ZenonT(60) DEF OwnerMarked
  <2> QED BY <1>2, ZenonT(60) DEF OwnerMarked
<1>9. CASE OwnerCleanup
  <2> USE <1>9
  <2>1. CASE \E c \in FkChildren : fkStore[c] \in {"live", "pausing", "paused"} /\ ChildReleasedAs(c)
                                  /\ UNCHANGED <<fkSrc, fkOwner>>
    BY <1>1, <2>1, ZenonT(60) DEF OwnerCleanup
  <2>2. ASSUME fkSrc' = fkSrc \/ fkSrc' = [fkSrc EXCEPT !.released = TRUE],
               fkOwner' = "gone" => \A c \in FkChildren : fkStore[c] \notin {"live", "pausing", "paused"},
               UNCHANGED <<fkStore, fkRows, fkVM, fkVMRow, fkCreating, fkMemo>>
        PROVE  FKInv'
    BY <1>2, <2>2, ZenonT(60) DEF OwnerCleanup
  <2>   fkOwner = "marked"
    BY DEF OwnerCleanup
  <2> QED BY <2>1, <2>2, ZenonT(60) DEF OwnerCleanup
\* The sweep takes neither the child in hand nor one that runs.
<1>10. CASE ForkSwept
  <2>1. PICK c \in fkVM : orphanSafeToDelete(c) /\ fkVM' = fkVM \ {c}
    BY <1>10, ZenonT(60) DEF ForkSwept
  <2>2. UNCHANGED <<fk, fkSrc, fkStore, fkRows, fkVMRow, fkCreating, fkMemo, fkHeld, fkOwner, fkmay>>
    BY <1>10, ZenonT(60) DEF ForkSwept
  <2>3. FKTypeOK' /\ ChildrenInTurn'
    BY <2>1, <2>2, ZenonT(60) DEF FKInv, FKTypeOK, ChildrenInTurn
  <2>4. MadeIsKnown' /\ ForkLeavesRight'
    BY <2>2, ZenonT(60) DEF FKInv, MadeIsKnown, ForkLeavesRight, Unstored
  <2>5. ChildrenRun'
    BY <2>1, <2>2, ZenonT(60) DEF FKInv, ChildrenRun, orphanSafeToDelete, Stored
  <2> QED BY <2>3, <2>4, <2>5, ZenonT(60) DEF FKInv
<1> QED BY <1>3, <1>4, <1>6, <1>7, <1>8, <1>9, <1>10, ZenonT(60)

\* Every step keeps the invariant.
LEMMA ForkStepInv ==
    ASSUME FKInv, [FKNext]_fkvars PROVE FKInv'
<1>1. CASE UNCHANGED fkvars
  BY <1>1, ZenonT(60)
  DEF fkvars, FKInv, FKTypeOK, ChildrenInTurn, MadeIsKnown, ChildrenRun, ForkLeavesRight, Unstored
<1>2. CASE ForkStep
  BY <1>2, ReserveSteps, CreateStep, CreateFailsStep, StageFailsStep, CommitFork, RollbackStep,
     RolledBackStep, FinishFork, ZenonT(60) DEF ForkStep
<1> QED BY <1>1, <1>2, MeanwhileSteps, ZenonT(60) DEF FKNext, FkQuiet

\* What follows from the invariant.
LEMMA ForkWord ==
    ASSUME FKInv PROVE ForkKeepsItsWord
<1>1. ForkAllOrNothing
  <2> SUFFICES ASSUME fk.pc = "failed"
               PROVE  /\ \A c \in FkChildren : fkStore[c] = "none" /\ c \notin fkRows
                      /\ fkVMRow \cup fkCreating \cup fkMemo \subseteq {fk.child}
                      /\ fk.child # NoChild => fk.op = "fork" /\ fkSrc.token
                      /\ fkHeld = NothingHeld /\ ~fkSrc.busy
    BY ZenonT(60) DEF ForkAllOrNothing
  <2>1. fk.made = {} /\ Unstored = {fk.child}
    BY ZenonT(60) DEF FKInv, ChildrenInTurn, Unstored
  <2>2. fkVMRow \cup fkCreating \cup fkMemo \subseteq {fk.child}
    BY <2>1, ZenonT(60) DEF FKInv, MadeIsKnown
  <2>3. \A c \in FkChildren : fkStore[c] = "none"
    BY <2>1, ZenonT(60) DEF FKInv, MadeIsKnown
  <2>4. \A c \in FkChildren : c \notin fkRows
    BY <2>3, ZenonT(60) DEF FKInv, ForkLeavesRight
  <2>5. fkHeld = NothingHeld /\ ~fkSrc.busy
    BY ZenonT(60) DEF FKInv, ForkLeavesRight
  <2>6. fk.child # NoChild => fk.op = "fork" /\ fkSrc.token
    BY ZenonT(60) DEF FKInv, ChildrenInTurn
  <2> QED BY <2>2, <2>3, <2>4, <2>5, <2>6, ZenonT(60)
<1>2. NoSandboxHides
  <2>1. \A c \in fkCreating : c = fk.child
    BY ZenonT(60) DEF FKInv, MadeIsKnown, Unstored
  <2> QED BY <2>1, ZenonT(60) DEF NoSandboxHides, orphanSafeToDelete, FKInv, ChildrenRun
<1>   DeletedGetsNoFork
  BY ZenonT(60) DEF DeletedGetsNoFork, FKInv, ForkLeavesRight
<1>   NoPhantomRow
  BY ZenonT(60) DEF NoPhantomRow, FKInv, ForkLeavesRight
<1> QED BY <1>1, <1>2 DEF ForkKeepsItsWord

\* The invariant of a fork always holds, whatever its size.
THEOREM ForkInvariance ==
    ASSUME \A may \in FkScenarios : ForkScenario(may)
    PROVE  FKSpec => []FKInv
<1>1. FKInit => FKInv
  BY ForkInit
<1>2. FKInv /\ [FKNext]_fkvars => FKInv'
  BY ForkStepInv
<1> QED BY <1>1, <1>2, PTL DEF FKSpec

\* A fork of any size leaves all its children or none, nothing for a deleted
\* owner, and no row without a lease (fork, clone and their rollbacks).
THEOREM ForksKeepTheirWord ==
    ASSUME \A may \in FkScenarios : ForkScenario(may)
    PROVE  FKSpec => []ForkKeepsItsWord
<1>1. FKInv => ForkKeepsItsWord
  BY ForkWord
<1> QED BY <1>1, ForkInvariance, PTL
=============================================================================
