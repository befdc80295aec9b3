----------------------- MODULE AdmissionQueueProofs -----------------------
(***************************************************************************)
(* Queued admission keeps its books for any number of creates, owners and  *)
(* wake goroutines: no refused create keeps a lease, every unit of memory  *)
(* is accounted for, a deleted owner holds nothing and no wake is lost.    *)
(*                                                                         *)
(* The argument follows a ticket.  A grant in flight is the handler's own  *)
(* first try or the pass's current ticket; a lease it wins is known to     *)
(* that grant, then to the ticket's channel, then to the handler that read *)
(* it.  The pass works on one ticket which, when picked, nobody had        *)
(* finished, so nothing was sent on its channel yet.                       *)
(***************************************************************************)
EXTENDS AdmissionQueue, FiniteSetTheorems, TLAPS

PassRecord ==
  [by : Creates \cup Wakers \cup {"tick"},
   at : {"pick", "grant", "release", "draining", "swept"},
   t : Creates \cup {"none"}, tried : SUBSET Creates,
   moved : BOOLEAN, refused : BOOLEAN, restarts : Nat]

\* The types of the queue's state (AQInit, and what the handlers assign).
AQTypeOK ==
  /\ pc \in [Creates -> {"new", "direct", "park", "pass", "select", "recv", "release", "done"}]
  /\ queue \subseteq Creates
  /\ finished \subseteq Creates
  /\ chan \in [Creates -> {"empty", "lease", "draining", "ownerGone"}]
  /\ answer \in [Creates -> {"none", "lease"} \cup Refusals]
  /\ grant \in [Creates -> {"no", "debit", "capacity", "insert", "lease", "ownerGone", "error"}]
  /\ lease \in [Creates -> {"none", "held", "released"}]
  /\ room \in Nat
  /\ pass \in PassRecord \cup {NoPass}
  /\ waking \in [Creates -> {"no", "depth", "cas"}]
  /\ wakePending \in BOOLEAN
  /\ wakeScheduled \in BOOLEAN
  /\ waker \in [Wakers -> {"idle", "clear", "pass", "cas", "check", "recas"}]
  /\ sweep \in [{"admin", "pass"} \cup Owners -> SUBSET Creates]
  /\ deleted \subseteq Owners
  /\ del \in [Owners -> {"no", "cancel", "scan", "done"}]
  /\ owed \in BOOLEAN

\* The pass has a ticket in hand, to grant it or to give its lease back.
InHand(c) == pass # NoPass /\ pass.t = c /\ pass.at \in {"grant", "release"}

\* A pass past its pick has a ticket.
HasTicket == pass # NoPass /\ pass.at # "pick" => pass.t \in Creates

\* A ticket in the list that nobody finished has a handler behind it.
TicketsWait == \A c \in queue \ finished : pc[c] \in {"pass", "select"}

\* An outcome is sent on the channel of a finished ticket only.
SentWhenFinished == \A c \in Creates : chan[c] # "empty" => c \in finished

\* A grant in flight is the handler's first try or the pass's ticket.
GrantsAreRun ==
  \A c \in Creates : grant[c] # "no" => pc[c] = "direct" \/ (InHand(c) /\ pass.at = "grant")

\* The ticket in the pass's hand was sent no lease, and a handler that stopped
\* waiting for it had it finished.
HandIsOpen ==
  \A c \in Creates :
    InHand(c) => /\ pc[c] \in {"pass", "select", "recv", "done"}
                 /\ chan[c] # "lease"
                 /\ pc[c] = "done" => answer[c] # "lease"
                 /\ pc[c] \in {"recv", "done"} => c \in finished

\* Who knows of a held lease: the grant that won it, the pass about to release
\* it, the channel it was sent on, or the handler that read it.
HeldIsKnown ==
  \A c \in Creates : lease[c] = "held" =>
    \/ pc[c] = "direct" /\ grant[c] = "lease"
    \/ InHand(c) /\ (pass.at = "release" \/ grant[c] = "lease")
    \/ pc[c] \in {"pass", "select", "recv"} /\ chan[c] = "lease"
    \/ pc[c] = "release"
    \/ pc[c] = "done" /\ answer[c] = "lease"

\* Whoever runs the pass waits for it to end.
RunnerWaits ==
  pass # NoPass => /\ pass.by \in Creates => pc[pass.by] = "pass"
                   /\ pass.by \in Wakers => waker[pass.by] = "pass"

\* An owner is marked before anything of theirs is deleted.
MarkedFirst == \A o \in Owners : del[o] # "no" => o \in deleted

Scheduled == {"clear", "pass", "cas"}

\* wakeScheduled stands for exactly one goroutine that has yet to give it up.
OneScheduled ==
  /\ \A w \in Wakers : waker[w] \in Scheduled => wakeScheduled
  /\ \A v, w \in Wakers : waker[v] \in Scheduled /\ waker[w] \in Scheduled => v = w
  /\ wakeScheduled => \E w \in Wakers : waker[w] \in Scheduled

\* A runner that is going to begin a pass.
Coming(r) == ~(pass # NoPass /\ pass.by = r)

\* WakeNotLost, with a call between its two steps counted only while the
\* pending flag it set is still up.
WakeOnItsWay ==
  \/ \E c \in Creates : waking[c] = "depth" \/ (pc[c] = "pass" /\ Coming(c))
  \/ \E w \in Wakers : waker[w] = "clear" \/ (waker[w] = "pass" /\ Coming(w))
  \/ wakePending /\ \E c \in Creates : waking[c] = "cas"
  \/ wakePending /\ \E w \in Wakers : waker[w] # "idle"

\* Room freed for a waiting queue is on its way to it.
OwedIsComing == owed /\ queue # {} => WakeOnItsWay

\* The inductive invariant.
QInv ==
  /\ AQTypeOK
  /\ HasTicket /\ TicketsWait /\ SentWhenFinished /\ GrantsAreRun /\ HandIsOpen /\ HeldIsKnown
  /\ RunnerWaits /\ MarkedFirst
  /\ OneScheduled /\ OwedIsComing
  /\ RoomConserved /\ DeletedOwnerHoldsNothing
-----------------------------------------------------------------------------
(* Units of memory.                                                        *)

\* The units of one create number what it needs.
LEMMA UnitsOfOne ==
  ASSUME NEW c \in Creates
  PROVE  IsFiniteSet({c} \X (1..Need[c])) /\ Cardinality({c} \X (1..Need[c])) = Need[c]
<1>1. Need[c] \in Nat \ {0}
  BY AdmissionAssumption
<1>2. ASSUME NEW n \in Nat, n # 0 PROVE IsFiniteSet(1..n) /\ Cardinality(1..n) = n
  <2>   1 \in Int /\ n \in Int /\ ~(1 > n) /\ n - 1 + 1 = n
    BY <1>2
  <2>   IsFiniteSet(1..n) /\ Cardinality(1..n) = IF 1 > n THEN 0 ELSE n - 1 + 1
    BY FS_Interval
  <2>. QED  OBVIOUS
<1>3. \A n \in Nat \ {0} : IsFiniteSet(1..n) /\ Cardinality(1..n) = n
  BY <1>2
<1>   IsFiniteSet({c}) /\ Cardinality({c}) = 1
  BY FS_Singleton
<1>5. ASSUME NEW T, IsFiniteSet(T)
      PROVE  IsFiniteSet({c} \X T) /\ Cardinality({c} \X T) = Cardinality({c}) * Cardinality(T)
  BY <1>5, FS_Product, Zenon
<1>   Cardinality({c} \X (1..Need[c])) = 1 * Need[c] /\ IsFiniteSet({c} \X (1..Need[c]))
  BY <1>1, <1>3, <1>5, Zenon
<1>. QED
  BY <1>1

\* The units of any creates are finitely many.
LEMMA UnitsFinite ==
  ASSUME NEW S \in SUBSET Creates
  PROVE  IsFiniteSet(UnitsOf(S)) /\ Cardinality(UnitsOf(S)) \in Nat
<1>. DEFINE T == {{c} \X (1..Need[c]) : c \in S}
            f == [c \in S |-> {c} \X (1..Need[c])]
<1>1. IsFiniteSet(S)
  BY AdmissionAssumption, FS_Subset
<1>2. f \in Surjection(S, T)
  BY ZenonT(60) DEF Surjection
<1>3. IsFiniteSet(T)
  <2>. HIDE DEF T, f
  <2>. QED  BY <1>1, <1>2, FS_Surjection
<1>4. \A U \in T : IsFiniteSet(U)
  BY UnitsOfOne
<1>   IsFiniteSet(UNION T)
  <2>. HIDE DEF T
  <2>. QED  BY <1>3, <1>4, FS_UNION
<1>   IsFiniteSet(UnitsOf(S))
  BY DEF UnitsOf
<1>. QED
  BY FS_CardinalityType

\* One more create takes its own units and no other's.
LEMMA UnitsGrow ==
  ASSUME NEW S \in SUBSET Creates, NEW c \in Creates, c \notin S
  PROVE  Cardinality(UnitsOf(S \cup {c})) = Cardinality(UnitsOf(S)) + Need[c]
<1>. DEFINE U == {c} \X (1..Need[c])
<1>1. UnitsOf(S \cup {c}) = UnitsOf(S) \cup U
  BY DEF UnitsOf
<1>2. UnitsOf(S) \cap U = {}
  <2>. SUFFICES ASSUME NEW u \in UnitsOf(S), u \in U PROVE FALSE
    OBVIOUS
  <2>   PICK d \in S : u \in {d} \X (1..Need[d])
    BY DEF UnitsOf
  <2>   u[1] = d /\ u[1] = c
    OBVIOUS
  <2>. QED  OBVIOUS
<1>   IsFiniteSet(U) /\ Cardinality(U) = Need[c] /\ Need[c] \in Nat
  BY UnitsOfOne, AdmissionAssumption
<1>   IsFiniteSet(UnitsOf(S)) /\ Cardinality(UnitsOf(S)) \in Nat
  BY UnitsFinite
<1>. HIDE DEF U
<1>5. Cardinality(UnitsOf(S) \cup U) = Cardinality(UnitsOf(S)) + Cardinality(U) - Cardinality(UnitsOf(S) \cap U)
  BY FS_Union
<1>   Cardinality(UnitsOf(S) \cap U) = 0
  BY <1>2, FS_EmptySet
<1>   Cardinality(UnitsOf(S \cup {c})) = Cardinality(UnitsOf(S)) + Need[c] - 0
  BY <1>1, <1>5, Zenon
<1>. QED
  OBVIOUS

-----------------------------------------------------------------------------
(* Types.                                                                  *)

\* A pass is told from no pass by its fields.
LEMMA PassIsSome == ASSUME NEW p \in PassRecord PROVE p # NoPass
<1>   "at" \in DOMAIN p
  BY DEF PassRecord
<1>   "at" \notin DOMAIN NoPass
  BY DEF NoPass
<1>. QED
  OBVIOUS

\* Credit gives back what was debited and tells the pass.
LEMMA CreditTypes ==
  ASSUME AQTypeOK, NEW c \in Creates, Credit(c)
  PROVE  /\ room' \in Nat
         /\ pass = NoPass => pass' = NoPass
         /\ pass # NoPass => pass' \in PassRecord /\ pass' = [pass EXCEPT !.moved = TRUE]
<1>1. Need[c] \in Nat
  BY AdmissionAssumption
<1>2. room' \in Nat
  BY <1>1 DEF Credit, AQTypeOK
<1>3. pass = NoPass => pass' = NoPass
  BY DEF Credit
<1>   pass # NoPass => pass \in PassRecord /\ pass' = [pass EXCEPT !.moved = TRUE]
  BY DEF Credit, AQTypeOK
<1>   pass # NoPass => pass' \in PassRecord
  BY ZenonT(60) DEF PassRecord
<1>. QED
  BY <1>2, <1>3

USE DEF clientVars, ticketVars, grantVars, wakeVars, adminVars

\* The types hold at the start.
LEMMA AQInitTypes == ASSUME AQInit PROVE AQTypeOK
BY AdmissionAssumption, ZenonT(60) DEF AQInit, AQTypeOK, Refusals, NoPass

\* The handler's steps keep the types.
LEMMA HandlerTypes ==
  ASSUME AQTypeOK, NEW c \in Creates,
         CreateDirect(c) \/ Disconnect(c) \/ ClientRelease(c) \/ HandlerStep(c)
  PROVE  AQTypeOK'
<1>1. ASSUME CreateDirect(c) PROVE AQTypeOK'
  BY <1>1 DEF AQTypeOK, CreateDirect, Reserved
<1>2. ASSUME Disconnect(c) PROVE AQTypeOK'
  BY <1>2 DEF AQTypeOK, Disconnect
<1>3. ASSUME FreeLease(c) PROVE /\ lease' \in [Creates -> {"none", "held", "released"}]
                                /\ waking' \in [Creates -> {"no", "depth", "cas"}]
                                /\ owed' \in BOOLEAN
                                /\ room' \in Nat
                                /\ pass' \in PassRecord \cup {NoPass}
  BY <1>3, CreditTypes DEF AQTypeOK, FreeLease
<1>4. ASSUME ClientRelease(c) PROVE AQTypeOK'
  BY <1>3, <1>4 DEF AQTypeOK, ClientRelease
<1>5. ASSUME CreateAnswered(c) PROVE AQTypeOK'
  BY <1>5 DEF AQTypeOK, CreateAnswered, Refusals
<1>6. ASSUME Park(c) PROVE AQTypeOK'
  BY <1>6 DEF AQTypeOK, Park, Refusals
<1>7. ASSUME Receive(c) PROVE AQTypeOK'
  BY <1>7 DEF AQTypeOK, Receive, Refusals
<1>8. ASSUME NEW why \in {"refused", "clientGone"}, GiveUp(c, why) PROVE AQTypeOK'
  BY <1>8 DEF AQTypeOK, GiveUp, Finish, Refusals
<1>9. ASSUME ReleaseGone(c) PROVE AQTypeOK'
  <2> USE <1>9
  <2>1. CASE lease[c] = "held"
    BY <1>3, <2>1, ZenonT(60) DEF AQTypeOK, ReleaseGone
  <2>2. CASE lease[c] # "held"
    BY <2>2 DEF AQTypeOK, ReleaseGone
  <2>. QED  BY <2>1, <2>2
<1>. QED
  BY <1>1, <1>2, <1>4, <1>5, <1>6, <1>7, <1>8, <1>9 DEF HandlerStep

\* The grant's steps keep the types.
LEMMA GrantTypes ==
  ASSUME AQTypeOK, NEW c \in Creates, GrantStep(c)
  PROVE  AQTypeOK'
<1>0. Need[c] \in Nat
  BY AdmissionAssumption
<1>1. ASSUME GrantDebit(c) PROVE AQTypeOK'
  <2> USE <1>1
  <2>   room' \in Nat
    BY <1>0 DEF AQTypeOK, GrantDebit
  <2>. QED  BY DEF AQTypeOK, GrantDebit
<1>2. ASSUME GrantInsert(c) PROVE AQTypeOK'
  <2> USE <1>2
  <2>   room' \in Nat /\ pass' \in PassRecord \cup {NoPass}
    BY CreditTypes DEF AQTypeOK, GrantInsert
  <2>. QED  BY DEF AQTypeOK, GrantInsert
<1>3. ASSUME GrantFail(c) PROVE AQTypeOK'
  <2> USE <1>3
  <2>   room' \in Nat /\ pass' \in PassRecord \cup {NoPass}
    BY CreditTypes DEF AQTypeOK, GrantFail
  <2>. QED  BY DEF AQTypeOK, GrantFail
<1>. QED
  BY <1>1, <1>2, <1>3 DEF GrantStep

\* Tried is a set of creates.
LEMMA TriedTypes == ASSUME AQTypeOK, pass # NoPass PROVE Tried \subseteq Creates /\ pass \in PassRecord
<1>   pass \in PassRecord
  BY DEF AQTypeOK
<1>. QED
  BY DEF PassRecord, Tried

\* A pass begins with nobody tried.
LEMMA BeginsPass ==
  ASSUME AQTypeOK, NEW r \in Runners \cup {"tick"}, PassBegin(r)
  PROVE  /\ pass = NoPass
         /\ pass' \in PassRecord /\ pass'.by = r /\ pass'.at = "pick"
BY DEF PassBegin, PassRecord, Runners

\* What a pick makes of the pass: one ticket of the list that nobody finished.
LEMMA PicksOne ==
  ASSUME AQTypeOK, PassPick
  PROVE  \E t \in queue \ finished :
           /\ pass # NoPass /\ pass.at = "pick"
           /\ pass' \in PassRecord
           /\ pass'.t = t /\ pass'.by = pass.by
           /\ pass'.at = IF draining THEN "draining" ELSE "grant"
           /\ grant' = [grant EXCEPT ![t] = IF draining THEN "no" ELSE Reserved(t)]
<1>1. pass # NoPass /\ pass.at = "pick"
  BY DEF PassPick
<1>   pass \in PassRecord /\ Tried \subseteq Creates
  BY <1>1, TriedTypes
<1>3. PICK t \in Candidates :
       /\ pass' = [pass EXCEPT !.t = t, !.tried = Tried \cup {t},
                     !.at = IF draining THEN "draining" ELSE "grant",
                     !.moved = @ /\ ~Restart, !.refused = @ /\ ~Restart,
                     !.restarts = IF Restart THEN @ + 1 ELSE @]
       /\ grant' = [grant EXCEPT ![t] = IF draining THEN "no" ELSE Reserved(t)]
  BY ZenonT(60) DEF PassPick
<1>4. t \in queue \ finished /\ t \in Creates
  BY DEF Candidates, AQTypeOK
<1>   pass' \in PassRecord
  <2>1. ASSUME NEW T \in SUBSET Creates, NEW a \in {"draining", "grant"}, NEW m \in BOOLEAN,
               NEW f \in BOOLEAN, NEW n \in Nat
        PROVE  [pass EXCEPT !.t = t, !.tried = T, !.at = a, !.moved = m, !.refused = f, !.restarts = n]
                 \in PassRecord
    BY <1>4, <2>1, ZenonT(60) DEF PassRecord
  <2>2. (IF Restart THEN pass.restarts + 1 ELSE pass.restarts) \in Nat
    BY DEF PassRecord
  <2>3. (pass.moved /\ ~Restart) \in BOOLEAN /\ (pass.refused /\ ~Restart) \in BOOLEAN
    BY Zenon
  <2>   (IF draining THEN "draining" ELSE "grant") \in {"draining", "grant"} /\ Tried \cup {t} \in SUBSET Creates
    BY <1>4
  <2>   [pass EXCEPT !.t = t, !.tried = Tried \cup {t}, !.at = IF draining THEN "draining" ELSE "grant",
                     !.moved = pass.moved /\ ~Restart, !.refused = pass.refused /\ ~Restart,
                     !.restarts = IF Restart THEN pass.restarts + 1 ELSE pass.restarts] \in PassRecord
    BY <2>1, <2>2, <2>3, Zenon
  <2>. QED  BY <1>3, Zenon
<1>   pass'.t = t /\ pass'.by = pass.by /\ pass'.at = IF draining THEN "draining" ELSE "grant"
  BY <1>3 DEF PassRecord
<1>. QED
  BY <1>1, <1>3, <1>4, ZenonT(60)

\* The pass in its other steps stays a pass, by the same runner and with the same
\* ticket.
LEMMA PassGoesOn ==
  ASSUME AQTypeOK, PassRefused \/ PassGranted \/ PassRelease \/ PassDraining
  PROVE  /\ pass \in PassRecord /\ pass # NoPass
         /\ pass' \in PassRecord /\ pass'.by = pass.by /\ pass'.t = pass.t
<1>   pass \in PassRecord /\ pass # NoPass
  BY DEF AQTypeOK, PassRefused, PassGranted, PassRelease, PassDraining
<1>2. ASSUME PassRefused PROVE pass' \in PassRecord /\ pass'.by = pass.by /\ pass'.t = pass.t
  BY <1>2, ZenonT(60) DEF PassRecord, PassRefused
<1>3. ASSUME PassGranted PROVE pass' \in PassRecord /\ pass'.by = pass.by /\ pass'.t = pass.t
  BY <1>3 DEF PassRecord, PassGranted
<1>4. ASSUME PassRelease PROVE pass' \in PassRecord /\ pass'.by = pass.by /\ pass'.t = pass.t
  BY <1>4, ZenonT(60) DEF PassRecord, PassRelease
<1>5. ASSUME PassDraining PROVE pass' \in PassRecord /\ pass'.by = pass.by /\ pass'.t = pass.t
  BY <1>5 DEF PassRecord, PassDraining
<1>. QED
  BY <1>2, <1>3, <1>4, <1>5

\* An answer is buffered once.
LEMMA SendTypes ==
  ASSUME AQTypeOK, NEW c \in Creates, NEW o \in {"lease", "draining", "ownerGone"}, Send(c, o)
  PROVE  /\ chan' \in [Creates -> {"empty", "lease", "draining", "ownerGone"}]
         /\ \A d \in Creates : d # c => chan'[d] = chan[d]
         /\ chan'[c] = IF chan[c] = "empty" THEN o ELSE chan[c]
BY DEF AQTypeOK, Send

\* The pass's steps keep the types.
LEMMA PassTypes ==
  ASSUME AQTypeOK, HasTicket, PassStep \/ \E r \in Runners \cup {"tick"} : PassBegin(r)
  PROVE  AQTypeOK'
<1>1. ASSUME NEW r \in Runners \cup {"tick"}, PassBegin(r) PROVE AQTypeOK'
  BY <1>1, BeginsPass, ZenonT(60) DEF AQTypeOK, PassBegin
<1>2. ASSUME PassPick PROVE AQTypeOK'
  <2> USE <1>2
  <2>   PICK t \in queue \ finished : /\ pass' \in PassRecord
                                      /\ grant' = [grant EXCEPT ![t] = IF draining THEN "no" ELSE Reserved(t)]
    BY PicksOne
  <2>   grant' \in [Creates -> {"no", "debit", "capacity", "insert", "lease", "ownerGone", "error"}]
    BY DEF AQTypeOK, Reserved
  <2>. QED  BY DEF AQTypeOK, PassPick
<1>3. ASSUME PassEnd PROVE AQTypeOK'
  <2> USE <1>3
  <2>   pc' \in [Creates -> {"new", "direct", "park", "pass", "select", "recv", "release", "done"}]
    BY DEF AQTypeOK, PassEnd
  <2>   waker' \in [Wakers -> {"idle", "clear", "pass", "cas", "check", "recas"}]
    BY DEF AQTypeOK, PassEnd
  <2>. QED  BY DEF AQTypeOK, PassEnd
<1>4. ASSUME PassRefused PROVE AQTypeOK'
  <2> USE <1>4
  <2>   pass.t \in Creates
    BY DEF PassRefused, HasTicket
  <2>   pass' \in PassRecord
    BY PassGoesOn
  <2>   /\ chan' \in [Creates -> {"empty", "lease", "draining", "ownerGone"}]
        /\ queue' \subseteq Creates /\ finished' \subseteq Creates
    BY SendTypes DEF AQTypeOK, PassRefused, Finish
  <2>. QED  BY ZenonT(60) DEF AQTypeOK, PassRefused
<1>5. ASSUME PassGranted PROVE AQTypeOK'
  <2> USE <1>5
  <2>   pass.t \in Creates
    BY DEF PassGranted, HasTicket
  <2>   pass' \in PassRecord
    BY PassGoesOn
  <2>   /\ chan' \in [Creates -> {"empty", "lease", "draining", "ownerGone"}]
        /\ queue' \subseteq Creates /\ finished' \subseteq Creates
    BY SendTypes DEF AQTypeOK, PassGranted, Finish
  <2>. QED  BY ZenonT(60) DEF AQTypeOK, PassGranted
<1>6. ASSUME PassRelease PROVE AQTypeOK'
  <2> USE <1>6
  <2>   pass.t \in Creates /\ Need[pass.t] \in Nat
    BY AdmissionAssumption DEF PassRelease, HasTicket
  <2>2. pass' \in PassRecord
    BY PassGoesOn
  <2>3. room' \in Nat
    BY DEF AQTypeOK, PassRelease
  <2>   /\ lease' \in [Creates -> {"none", "held", "released"}]
        /\ waking' \in [Creates -> {"no", "depth", "cas"}]
    BY DEF AQTypeOK, PassRelease
  <2>   owed' \in BOOLEAN
    BY Zenon DEF AQTypeOK, PassRelease
  <2>. QED  BY <2>2, <2>3 DEF AQTypeOK, PassRelease
<1>7. ASSUME PassDraining PROVE AQTypeOK'
  <2> USE <1>7
  <2>   pass.t \in Creates
    BY DEF PassDraining, HasTicket
  <2>   pass' \in PassRecord
    BY PassGoesOn
  <2>   chan' \in [Creates -> {"empty", "lease", "draining", "ownerGone"}]
    BY SendTypes DEF PassDraining
  <2>. QED  BY DEF AQTypeOK, PassDraining
<1>. QED
  BY <1>1, <1>2, <1>3, <1>4, <1>5, <1>6, <1>7 DEF PassStep

\* The wakes, the drain and the deletions keep the types.
LEMMA OtherTypes ==
  ASSUME AQTypeOK,
         \/ \E c \in Creates : WakeStep(c)
         \/ \E w \in Wakers : WakerStep(w)
         \/ AdminStep \/ DrainStart \/ Undrain
         \/ \E o \in Owners : OwnerMark(o)
  PROVE  AQTypeOK'
<1>1. ASSUME NEW c \in Creates, WakePend(c) PROVE AQTypeOK'
  BY <1>1 DEF AQTypeOK, WakePend, Pended
<1>2. ASSUME NEW c \in Creates, WakeCas(c) PROVE AQTypeOK'
  BY <1>2, ZenonT(60) DEF AQTypeOK, WakeCas
<1>3. ASSUME NEW w \in Wakers, WakerStep(w) PROVE AQTypeOK'
  <2> USE <1>3
  <2>   /\ waker' \in [Wakers -> {"idle", "clear", "pass", "cas", "check", "recas"}]
    BY DEF AQTypeOK, WakerStep
  <2>   wakePending' \in BOOLEAN /\ wakeScheduled' \in BOOLEAN
    BY Zenon DEF AQTypeOK, WakerStep
  <2>. QED  BY DEF AQTypeOK, WakerStep
<1>4. ASSUME NEW who \in DOMAIN sweep, NEW c \in Creates, SweepAnswer(who, c) PROVE AQTypeOK'
  <2> USE <1>4
  <2>   sweep' \in [{"admin", "pass"} \cup Owners -> SUBSET Creates]
    BY DEF AQTypeOK, SweepAnswer
  <2>   /\ chan' \in [Creates -> {"empty", "lease", "draining", "ownerGone"}]
        /\ queue' \subseteq Creates /\ finished' \subseteq Creates
    BY SendTypes DEF AQTypeOK, SweepAnswer, Finish
  <2>. QED  BY DEF AQTypeOK, SweepAnswer
<1>5. ASSUME DrainTake PROVE AQTypeOK'
  BY <1>5 DEF AQTypeOK, DrainTake
<1>6. ASSUME NEW o \in Owners, OwnerCancel(o) PROVE AQTypeOK'
  BY <1>6 DEF AQTypeOK, OwnerCancel
<1>7. ASSUME NEW o \in Owners, OwnerDone(o) PROVE AQTypeOK'
  BY <1>7 DEF AQTypeOK, OwnerDone
<1>8. ASSUME NEW o \in Owners, NEW c \in Creates, OwnerRelease(o, c) PROVE AQTypeOK'
  <2> USE <1>8
  <2>   room' \in Nat /\ pass' \in PassRecord \cup {NoPass}
    BY CreditTypes DEF OwnerRelease, FreeLease
  <2>. QED  BY DEF AQTypeOK, OwnerRelease, FreeLease
<1>9. ASSUME DrainStart \/ Undrain PROVE AQTypeOK'
  BY <1>9 DEF AQTypeOK, DrainStart, Undrain
<1>10. ASSUME NEW o \in Owners, OwnerMark(o) PROVE AQTypeOK'
  BY <1>10 DEF AQTypeOK, OwnerMark
<1>. QED
  BY <1>1, <1>2, <1>3, <1>4, <1>5, <1>6, <1>7, <1>8, <1>9, <1>10 DEF WakeStep, AdminStep

-----------------------------------------------------------------------------
(* Tickets, grants and leases.                                             *)

TicketInv ==
  /\ HasTicket /\ TicketsWait /\ SentWhenFinished
  /\ GrantsAreRun /\ HandIsOpen /\ HeldIsKnown /\ RunnerWaits

\* The pass has the same runner, ticket and place before and after.
SameHand ==
  /\ (pass' = NoPass) <=> (pass = NoPass)
  /\ pass # NoPass => pass'.at = pass.at /\ pass'.t = pass.t /\ pass'.by = pass.by

\* Credit does not move the pass.
LEMMA CreditSameHand == ASSUME AQTypeOK, NEW c \in Creates, Credit(c) PROVE SameHand
<1>1. CASE pass = NoPass
  BY <1>1, CreditTypes DEF SameHand
<1>2. CASE pass # NoPass
  <2> USE <1>2
  <2>   pass \in PassRecord /\ pass' \in PassRecord /\ pass' = [pass EXCEPT !.moved = TRUE]
    BY CreditTypes DEF AQTypeOK
  <2>   pass' # NoPass
    BY PassIsSome, ZenonT(60)
  <2>   pass'.at = pass.at /\ pass'.t = pass.t /\ pass'.by = pass.by
    BY DEF PassRecord
  <2>. QED  BY DEF SameHand
<1>. QED  BY <1>1, <1>2

\* The tickets hold at the start.
LEMMA InitTickets == ASSUME AQInit PROVE TicketInv
BY DEF AQInit, TicketInv, HasTicket, TicketsWait, SentWhenFinished, GrantsAreRun, HandIsOpen, HeldIsKnown,
       RunnerWaits, InHand, NoPass

\* The tickets hold across what the handler does before it parks.
LEMMA DirectTickets ==
  ASSUME AQTypeOK, TicketInv, NEW c \in Creates, CreateDirect(c) \/ CreateAnswered(c) \/ Park(c)
  PROVE  TicketInv'
<1>1. ASSUME CreateDirect(c) PROVE TicketInv'
  <2> USE <1>1
  <2>1. ~InHand(c)
    BY DEF TicketInv, HandIsOpen, CreateDirect
  <2>   \A d \in Creates : InHand(d)' <=> InHand(d)
    BY DEF InHand, CreateDirect
  <2>3. (HasTicket /\ TicketsWait /\ SentWhenFinished /\ RunnerWaits)'
    BY DEF AQTypeOK, TicketInv, HasTicket, TicketsWait, SentWhenFinished, RunnerWaits, CreateDirect
  <2>4. GrantsAreRun'
    BY DEF AQTypeOK, TicketInv, GrantsAreRun, CreateDirect
  <2>   HandIsOpen'
    BY <2>1 DEF AQTypeOK, TicketInv, HandIsOpen, CreateDirect
  <2>   HeldIsKnown'
    BY <2>1 DEF AQTypeOK, TicketInv, HeldIsKnown, CreateDirect
  <2>. QED  BY <2>3, <2>4 DEF TicketInv
<1>2. ASSUME CreateAnswered(c) PROVE TicketInv'
  <2> USE <1>2
  <2>1. ~InHand(c)
    BY DEF TicketInv, HandIsOpen, CreateAnswered
  <2>   \A d \in Creates : InHand(d)' <=> InHand(d)
    BY ZenonT(60) DEF InHand, CreateAnswered
  <2>3. (HasTicket /\ TicketsWait /\ SentWhenFinished /\ RunnerWaits)'
    BY DEF AQTypeOK, TicketInv, HasTicket, TicketsWait, SentWhenFinished, RunnerWaits, CreateAnswered
  <2>4. GrantsAreRun'
    BY DEF AQTypeOK, TicketInv, GrantsAreRun, CreateAnswered
  <2>   HandIsOpen'
    BY <2>1 DEF AQTypeOK, TicketInv, HandIsOpen, CreateAnswered
  <2>   HeldIsKnown'
    BY <2>1 DEF AQTypeOK, TicketInv, HeldIsKnown, CreateAnswered
  <2>. QED  BY <2>3, <2>4 DEF TicketInv
<1>3. ASSUME Park(c) PROVE TicketInv'
  <2> USE <1>3
  <2>1. ~InHand(c)
    BY ZenonT(60) DEF TicketInv, HandIsOpen, Park
  <2>   \A d \in Creates : InHand(d)' <=> InHand(d)
    BY ZenonT(60) DEF InHand, Park
  <2>3. (HasTicket /\ TicketsWait /\ SentWhenFinished /\ RunnerWaits)'
    BY DEF AQTypeOK, TicketInv, HasTicket, TicketsWait, SentWhenFinished, RunnerWaits, Park
  <2>4. GrantsAreRun'
    BY DEF AQTypeOK, TicketInv, GrantsAreRun, Park
  <2>   HandIsOpen'
    BY <2>1 DEF AQTypeOK, TicketInv, HandIsOpen, Park
  <2>   HeldIsKnown'
    BY <2>1 DEF AQTypeOK, TicketInv, HeldIsKnown, Park
  <2>. QED  BY <2>3, <2>4 DEF TicketInv
<1>. QED
  BY <1>1, <1>2, <1>3

\* A pass that did not move has the same ticket in hand.
LEMMA SameInHand ==
  ASSUME SameHand
  PROVE  \A d : (InHand(d)' <=> InHand(d)) /\ (InHand(d) => pass'.at = pass.at)
BY DEF SameHand, InHand

\* A lease that is freed is held no more, and the pass did not move.
LEMMA Freed ==
  ASSUME AQTypeOK, NEW c \in Creates, FreeLease(c)
  PROVE  /\ lease' = [lease EXCEPT ![c] = "released"]
         /\ SameHand
BY CreditSameHand DEF FreeLease

\* A grant moves on, and a lease that is held after the step was held before it
\* or was just won by a grant in flight.
GrantsMove ==
  \A d \in Creates :
    /\ grant'[d] # "no" => grant[d] # "no"
    /\ lease'[d] = "held" => \/ grant'[d] = "lease" /\ grant[d] # "no"
                             \/ lease[d] = "held" /\ (grant[d] = "lease" => grant'[d] = "lease")

\* The tickets hold across a step that leaves the handlers, the channels and the
\* pass where they are.
LEMMA SteadyTickets ==
  ASSUME TicketInv, SameHand, UNCHANGED <<pc, answer, finished, chan, waker>>,
         queue' \subseteq queue, GrantsMove
  PROVE  TicketInv'
<1>   \A d : (InHand(d)' <=> InHand(d)) /\ (InHand(d) => pass'.at = pass.at)
  BY SameInHand
<1>2. (HasTicket /\ RunnerWaits)'
  BY ZenonT(60) DEF TicketInv, HasTicket, RunnerWaits, SameHand
<1>3. (TicketsWait /\ SentWhenFinished)'
  BY ZenonT(60) DEF TicketInv, TicketsWait, SentWhenFinished
<1>4. GrantsAreRun'
  BY ZenonT(60) DEF TicketInv, GrantsAreRun, GrantsMove
<1>   HandIsOpen'
  BY ZenonT(60) DEF TicketInv, HandIsOpen
<1>   HeldIsKnown'
  BY ZenonT(60) DEF TicketInv, GrantsAreRun, HeldIsKnown, GrantsMove
<1>. QED
  BY <1>2, <1>3, <1>4 DEF TicketInv

\* The tickets hold across the end of the handler's wait.
LEMMA WaitTickets ==
  ASSUME AQTypeOK, TicketInv, NEW c \in Creates,
         Disconnect(c) \/ Receive(c) \/ GiveUp(c, "refused") \/ GiveUp(c, "clientGone")
  PROVE  TicketInv'
<1>1. ASSUME Disconnect(c) PROVE TicketInv'
  <2>   UNCHANGED <<pc, answer, queue, finished, chan, waker, grant, lease, pass>>
    BY <1>1, ZenonT(60) DEF Disconnect
  <2>   SameHand /\ GrantsMove
    BY ZenonT(60) DEF SameHand, GrantsMove
  <2>. QED  BY SteadyTickets
<1>2. ASSUME Receive(c) PROVE TicketInv'
  <2> USE <1>2
  <2>   \A d \in Creates : InHand(d)' <=> InHand(d)
    BY ZenonT(60) DEF InHand, Receive
  <2>2. (HasTicket /\ RunnerWaits)'
    BY DEF AQTypeOK, TicketInv, HasTicket, RunnerWaits, Receive
  <2>3. (TicketsWait /\ SentWhenFinished)'
    BY DEF AQTypeOK, TicketInv, TicketsWait, SentWhenFinished, Receive
  <2>4. GrantsAreRun'
    BY DEF AQTypeOK, TicketInv, GrantsAreRun, Receive
  <2>   HandIsOpen'
    BY DEF AQTypeOK, TicketInv, HandIsOpen, SentWhenFinished, Receive
  <2>   HeldIsKnown'
    BY DEF AQTypeOK, TicketInv, HandIsOpen, HeldIsKnown, SentWhenFinished, Receive
  <2>. QED  BY <2>2, <2>3, <2>4 DEF TicketInv
<1>3. ASSUME NEW why \in {"refused", "clientGone"}, GiveUp(c, why) PROVE TicketInv'
  <2> USE <1>3
  <2>   \A d \in Creates : InHand(d)' <=> InHand(d)
    BY ZenonT(60) DEF InHand, GiveUp, Finish, FinishLost
  <2>2. (HasTicket /\ RunnerWaits)'
    BY DEF AQTypeOK, TicketInv, HasTicket, RunnerWaits, GiveUp, Finish, FinishLost
  <2>3. (TicketsWait /\ SentWhenFinished)'
    BY DEF AQTypeOK, TicketInv, TicketsWait, SentWhenFinished, GiveUp, Finish, FinishLost
  <2>4. GrantsAreRun'
    BY DEF AQTypeOK, TicketInv, GrantsAreRun, GiveUp, Finish, FinishLost
  <2>   HandIsOpen'
    BY DEF AQTypeOK, TicketInv, HandIsOpen, SentWhenFinished, GiveUp, Finish, FinishLost
  <2>   HeldIsKnown'
    BY DEF AQTypeOK, TicketInv, HandIsOpen, HeldIsKnown, SentWhenFinished, GiveUp, Finish, FinishLost
  <2>. QED  BY <2>2, <2>3, <2>4 DEF TicketInv
<1>. QED
  BY <1>1, <1>2, <1>3

\* The tickets hold across the releases.
LEMMA ReleaseTickets ==
  ASSUME AQTypeOK, TicketInv, NEW c \in Creates,
         ReleaseGone(c) \/ ClientRelease(c) \/ \E o \in Owners : OwnerRelease(o, c)
  PROVE  TicketInv'
<1>1. ASSUME ReleaseGone(c) PROVE TicketInv'
  <2>   /\ pc[c] = "release" /\ pc' = [pc EXCEPT ![c] = "done"]
        /\ UNCHANGED <<answer, queue, finished, chan, grant, waker>>
    BY <1>1, ZenonT(60) DEF ReleaseGone
  <2>2. SameHand /\ lease'[c] # "held" /\ \A d \in Creates \ {c} : lease'[d] = lease[d]
    <3>1. CASE lease[c] = "held"
      BY <1>1, <3>1, Freed DEF ReleaseGone, AQTypeOK
    <3>2. CASE lease[c] # "held"
      BY <1>1, <3>2, ZenonT(60) DEF ReleaseGone, SameHand
    <3>. QED  BY <3>1, <3>2, ZenonT(60)
  <2>3. \A d : (InHand(d)' <=> InHand(d)) /\ (InHand(d) => pass'.at = pass.at)
    BY <2>2, SameInHand, ZenonT(60)
  <2>   pc'[c] = "done" /\ \A d \in Creates \ {c} : pc'[d] = pc[d]
    BY DEF AQTypeOK
  <2>5. ~InHand(c) /\ grant[c] = "no"
    BY ZenonT(60) DEF TicketInv, HandIsOpen, GrantsAreRun
  <2>6. (HasTicket /\ RunnerWaits)'
    BY <2>2, ZenonT(60) DEF TicketInv, HasTicket, RunnerWaits, SameHand
  <2>7. (TicketsWait /\ SentWhenFinished)'
    BY ZenonT(60) DEF AQTypeOK, TicketInv, TicketsWait, SentWhenFinished
  <2>   GrantsAreRun' /\ HandIsOpen'
    BY <2>3, <2>5, ZenonT(60) DEF TicketInv, GrantsAreRun, HandIsOpen
  <2>   HeldIsKnown'
    BY <2>2, <2>3, ZenonT(60) DEF TicketInv, HeldIsKnown
  <2>. QED  BY <2>6, <2>7 DEF TicketInv
<1>2. ASSUME FreeLease(c), UNCHANGED <<pc, answer, queue, finished, chan, waker, grant>> PROVE TicketInv'
  <2> USE <1>2
  <2>   SameHand /\ lease'[c] # "held" /\ \A d \in Creates \ {c} : lease'[d] = lease[d]
    BY Freed DEF AQTypeOK
  <2>   GrantsMove
    BY ZenonT(60) DEF GrantsMove
  <2>. QED  BY SteadyTickets, ZenonT(60)
<1>3. ASSUME ClientRelease(c) \/ \E o \in Owners : OwnerRelease(o, c) PROVE TicketInv'
  BY <1>2, <1>3, ZenonT(60) DEF ClientRelease, OwnerRelease
<1>. QED
  BY <1>1, <1>3

\* The tickets hold across the grants.
LEMMA GrantTickets ==
  ASSUME AQTypeOK, TicketInv, NEW c \in Creates, GrantStep(c)
  PROVE  TicketInv'
<1>1. SameHand
  BY CreditSameHand, ZenonT(60) DEF GrantStep, GrantDebit, GrantInsert, GrantFail, SameHand
<1>2. UNCHANGED <<pc, answer, queue, finished, chan, waker>>
  BY ZenonT(60) DEF GrantStep, GrantDebit, GrantInsert, GrantFail
<1>3. ASSUME NEW g \in {"capacity", "insert", "ownerGone", "error"}, grant' = [grant EXCEPT ![c] = g],
             grant[c] \in {"debit", "insert"}, UNCHANGED lease
      PROVE  GrantsMove
  BY <1>3 DEF GrantsMove, AQTypeOK
<1>4. ASSUME grant' = [grant EXCEPT ![c] = "lease"], grant[c] = "insert",
             lease' = [lease EXCEPT ![c] = "held"]
      PROVE  GrantsMove
  BY <1>4 DEF GrantsMove, AQTypeOK
<1>   GrantsMove
  BY <1>3, <1>4, ZenonT(60) DEF GrantStep, GrantDebit, GrantInsert, GrantFail
<1>. QED
  BY <1>1, <1>2, SteadyTickets

\* The tickets hold when a pass begins, picks or ends.
LEMMA PickTickets ==
  ASSUME AQTypeOK, TicketInv,
         PassPick \/ PassEnd \/ \E r \in Runners \cup {"tick"} : PassBegin(r)
  PROVE  TicketInv'
<1>1. ASSUME NEW r \in Runners \cup {"tick"}, PassBegin(r) PROVE TicketInv'
  <2> USE <1>1
  <2>   /\ pass = NoPass /\ pass' \in PassRecord /\ pass'.by = r /\ pass'.at = "pick"
        /\ \A d : ~InHand(d) /\ ~InHand(d)'
    BY BeginsPass DEF InHand
  <2>7. Creates \cap (Wakers \cup {"tick"}) = {}
    BY AdmissionAssumption
  <2>8. (r \in Creates => pc[r] = "pass") /\ (r \in Wakers => waker[r] = "pass")
    <3>   \/ r \in Creates /\ pc[r] = "pass"
          \/ r \in Wakers /\ waker[r] = "pass"
          \/ r = "tick"
      BY DEF PassBegin
    <3>   "tick" \notin Wakers
      BY AdmissionAssumption, ZenonT(60)
    <3>. QED  BY <2>7, ZenonT(60)
  <2>2. (HasTicket /\ RunnerWaits)'
    BY <2>8, ZenonT(60) DEF HasTicket, RunnerWaits, PassBegin
  <2>3. (TicketsWait /\ SentWhenFinished)'
    BY ZenonT(60) DEF AQTypeOK, TicketInv, TicketsWait, SentWhenFinished, PassBegin, Runners
  <2>4. GrantsAreRun'
    BY DEF AQTypeOK, TicketInv, GrantsAreRun, PassBegin, Runners
  <2>   HandIsOpen'
    BY ZenonT(60) DEF AQTypeOK, TicketInv, HandIsOpen, TicketsWait, SentWhenFinished, PassBegin, Runners
  <2>   HeldIsKnown'
    BY ZenonT(60) DEF AQTypeOK, TicketInv, HandIsOpen, HeldIsKnown, SentWhenFinished, PassBegin, Runners
  <2>. QED  BY <2>2, <2>3, <2>4 DEF TicketInv
<1>2. ASSUME PassPick PROVE TicketInv'
  <2>   PICK t \in queue \ finished :
           /\ pass # NoPass /\ pass.at = "pick"
           /\ pass' \in PassRecord
           /\ pass'.t = t /\ pass'.by = pass.by
           /\ pass'.at = IF draining THEN "draining" ELSE "grant"
           /\ grant' = [grant EXCEPT ![t] = IF draining THEN "no" ELSE Reserved(t)]
    BY <1>2, PicksOne
  <2>   pass' # NoPass /\ t \in Creates
    BY PassIsSome DEF AQTypeOK
  <2>   \A d : ~InHand(d) /\ (InHand(d)' <=> d = t /\ ~draining)
    BY DEF InHand
  <2>9. pc[t] \in {"pass", "select"} /\ chan[t] = "empty"
    BY DEF TicketInv, TicketsWait, SentWhenFinished
  <2>10. \A d \in Creates : grant[d] # "no" => pc[d] = "direct"
    BY DEF TicketInv, GrantsAreRun
  <2>11. UNCHANGED <<pc, chan, finished, answer, lease>>
    BY <1>2, ZenonT(60) DEF PassPick
  <2>12. lease[t] # "held"
    BY <2>9 DEF TicketInv, HeldIsKnown
  <2>13. \A d \in Creates : d # t => grant'[d] = grant[d]
    BY DEF AQTypeOK
  <2>14. grant'[t] # "no" => ~draining /\ pass'.at = "grant"
    BY DEF AQTypeOK
  <2>2. (HasTicket /\ RunnerWaits)'
    BY <1>2, ZenonT(60) DEF AQTypeOK, TicketInv, HasTicket, RunnerWaits, PassPick
  <2>3. (TicketsWait /\ SentWhenFinished)'
    BY <1>2, ZenonT(60) DEF AQTypeOK, TicketInv, TicketsWait, SentWhenFinished, PassPick
  <2>4. GrantsAreRun'
    BY <2>10, <2>11, <2>13, <2>14 DEF GrantsAreRun
  <2>   HandIsOpen'
    BY <2>9, <2>11, ZenonT(60) DEF HandIsOpen
  <2>   HeldIsKnown'
    BY <2>11, <2>12, <2>13 DEF TicketInv, HeldIsKnown
  <2>. QED  BY <2>2, <2>3, <2>4 DEF TicketInv
<1>3. ASSUME PassEnd PROVE TicketInv'
  <2>   /\ pass # NoPass /\ pass' = NoPass
        /\ \A d : ~InHand(d) /\ ~InHand(d)'
    BY <1>3, ZenonT(60) DEF InHand, PassEnd
  <2>7. pass.by \in Creates => pc[pass.by] = "pass"
    BY DEF TicketInv, RunnerWaits
  <2>   \A d \in Creates : pc'[d] = pc[d] \/ (pc[d] = "pass" /\ pc'[d] = "select")
    <3>   pc' = IF pass.by \in Creates THEN [pc EXCEPT ![pass.by] = "select"] ELSE pc
      BY <1>3, ZenonT(60) DEF PassEnd
    <3>   pc \in [Creates -> {"new", "direct", "park", "pass", "select", "recv", "release", "done"}]
      BY ZenonT(60) DEF AQTypeOK
    <3>. QED  BY <2>7
  <2>   UNCHANGED <<queue, finished, chan, answer, grant, lease>>
    BY <1>3, ZenonT(60) DEF PassEnd
  <2>2. (HasTicket /\ RunnerWaits)'
    BY ZenonT(60) DEF HasTicket, RunnerWaits
  <2>3. (TicketsWait /\ SentWhenFinished)'
    BY DEF AQTypeOK, TicketInv, TicketsWait, SentWhenFinished
  <2>4. GrantsAreRun'
    BY ZenonT(60) DEF TicketInv, GrantsAreRun
  <2>   HandIsOpen'
    BY ZenonT(60) DEF HandIsOpen
  <2>   HeldIsKnown'
    BY ZenonT(60) DEF TicketInv, HeldIsKnown
  <2>. QED  BY <2>2, <2>3, <2>4, ZenonT(60) DEF TicketInv
<1>. QED
  BY <1>1, <1>2, <1>3

\* The tickets hold when the pass answers, releases or drains.
LEMMA AnswerTickets ==
  ASSUME AQTypeOK, TicketInv, PassRefused \/ PassGranted \/ PassRelease \/ PassDraining
  PROVE  TicketInv'
<1>1. ASSUME PassRefused PROVE TicketInv'
  <2> USE <1>1
  <2>   pass \in PassRecord /\ pass # NoPass /\ pass' # NoPass /\ pass'.by = pass.by /\ pass'.t = pass.t
    BY PassGoesOn, PassIsSome
  <2>   pass.t \in Creates
    BY DEF PassRefused, TicketInv, HasTicket
  <2>   pass'.at = "pick" /\ (\A d : (InHand(d) <=> d = pass.t) /\ ~InHand(d)')
    BY DEF InHand, PassRefused, PassRecord
  <2>   \A d \in Creates : \/ chan'[d] = chan[d]
                           \/ d = pass.t /\ chan[d] = "empty" /\ chan'[d] = "ownerGone" /\ d \in finished'
    BY SendTypes DEF PassRefused, Finish, AQTypeOK
  <2>    finished \subseteq finished' /\ queue' \subseteq queue
    BY DEF PassRefused, Finish
  <2>2. (HasTicket /\ RunnerWaits)'
    BY DEF AQTypeOK, TicketInv, HasTicket, RunnerWaits, PassRefused
  <2>3. (TicketsWait /\ SentWhenFinished)'
    BY DEF AQTypeOK, TicketInv, TicketsWait, SentWhenFinished, PassRefused
  <2>4. GrantsAreRun'
    BY DEF AQTypeOK, TicketInv, GrantsAreRun, PassRefused
  <2>   HandIsOpen'
    BY DEF AQTypeOK, TicketInv, HandIsOpen, PassRefused
  <2>   HeldIsKnown'
    BY DEF AQTypeOK, TicketInv, HandIsOpen, HeldIsKnown, SentWhenFinished, PassRefused
  <2>. QED  BY <2>2, <2>3, <2>4 DEF TicketInv
<1>2. ASSUME PassGranted PROVE TicketInv'
  <2> USE <1>2
  <2>1. pass \in PassRecord /\ pass # NoPass /\ pass' # NoPass /\ pass'.by = pass.by /\ pass'.t = pass.t
    BY PassGoesOn, PassIsSome
  <2>   pass.t \in Creates
    BY DEF PassGranted, TicketInv, HasTicket
  <2>8. InHand(pass.t) /\ pass.at = "grant" /\ \A d : InHand(d) => d = pass.t
    BY <2>1 DEF InHand, PassGranted
  <2>9. ASSUME FinishLost(pass.t) PROVE TicketInv'
    <3>   pass'.at = "release" /\ \A d : InHand(d)' <=> InHand(d)
      BY <2>1, <2>8, <2>9 DEF InHand, PassGranted, PassRecord
    <3>   UNCHANGED <<pc, queue, finished, chan, answer, lease, waker>>
      BY <2>9, ZenonT(60) DEF PassGranted
    <3>3. (HasTicket /\ RunnerWaits /\ TicketsWait /\ SentWhenFinished /\ HandIsOpen)'
      BY <2>1 DEF TicketInv, HasTicket, RunnerWaits, TicketsWait, SentWhenFinished, HandIsOpen
    <3>   GrantsAreRun'
      BY <2>8 DEF AQTypeOK, TicketInv, GrantsAreRun, PassGranted
    <3>   HeldIsKnown'
      BY <2>8 DEF AQTypeOK, TicketInv, HeldIsKnown, PassGranted
    <3>. QED  BY <3>3 DEF TicketInv
  <2>10. ASSUME ~FinishLost(pass.t) PROVE TicketInv'
    <3> USE <2>10
    <3>1. pass'.at = "pick" /\ \A d : ~InHand(d)'
      BY <2>1 DEF InHand, PassGranted, PassRecord
    <3>2. pass.t \notin finished /\ chan[pass.t] = "empty" /\ pc[pass.t] \in {"pass", "select"}
      BY <2>8 DEF FinishLost, TicketInv, SentWhenFinished, HandIsOpen
    <3>3. chan'[pass.t] = "lease" /\ \A d \in Creates : d # pass.t => chan'[d] = chan[d]
      BY <3>2, SendTypes DEF PassGranted
    <3>   /\ finished' = finished \cup {pass.t} /\ queue' \subseteq queue
          /\ UNCHANGED <<pc, answer, lease, waker>>
      BY DEF PassGranted, Finish
    <3>5. (HasTicket /\ RunnerWaits /\ HandIsOpen)'
      BY <2>1, <3>1, ZenonT(60) DEF TicketInv, HasTicket, RunnerWaits, HandIsOpen
    <3>6. (TicketsWait /\ SentWhenFinished)'
      BY <3>3 DEF TicketInv, TicketsWait, SentWhenFinished
    <3>   GrantsAreRun'
      BY <2>8, <3>1 DEF AQTypeOK, TicketInv, GrantsAreRun, PassGranted
    <3>   HeldIsKnown'
      BY <2>8, <3>1, <3>2, <3>3 DEF AQTypeOK, TicketInv, HeldIsKnown, PassGranted
    <3>. QED  BY <3>5, <3>6 DEF TicketInv
  <2>. QED  BY <2>9, <2>10
<1>3. ASSUME PassRelease PROVE TicketInv'
  <2> USE <1>3
  <2>   pass \in PassRecord /\ pass # NoPass /\ pass' # NoPass /\ pass'.by = pass.by /\ pass'.t = pass.t
    BY PassGoesOn, PassIsSome
  <2>   pass.t \in Creates
    BY DEF PassRelease, TicketInv, HasTicket
  <2>   pass'.at = "pick" /\ (\A d : (InHand(d) <=> d = pass.t) /\ ~InHand(d)')
    BY ZenonT(60) DEF InHand, PassRelease, PassRecord
  <2>2. (HasTicket /\ RunnerWaits)'
    BY DEF AQTypeOK, TicketInv, HasTicket, RunnerWaits, PassRelease
  <2>3. (TicketsWait /\ SentWhenFinished)'
    BY DEF AQTypeOK, TicketInv, TicketsWait, SentWhenFinished, PassRelease
  <2>4. GrantsAreRun'
    BY DEF AQTypeOK, TicketInv, GrantsAreRun, PassRelease
  <2>   HandIsOpen'
    BY DEF AQTypeOK, TicketInv, HandIsOpen, PassRelease
  <2>   HeldIsKnown'
    BY DEF AQTypeOK, TicketInv, HandIsOpen, HeldIsKnown, SentWhenFinished, PassRelease
  <2>. QED  BY <2>2, <2>3, <2>4 DEF TicketInv
<1>4. ASSUME PassDraining PROVE TicketInv'
  <2> USE <1>4
  <2>   pass \in PassRecord /\ pass # NoPass /\ pass' # NoPass /\ pass'.by = pass.by /\ pass'.t = pass.t
    BY PassGoesOn, PassIsSome
  <2>   pass.t \in Creates
    BY DEF PassDraining, TicketInv, HasTicket
  <2>   pass'.at = "swept" /\ (\A d : ~InHand(d) /\ ~InHand(d)')
    BY DEF InHand, PassDraining, PassRecord
  <2>   \A d \in Creates : \/ chan'[d] = chan[d]
                           \/ d = pass.t /\ chan[d] = "empty" /\ chan'[d] = "draining"
    BY SendTypes DEF PassDraining
  <2>2. (HasTicket /\ RunnerWaits)'
    BY DEF AQTypeOK, TicketInv, HasTicket, RunnerWaits, PassDraining
  <2>3. (TicketsWait /\ SentWhenFinished)'
    BY DEF AQTypeOK, TicketInv, TicketsWait, SentWhenFinished, PassDraining
  <2>4. GrantsAreRun'
    BY DEF AQTypeOK, TicketInv, GrantsAreRun, PassDraining
  <2>   HandIsOpen'
    BY DEF AQTypeOK, TicketInv, HandIsOpen, PassDraining
  <2>   HeldIsKnown'
    BY DEF AQTypeOK, TicketInv, HandIsOpen, HeldIsKnown, SentWhenFinished, PassDraining
  <2>. QED  BY <2>2, <2>3, <2>4 DEF TicketInv
<1>. QED
  BY <1>1, <1>2, <1>3, <1>4

\* The tickets hold across the wakes, the drain and the deletion of an owner.
LEMMA OtherTickets ==
  ASSUME AQTypeOK, TicketInv,
         \/ \E c \in Creates : WakeStep(c)
         \/ \E w \in Wakers : WakerStep(w)
         \/ \E who \in DOMAIN sweep, c \in Creates : SweepAnswer(who, c)
         \/ DrainTake \/ DrainStart \/ Undrain
         \/ \E o \in Owners : OwnerCancel(o) \/ OwnerDone(o) \/ OwnerMark(o)
  PROVE  TicketInv'
<1>1. \A d : InHand(d)' <=> InHand(d)
  BY ZenonT(60) DEF InHand, WakeStep, WakePend, WakeCas, WakerStep, SweepAnswer, DrainTake, DrainStart, Undrain,
         OwnerCancel, OwnerDone, OwnerMark
<1>2. UNCHANGED <<pc, pass, grant, answer, lease>>
  BY ZenonT(60) DEF WakeStep, WakePend, WakeCas, WakerStep, SweepAnswer, DrainTake, DrainStart, Undrain,
         OwnerCancel, OwnerDone, OwnerMark
<1>3. queue' \subseteq queue /\ finished \subseteq finished'
  BY ZenonT(60) DEF WakeStep, WakePend, WakeCas, WakerStep, SweepAnswer, Finish, DrainTake, DrainStart, Undrain,
         OwnerCancel, OwnerDone, OwnerMark
<1>4. \A d \in Creates : \/ chan'[d] = chan[d]
                         \/ chan[d] = "empty" /\ chan'[d] \in {"draining", "ownerGone"} /\ d \in finished'
  <2>1. ASSUME NEW who \in DOMAIN sweep, NEW c \in Creates, SweepAnswer(who, c)
        PROVE  \A d \in Creates :
                 \/ chan'[d] = chan[d]
                 \/ chan[d] = "empty" /\ chan'[d] \in {"draining", "ownerGone"} /\ d \in finished'
    <3> USE <2>1
    <3>1. CASE FinishLost(c)
      BY <3>1 DEF SweepAnswer
    <3>2. CASE ~FinishLost(c)
      <4>   PICK out \in {"draining", "ownerGone"} : Send(c, out) /\ c \in finished'
        BY <3>2 DEF SweepAnswer, Finish
      <4>. QED  BY SendTypes
    <3>. QED  BY <3>1, <3>2
  <2>2. CASE UNCHANGED chan
    BY <2>2
  <2>. QED
    BY <2>1, <2>2, ZenonT(60) DEF WakeStep, WakePend, WakeCas, WakerStep, DrainTake, DrainStart, Undrain,
         OwnerCancel, OwnerDone, OwnerMark
<1>5. pass # NoPass /\ pass.by \in Wakers => waker'[pass.by] = "pass"
  <2>1. ASSUME NEW c \in Creates, WakeCas(c)
        PROVE  pass # NoPass /\ pass.by \in Wakers => waker'[pass.by] = "pass"
    <3>1. waker' = waker \/ \E w \in Wakers : waker[w] = "idle" /\ waker' = [waker EXCEPT ![w] = "clear"]
      BY <2>1, ZenonT(60) DEF WakeCas
    <3>   DOMAIN waker = Wakers
      BY ZenonT(60) DEF AQTypeOK
    <3>   pass # NoPass /\ pass.by \in Wakers => waker[pass.by] = "pass"
      BY ZenonT(60) DEF TicketInv, RunnerWaits
    <3>. QED  BY <3>1
  <2>2. ASSUME NEW w \in Wakers, WakerStep(w)
        PROVE  pass # NoPass /\ pass.by \in Wakers => waker'[pass.by] = "pass"
    <3>1. waker[w] # "pass" /\ \E a : waker' = [waker EXCEPT ![w] = a]
      BY <2>2, ZenonT(60) DEF WakerStep
    <3>   DOMAIN waker = Wakers
      BY ZenonT(60) DEF AQTypeOK
    <3>   pass # NoPass /\ pass.by \in Wakers => waker[pass.by] = "pass"
      BY ZenonT(60) DEF TicketInv, RunnerWaits
    <3>. QED  BY <3>1
  <2>3. CASE UNCHANGED waker
    BY <2>3, ZenonT(60) DEF TicketInv, RunnerWaits
  <2>. QED
    BY <2>1, <2>2, <2>3, ZenonT(60) DEF WakeStep, WakePend, SweepAnswer, DrainTake, DrainStart, Undrain,
         OwnerCancel, OwnerDone, OwnerMark
<1>6. (HasTicket /\ RunnerWaits /\ TicketsWait /\ SentWhenFinished)'
  BY <1>2, <1>3, <1>4, <1>5, ZenonT(60) DEF TicketInv, HasTicket, RunnerWaits, TicketsWait, SentWhenFinished
<1>   (GrantsAreRun /\ HandIsOpen)'
  BY <1>1, <1>2, <1>3, <1>4, ZenonT(60) DEF TicketInv, GrantsAreRun, HandIsOpen
<1>   HeldIsKnown'
  BY <1>1, <1>2, <1>4, ZenonT(60) DEF TicketInv, HeldIsKnown
<1>. QED
  BY <1>6 DEF TicketInv

\* Every step keeps the types and the tickets.
LEMMA NextTickets ==
  ASSUME AQTypeOK, TicketInv, AQNext
  PROVE  AQTypeOK' /\ TicketInv'
<1>1. ASSUME NEW c \in Creates, CreateDirect(c) \/ Disconnect(c) \/ ClientRelease(c) \/ HandlerStep(c)
      PROVE  AQTypeOK' /\ TicketInv'
  BY <1>1, HandlerTypes, DirectTickets, WaitTickets, ReleaseTickets DEF HandlerStep
<1>2. ASSUME NEW c \in Creates, GrantStep(c) PROVE AQTypeOK' /\ TicketInv'
  BY <1>2, GrantTypes, GrantTickets
<1>3. ASSUME PassStep \/ \E r \in Runners \cup {"tick"} : PassBegin(r) PROVE AQTypeOK' /\ TicketInv'
  <2>   HasTicket
    BY DEF TicketInv
  <2>. QED  BY <1>3, PassTypes, PickTickets, AnswerTickets DEF PassStep
<1>4. ASSUME \/ \E c \in Creates : WakeStep(c)
             \/ \E w \in Wakers : WakerStep(w)
             \/ AdminStep \/ DrainStart \/ Undrain
             \/ \E o \in Owners : OwnerMark(o)
      PROVE  AQTypeOK' /\ TicketInv'
  BY <1>4, OtherTypes, OtherTickets, ReleaseTickets DEF AdminStep
<1>. QED
  BY <1>1, <1>2, <1>3, <1>4 DEF AQNext

-----------------------------------------------------------------------------
(* Wakes.                                                                  *)

WakeInv == OneScheduled /\ OwedIsComing

\* The runner of a pass, if there is one after the step, is the one before.
SameRunner == pass' # NoPass => pass # NoPass /\ pass'.by = pass.by

\* A step that leaves the wakes alone, puts no ticket in the list and begins no
\* pass keeps what is on its way.
LEMMA WakesKept ==
  ASSUME AQTypeOK, WakeInv, UNCHANGED <<waking, wakePending, wakeScheduled, waker, owed>>,
         queue' \subseteq queue, \A c \in Creates : pc[c] = "pass" => pc'[c] = "pass",
         SameRunner
  PROVE  WakeInv'
<1>1. OneScheduled'
  BY DEF WakeInv, OneScheduled
<1>   \A r : Coming(r) => Coming(r)'
  BY DEF Coming, SameRunner
<1>   WakeOnItsWay => WakeOnItsWay'
  BY DEF WakeOnItsWay
<1>   owed' /\ queue' # {} => owed /\ queue # {}
  OBVIOUS
<1>. QED
  BY <1>1 DEF WakeInv, OwedIsComing

\* A release calls wakeAdmissionQueue.
LEMMA WakesCalled ==
  ASSUME AQTypeOK, WakeInv, UNCHANGED <<wakePending, wakeScheduled, waker>>,
         NEW c \in Creates, waking' = [waking EXCEPT ![c] = "depth"]
  PROVE  WakeInv'
<1>1. OneScheduled'
  BY DEF WakeInv, OneScheduled
<1>   waking'[c] = "depth"
  BY DEF AQTypeOK
<1>   WakeOnItsWay'
  BY DEF WakeOnItsWay
<1>. QED
  BY <1>1 DEF WakeInv, OwedIsComing

\* The handler and the grant keep the wakes.
LEMMA HandlerWakes ==
  ASSUME AQTypeOK, WakeInv, NEW c \in Creates,
         \/ CreateDirect(c) \/ Disconnect(c) \/ ClientRelease(c) \/ HandlerStep(c) \/ GrantStep(c)
         \/ \E o \in Owners : OwnerRelease(o, c)
  PROVE  WakeInv'
<1>1. ASSUME CreateDirect(c) \/ Disconnect(c) \/ CreateAnswered(c) \/ Receive(c) PROVE WakeInv'
  <2>   /\ UNCHANGED <<waking, wakePending, wakeScheduled, waker, owed, queue, pass>>
        /\ pc' = pc \/ (pc[c] # "pass" /\ \E a : pc' = [pc EXCEPT ![c] = a])
    BY <1>1, ZenonT(60) DEF CreateDirect, Disconnect, CreateAnswered, Receive
  <2>   \A d \in Creates : pc[d] = "pass" => pc'[d] = "pass"
    BY DEF AQTypeOK
  <2>   SameRunner
    BY ZenonT(60) DEF SameRunner
  <2>. QED  BY WakesKept
<1>2. ASSUME FreeLease(c), UNCHANGED <<wakePending, wakeScheduled, waker>> PROVE WakeInv'
  BY <1>2, WakesCalled, ZenonT(60) DEF FreeLease
<1>3. ASSUME ClientRelease(c) \/ \E o \in Owners : OwnerRelease(o, c) PROVE WakeInv'
  BY <1>2, <1>3, ZenonT(60) DEF ClientRelease, OwnerRelease
<1>4. ASSUME ReleaseGone(c) PROVE WakeInv'
  <2> USE <1>4
  <2>1. CASE lease[c] = "held"
    BY <1>2, <2>1, ZenonT(60) DEF ReleaseGone
  <2>2. CASE lease[c] # "held"
    BY <2>2, WakesKept DEF ReleaseGone, SameRunner, AQTypeOK
  <2>. QED  BY <2>1, <2>2
<1>5. ASSUME Park(c) PROVE WakeInv'
  <2> USE <1>5
  <2>1. CASE OwnerOf[c] \in deleted
    BY <2>1, WakesKept DEF Park, SameRunner, AQTypeOK
  <2>2. CASE OwnerOf[c] \notin deleted
    BY <2>2, WakesCalled, ZenonT(60) DEF Park
  <2>. QED  BY <2>1, <2>2, ZenonT(60)
<1>6. ASSUME NEW why, GiveUp(c, why) PROVE WakeInv'
  BY <1>6, WakesKept DEF GiveUp, Finish, SameRunner, AQTypeOK
<1>7. ASSUME GrantStep(c) PROVE WakeInv'
  <2> USE <1>7
  <2>   SameRunner
    BY CreditSameHand, ZenonT(60) DEF GrantStep, GrantDebit, GrantInsert, GrantFail, SameHand, SameRunner
  <2>   UNCHANGED <<waking, wakePending, wakeScheduled, waker, owed, queue, pc>>
    BY ZenonT(60) DEF GrantStep, GrantDebit, GrantInsert, GrantFail
  <2>. QED  BY WakesKept
<1>. QED
  BY <1>1, <1>3, <1>4, <1>5, <1>6, <1>7, ZenonT(60) DEF HandlerStep

\* The pass keeps the wakes.
LEMMA PassWakes ==
  ASSUME AQTypeOK, TicketInv, WakeInv, PassStep \/ \E r \in Runners \cup {"tick"} : PassBegin(r)
  PROVE  WakeInv'
<1>1. ASSUME NEW r, PassBegin(r) PROVE WakeInv'
  BY <1>1, ZenonT(60) DEF PassBegin, WakeInv, OneScheduled, OwedIsComing
<1>2. ASSUME PassPick PROVE WakeInv'
  <2> USE <1>2
  <2>   SameRunner
    BY PicksOne DEF SameRunner
  <2>. QED  BY WakesKept DEF PassPick
<1>3. ASSUME PassRefused \/ PassGranted \/ PassDraining PROVE WakeInv'
  <2> USE <1>3
  <2>   SameRunner
    BY PassGoesOn DEF SameRunner
  <2>   UNCHANGED <<waking, wakePending, wakeScheduled, waker, owed, pc>> /\ queue' \subseteq queue
    BY DEF PassRefused, PassGranted, PassDraining, Finish
  <2>. QED  BY WakesKept
<1>4. ASSUME PassRelease PROVE WakeInv'
  <2> USE <1>4
  <2>1. CASE lease[pass.t] = "held"
    <3>   pass.t \in Creates
      BY DEF PassRelease, TicketInv, HasTicket
    <3>. QED  BY <2>1, WakesCalled DEF PassRelease
  <2>2. CASE lease[pass.t] # "held"
    <3>   SameRunner
      BY PassGoesOn DEF SameRunner
    <3>. QED  BY <2>2, WakesKept DEF PassRelease
  <2>. QED  BY <2>1, <2>2
<1>5. ASSUME PassEnd PROVE WakeInv'
  <2> USE <1>5
  <2>   pass # NoPass /\ pass' = NoPass
    BY ZenonT(60) DEF PassEnd
  <2>2. \A c \in Creates : pc[c] = "pass" /\ Coming(c) => pc'[c] = "pass" /\ Coming(c)'
    BY ZenonT(60) DEF PassEnd, Coming, AQTypeOK
  <2>   \A w \in Wakers : \/ waker'[w] = waker[w]
                          \/ waker[w] = "pass" /\ ~Coming(w) /\ waker'[w] = "cas"
    BY DEF PassEnd, Coming, AQTypeOK, TicketInv, RunnerWaits
  <2>4. \A w \in Wakers : Coming(w)'
    BY DEF Coming
  <2>   UNCHANGED <<waking, wakePending, wakeScheduled, owed, queue>>
    BY ZenonT(60) DEF PassEnd
  <2>   OneScheduled'
    BY ZenonT(60) DEF WakeInv, OneScheduled, Scheduled
  <2>   WakeOnItsWay => WakeOnItsWay'
    BY <2>2, <2>4, ZenonT(60) DEF WakeOnItsWay
  <2>. QED  BY ZenonT(60) DEF WakeInv, OwedIsComing
<1>. QED
  BY <1>1, <1>2, <1>3, <1>4, <1>5 DEF PassStep

\* wakeAdmissionQueue keeps the wakes: the flag is up before the goroutine is
\* looked for, and a goroutine that is scheduled has yet to look at the flag.
LEMMA CallWakes ==
  ASSUME AQTypeOK, WakeInv, NEW c \in Creates, WakeStep(c)
  PROVE  WakeInv'
<1>0. \A r : Coming(r)' <=> Coming(r)
  BY ZenonT(60) DEF WakeStep, WakePend, WakeCas, Coming
<1>1. ASSUME WakePend(c) PROVE WakeInv'
  <2> USE <1>1
  <2>   OneScheduled'
    BY DEF WakePend, WakeInv, OneScheduled
  <2>2. CASE queue = {}
    BY <2>2 DEF WakePend, WakeInv, OwedIsComing
  <2>3. CASE queue # {}
    <3>   wakePending' /\ waking'[c] = "cas"
      BY <2>3, ZenonT(60) DEF WakePend, Pended, AQTypeOK
    <3>. QED  BY ZenonT(60) DEF WakeInv, OwedIsComing, WakeOnItsWay
  <2>. QED  BY <2>2, <2>3
<1>2. ASSUME WakeCas(c), wakeScheduled PROVE WakeInv'
  <2> USE <1>2
  <2>   UNCHANGED <<wakePending, wakeScheduled, waker, pc, owed, queue>>
    BY Zenon DEF WakeCas
  <2>2. OneScheduled'
    BY DEF WakeInv, OneScheduled
  <2>3. \E w \in Wakers : waker'[w] # "idle"
    BY ZenonT(60) DEF WakeInv, OneScheduled, Scheduled
  <2>   \A d \in Creates : waking[d] = "depth" => waking'[d] = "depth"
    BY DEF WakeCas, AQTypeOK
  <2>   WakeOnItsWay => WakeOnItsWay'
    BY <1>0, <2>3, Zenon DEF WakeOnItsWay
  <2>. QED  BY <2>2 DEF WakeInv, OwedIsComing
<1>3. ASSUME WakeCas(c), ~wakeScheduled PROVE WakeInv'
  <2> USE <1>3
  <2>1. PICK w \in Wakers : waker' = [waker EXCEPT ![w] = "clear"]
    BY Zenon DEF WakeCas
  <2>2. wakeScheduled'
    BY Zenon DEF WakeCas
  <2>   waker'[w] = "clear" /\ \A v \in Wakers : waker[v] \notin Scheduled
    BY <2>1 DEF AQTypeOK, WakeInv, OneScheduled
  <2>4. \A v \in Wakers : v # w => waker'[v] = waker[v]
    BY <2>1 DEF AQTypeOK
  <2>   OneScheduled'
    BY <2>2, <2>4, ZenonT(60) DEF OneScheduled, Scheduled
  <2>   WakeOnItsWay'
    BY ZenonT(60) DEF WakeOnItsWay
  <2>. QED  BY DEF WakeInv, OwedIsComing
<1>. QED
  BY <1>1, <1>2, <1>3 DEF WakeStep

\* scheduledWake keeps the wakes: it gives the flag up before it looks for what
\* was left pending, and takes it again when something was.
LEMMA GoroutineWakes ==
  ASSUME AQTypeOK, TicketInv, WakeInv, NEW w \in Wakers, WakerStep(w)
  PROVE  WakeInv'
<1>1. \A r : Coming(r)' <=> Coming(r)
  BY DEF WakerStep, Coming
<1>2. UNCHANGED <<pc, waking, owed, queue>>
  BY ZenonT(60) DEF WakerStep
<1>3. \A v \in Wakers : v # w => waker'[v] = waker[v]
  BY DEF WakerStep, AQTypeOK
<1>4. ASSUME waker[w] = "clear" PROVE WakeInv'
  <2> USE <1>4
  <2>   waker'[w] = "pass" /\ wakeScheduled' = wakeScheduled
    BY DEF WakerStep, AQTypeOK
  <2>2. Coming(w)
    BY ZenonT(60) DEF Coming, TicketInv, RunnerWaits
  <2>   OneScheduled'
    BY <1>3 DEF WakeInv, OneScheduled, Scheduled
  <2>   WakeOnItsWay'
    BY <1>1, <2>2, ZenonT(60) DEF WakeOnItsWay
  <2>. QED  BY ZenonT(60) DEF WakeInv, OwedIsComing
<1>5. ASSUME waker[w] = "cas" PROVE WakeInv'
  <2> USE <1>5
  <2>1. wakeScheduled
    BY ZenonT(60) DEF WakeInv, OneScheduled, Scheduled
  <2>   waker'[w] = "check" /\ ~wakeScheduled'
    BY <2>1 DEF WakerStep, AQTypeOK
  <2>3. wakePending' = wakePending
    BY DEF WakerStep
  <2>4. \A v \in Wakers : v # w => waker[v] \notin Scheduled
    BY DEF WakeInv, OneScheduled, Scheduled
  <2>   OneScheduled'
    BY <1>3, <2>4, ZenonT(60) DEF OneScheduled, Scheduled
  <2>   WakeOnItsWay => WakeOnItsWay'
    BY <1>1, <1>2, <1>3, <2>3, ZenonT(60) DEF WakeOnItsWay
  <2>. QED  BY <1>2 DEF WakeInv, OwedIsComing
<1>6. ASSUME waker[w] = "check" PROVE WakeInv'
  <2> USE <1>6
  <2>   waker'[w] = IF wakePending THEN "recas" ELSE "idle"
    BY DEF WakerStep, AQTypeOK
  <2>   UNCHANGED <<wakePending, wakeScheduled>>
    BY DEF WakerStep
  <2>   OneScheduled'
    BY <1>3, ZenonT(60) DEF WakeInv, OneScheduled, Scheduled
  <2>   WakeOnItsWay => WakeOnItsWay'
    BY <1>1, <1>2, <1>3, ZenonT(60) DEF WakeOnItsWay
  <2>. QED  BY <1>2, ZenonT(60) DEF WakeInv, OwedIsComing
<1>7. ASSUME waker[w] = "recas", wakeScheduled PROVE WakeInv'
  <2> USE <1>7
  <2>   waker'[w] = "idle" /\ wakeScheduled' /\ wakePending' = wakePending
    BY DEF WakerStep, AQTypeOK
  <2>   PICK v \in Wakers : waker[v] \in Scheduled /\ v # w
    BY DEF WakeInv, OneScheduled, Scheduled
  <2>   waker'[v] # "idle" /\ waker'[v] \in Scheduled
    BY <1>3, ZenonT(60) DEF Scheduled
  <2>   OneScheduled'
    BY <1>3, ZenonT(60) DEF WakeInv, OneScheduled, Scheduled
  <2>   WakeOnItsWay => WakeOnItsWay'
    BY <1>1, <1>2, <1>3, ZenonT(60) DEF WakeOnItsWay
  <2>. QED  BY <1>2, ZenonT(60) DEF WakeInv, OwedIsComing
<1>8. ASSUME waker[w] = "recas", ~wakeScheduled PROVE WakeInv'
  <2> USE <1>8
  <2>   waker'[w] = "clear" /\ wakeScheduled'
    BY ZenonT(60) DEF WakerStep, AQTypeOK
  <2>   OneScheduled'
    BY <1>3 DEF WakeInv, OneScheduled, Scheduled
  <2>   WakeOnItsWay'
    BY DEF WakeOnItsWay
  <2>. QED  BY ZenonT(60) DEF WakeInv, OwedIsComing
<1>. QED
  BY <1>4, <1>5, <1>6, <1>7, <1>8, ZenonT(60) DEF WakerStep

\* The drain and the deletion keep the wakes.
LEMMA AdminWakes ==
  ASSUME AQTypeOK, WakeInv,
         \/ \E who \in DOMAIN sweep, c \in Creates : SweepAnswer(who, c)
         \/ DrainTake \/ DrainStart \/ Undrain
         \/ \E o \in Owners : OwnerCancel(o) \/ OwnerDone(o) \/ OwnerMark(o)
  PROVE  WakeInv'
<1>   UNCHANGED <<waking, wakePending, wakeScheduled, waker, owed, pc, pass>> /\ queue' \subseteq queue
  BY ZenonT(60) DEF SweepAnswer, Finish, DrainTake, DrainStart, Undrain, OwnerCancel, OwnerDone, OwnerMark
<1>. QED
  BY WakesKept DEF SameRunner

\* Every step keeps the wakes.
LEMMA NextWakes == ASSUME AQTypeOK, TicketInv, WakeInv, AQNext PROVE WakeInv'
BY HandlerWakes, PassWakes, CallWakes, GoroutineWakes, AdminWakes DEF AQNext, AdminStep

-----------------------------------------------------------------------------
(* Room.                                                                   *)

Taken == {c \in Creates : grant[c] = "insert" \/ lease[c] = "held"}

\* A held lease is past its debit.
LEMMA HeldIsGranted ==
  ASSUME AQTypeOK, TicketInv, NEW c \in Creates, lease[c] = "held"
  PROVE  grant[c] \in {"no", "lease"}
BY ZenonT(60) DEF TicketInv, GrantsAreRun, HandIsOpen, HeldIsKnown

\* What a step may do to the creates that take room, and to the room.
LEMMA RoomSteps ==
  ASSUME AQTypeOK, RoomConserved, NEW c \in Creates,
         \/ Taken' = Taken /\ room' = room
         \/ Taken' = Taken \cup {c} /\ c \notin Taken /\ room' = room - Need[c]
         \/ Taken' = Taken \ {c} /\ c \in Taken /\ room' = room + Need[c]
  PROVE  RoomConserved'
<1>. DEFINE K(S) == Cardinality(UnitsOf(S))
<1>1. room + K(Taken) = Room
  BY ZenonT(60) DEF RoomConserved, Taken
<1>2. room' + K(Taken') = Room => RoomConserved'
  BY ZenonT(60) DEF RoomConserved, Taken
<1>   Taken \subseteq Creates /\ Need[c] \in Nat /\ room \in Nat
  BY AdmissionAssumption DEF Taken, AQTypeOK
<1>4. K(Taken) \in Nat /\ K(Taken \ {c}) \in Nat
  BY UnitsFinite
<1>5. c \notin Taken => K(Taken \cup {c}) = K(Taken) + Need[c]
  BY UnitsGrow
<1>6. c \in Taken => K(Taken) = K(Taken \ {c}) + Need[c]
  <2>1. c \in Taken => (Taken \ {c}) \cup {c} = Taken
    OBVIOUS
  <2>   K((Taken \ {c}) \cup {c}) = K(Taken \ {c}) + Need[c]
    <3>   Taken \ {c} \in SUBSET Creates /\ c \notin Taken \ {c}
      OBVIOUS
    <3>. QED  BY UnitsGrow
  <2>. QED  BY <2>1
<1>. HIDE DEF K
<1>7. CASE Taken' = Taken /\ room' = room
  BY <1>1, <1>2, <1>7, ZenonT(60)
<1>8. CASE Taken' = Taken \cup {c} /\ c \notin Taken /\ room' = room - Need[c]
  <2> USE <1>8
  <2>   K(Taken') = K(Taken) + Need[c]
    BY <1>5
  <2>. QED  BY <1>1, <1>2, <1>4
<1>9. CASE Taken' = Taken \ {c} /\ c \in Taken /\ room' = room + Need[c]
  <2> USE <1>9
  <2>   K(Taken) = K(Taken') + Need[c] /\ K(Taken') \in Nat
    BY <1>4, <1>6, ZenonT(60)
  <2>. QED  BY <1>1, <1>2, <1>4
<1>. QED
  BY <1>7, <1>8, <1>9, ZenonT(60)

\* A step that moves neither grants, leases nor room conserves it.
LEMMA RoomKept ==
  ASSUME RoomConserved, UNCHANGED <<grant, lease, room>>
  PROVE  RoomConserved'
BY ZenonT(60) DEF RoomConserved

\* A release conserves the room.
LEMMA RoomFreed ==
  ASSUME AQTypeOK, TicketInv, RoomConserved, NEW c \in Creates, lease[c] = "held",
         lease' = [lease EXCEPT ![c] = "released"], room' = room + Need[c], UNCHANGED grant
  PROVE  RoomConserved'
<1>   c \in Taken /\ grant[c] # "insert"
  BY HeldIsGranted, ZenonT(60) DEF Taken
<1>   Taken' = Taken \ {c}
  BY DEF Taken, AQTypeOK
<1>. QED
  BY RoomSteps, ZenonT(60)

\* The handler and the deletion of an owner conserve the room.
LEMMA HandlerRoom ==
  ASSUME AQTypeOK, TicketInv, RoomConserved, NEW c \in Creates,
         \/ CreateDirect(c) \/ Disconnect(c) \/ ClientRelease(c) \/ HandlerStep(c)
         \/ \E o \in Owners : OwnerRelease(o, c)
  PROVE  RoomConserved'
<1>1. ASSUME CreateDirect(c) PROVE RoomConserved'
  <2> USE <1>1
  <2>   grant[c] = "no"
    BY ZenonT(60) DEF CreateDirect, TicketInv, GrantsAreRun, HandIsOpen
  <2>   Taken' = Taken
    BY DEF CreateDirect, Reserved, Taken, AQTypeOK
  <2>. QED  BY RoomSteps, ZenonT(60) DEF CreateDirect
<1>2. ASSUME CreateAnswered(c) PROVE RoomConserved'
  <2> USE <1>2
  <2>   Taken' = Taken
    BY DEF CreateAnswered, Taken, AQTypeOK
  <2>. QED  BY RoomSteps, ZenonT(60) DEF CreateAnswered
<1>3. ASSUME Disconnect(c) \/ Park(c) \/ Receive(c) \/ GiveUp(c, "refused") \/ GiveUp(c, "clientGone")
      PROVE  RoomConserved'
  <2>   UNCHANGED <<grant, lease, room>>
    BY <1>3, ZenonT(60) DEF Disconnect, Park, Receive, GiveUp
  <2>. QED  BY RoomKept
<1>4. ASSUME ClientRelease(c) \/ \E o \in Owners : OwnerRelease(o, c) PROVE RoomConserved'
  BY <1>4, RoomFreed DEF ClientRelease, OwnerRelease, FreeLease, Credit
<1>5. ASSUME ReleaseGone(c) PROVE RoomConserved'
  <2> USE <1>5
  <2>1. CASE lease[c] = "held"
    BY <2>1, RoomFreed, ZenonT(60) DEF ReleaseGone, FreeLease, Credit
  <2>2. CASE lease[c] # "held"
    BY <2>2, RoomKept DEF ReleaseGone
  <2>. QED  BY <2>1, <2>2
<1>. QED
  BY <1>1, <1>2, <1>3, <1>4, <1>5 DEF HandlerStep

\* The grants conserve the room.
LEMMA GrantRoom ==
  ASSUME AQTypeOK, TicketInv, RoomConserved, NEW c \in Creates, GrantStep(c)
  PROVE  RoomConserved'
<1>1. ASSUME GrantDebit(c) PROVE RoomConserved'
  <2> USE <1>1
  <2>   c \notin Taken
    BY HeldIsGranted, ZenonT(60) DEF GrantDebit, Taken
  <2>2. CASE draining \/ room < Need[c]
    <3>   Taken' = Taken /\ room' = room
      BY <2>2 DEF GrantDebit, Taken, AQTypeOK
    <3>. QED  BY RoomSteps, ZenonT(60)
  <2>3. CASE ~(draining \/ room < Need[c])
    <3>   Taken' = Taken \cup {c} /\ room' = room - Need[c]
      BY <2>3 DEF GrantDebit, Taken, AQTypeOK
    <3>. QED  BY RoomSteps, ZenonT(60)
  <2>. QED  BY <2>2, <2>3
<1>2. ASSUME grant[c] = "insert", grant' = [grant EXCEPT ![c] = "ownerGone"] \/ grant' = [grant EXCEPT ![c] = "error"],
             Credit(c), UNCHANGED lease
      PROVE  RoomConserved'
  <2> USE <1>2
  <2>   lease[c] # "held" /\ c \in Taken
    BY HeldIsGranted DEF Taken
  <2>   Taken' = Taken \ {c}
    BY DEF Taken, AQTypeOK
  <2>. QED  BY RoomSteps DEF Credit
<1>3. ASSUME GrantInsert(c) PROVE RoomConserved'
  <2> USE <1>3
  <2>1. CASE InsertRefused(c)
    BY <1>2, <2>1 DEF GrantInsert
  <2>2. CASE ~InsertRefused(c)
    <3>   Taken' = Taken /\ room' = room
      BY <2>2 DEF GrantInsert, Taken, AQTypeOK
    <3>. QED  BY RoomSteps, ZenonT(60)
  <2>. QED  BY <2>1, <2>2
<1>4. ASSUME GrantFail(c) PROVE RoomConserved'
  BY <1>2, <1>4 DEF GrantFail
<1>. QED
  BY <1>1, <1>3, <1>4 DEF GrantStep

\* The pass conserves the room.
LEMMA PassRoom ==
  ASSUME AQTypeOK, TicketInv, RoomConserved, PassStep \/ \E r \in Runners \cup {"tick"} : PassBegin(r)
  PROVE  RoomConserved'
<1>1. ASSUME PassPick PROVE RoomConserved'
  <2> USE <1>1
  <2>   PICK t \in queue \ finished :
          /\ pass.at = "pick"
          /\ grant' = [grant EXCEPT ![t] = IF draining THEN "no" ELSE Reserved(t)]
    BY PicksOne, ZenonT(60)
  <2>   t \in Creates /\ grant[t] = "no"
    BY DEF AQTypeOK, TicketInv, TicketsWait, GrantsAreRun
  <2>   Taken' = Taken
    BY DEF PassPick, Reserved, Taken, AQTypeOK
  <2>. QED  BY RoomSteps DEF PassPick
<1>2. ASSUME PassRefused \/ PassGranted PROVE RoomConserved'
  <2> USE <1>2
  <2>   pass.t \in Creates
    BY DEF PassRefused, PassGranted, TicketInv, HasTicket
  <2>   Taken' = Taken
    BY DEF PassRefused, PassGranted, Taken, AQTypeOK
  <2>. QED  BY RoomSteps DEF PassRefused, PassGranted
<1>3. ASSUME PassRelease PROVE RoomConserved'
  <2> USE <1>3
  <2>1. pass.t \in Creates
    BY DEF PassRelease, TicketInv, HasTicket
  <2>2. CASE lease[pass.t] = "held"
    BY <2>1, <2>2, RoomFreed DEF PassRelease
  <2>3. CASE lease[pass.t] # "held"
    BY <2>3, RoomKept DEF PassRelease
  <2>. QED  BY <2>2, <2>3, ZenonT(60)
<1>4. ASSUME PassEnd \/ PassDraining \/ \E r \in Runners \cup {"tick"} : PassBegin(r) PROVE RoomConserved'
  <2>   UNCHANGED <<grant, lease, room>>
    BY <1>4 DEF PassEnd, PassDraining, PassBegin
  <2>. QED  BY RoomKept
<1>. QED
  BY <1>1, <1>2, <1>3, <1>4 DEF PassStep

\* Every step conserves the room.
LEMMA NextRoom == ASSUME AQTypeOK, TicketInv, RoomConserved, AQNext PROVE RoomConserved'
<1>1. ASSUME \/ \E c \in Creates : WakeStep(c)
             \/ \E w \in Wakers : WakerStep(w)
             \/ \E who \in DOMAIN sweep, c \in Creates : SweepAnswer(who, c)
             \/ DrainTake \/ DrainStart \/ Undrain
             \/ \E o \in Owners : OwnerCancel(o) \/ OwnerDone(o) \/ OwnerMark(o)
      PROVE  RoomConserved'
  <2>   UNCHANGED <<grant, lease, room>>
    BY <1>1, ZenonT(60) DEF WakeStep, WakePend, WakeCas, WakerStep, SweepAnswer, DrainTake, DrainStart, Undrain,
                OwnerCancel, OwnerDone, OwnerMark
  <2>. QED  BY RoomKept
<1>. QED
  BY <1>1, HandlerRoom, GrantRoom, PassRoom DEF AQNext, AdminStep

-----------------------------------------------------------------------------
(* Deleted owners, and the theorems.                                       *)

OwnerInv == MarkedFirst /\ DeletedOwnerHoldsNothing

\* A step that marks and deletes nobody, and wins no lease, keeps the owners.
LEMMA OwnersKept ==
  ASSUME AQTypeOK, OwnerInv, UNCHANGED <<deleted, del>>,
         \A c \in Creates : lease'[c] = "held" => lease[c] = "held"
  PROVE  OwnerInv'
BY AdmissionAssumption, ZenonT(60) DEF OwnerInv, MarkedFirst, DeletedOwnerHoldsNothing

\* A release wins no lease.
LEMMA FreedOwners ==
  ASSUME AQTypeOK, OwnerInv, NEW c \in Creates, lease' = [lease EXCEPT ![c] = "released"],
         UNCHANGED <<deleted, del>>
  PROVE  OwnerInv'
BY OwnersKept, ZenonT(60) DEF AQTypeOK

\* Every step keeps the owners: a grant looks at the mark in the step in which it
\* wins the lease.
LEMMA NextOwners ==
  ASSUME AQTypeOK, TicketInv, OwnerInv, AQNext
  PROVE  OwnerInv'
<1>1. ASSUME NEW c \in Creates,
             \/ CreateDirect(c) \/ Disconnect(c) \/ CreateAnswered(c) \/ Park(c) \/ Receive(c)
             \/ GiveUp(c, "refused") \/ GiveUp(c, "clientGone") \/ GrantDebit(c) \/ GrantFail(c) \/ WakeStep(c)
      PROVE  OwnerInv'
  <2>   UNCHANGED <<deleted, del, lease>>
    BY <1>1, ZenonT(60) DEF CreateDirect, Disconnect, CreateAnswered, Park, Receive, GiveUp, GrantDebit, GrantFail,
                WakeStep, WakePend, WakeCas
  <2>. QED  BY OwnersKept
<1>2. ASSUME NEW c \in Creates, ClientRelease(c) \/ \E o \in Owners : OwnerRelease(o, c) PROVE OwnerInv'
  BY <1>2, FreedOwners DEF ClientRelease, OwnerRelease, FreeLease
<1>3. ASSUME NEW c \in Creates, ReleaseGone(c) PROVE OwnerInv'
  <2> USE <1>3
  <2>1. CASE lease[c] = "held"
    BY <2>1, FreedOwners DEF ReleaseGone, FreeLease
  <2>2. CASE lease[c] # "held"
    BY <2>2, OwnersKept DEF ReleaseGone
  <2>. QED  BY <2>1, <2>2
<1>4. ASSUME NEW c \in Creates, GrantInsert(c) PROVE OwnerInv'
  <2> USE <1>4
  <2>1. UNCHANGED <<deleted, del>>
    BY DEF GrantInsert
  <2>2. CASE InsertRefused(c)
    BY <2>1, <2>2, OwnersKept, ZenonT(60) DEF GrantInsert
  <2>3. CASE ~InsertRefused(c)
    <3> USE <2>3
    <3>1. OwnerOf[c] \in Owners /\ OwnerOf[c] \notin deleted
      BY AdmissionAssumption DEF InsertRefused
    <3>   del[OwnerOf[c]] # "done"
      BY <3>1, ZenonT(60) DEF OwnerInv, MarkedFirst
    <3>   \A d \in Creates : d # c => lease'[d] = lease[d]
      BY DEF GrantInsert, AQTypeOK
    <3>. QED  BY <2>1 DEF OwnerInv, MarkedFirst, DeletedOwnerHoldsNothing
  <2>. QED  BY <2>2, <2>3
<1>5. ASSUME PassStep \/ \E r \in Runners \cup {"tick"} : PassBegin(r) PROVE OwnerInv'
  <2> USE <1>5
  <2>1. UNCHANGED <<deleted, del>>
    BY ZenonT(60) DEF PassStep, PassPick, PassEnd, PassRefused, PassGranted, PassRelease, PassDraining, PassBegin
  <2>   \A c \in Creates : lease'[c] = "held" => lease[c] = "held"
    <3>1. ASSUME PassRelease PROVE \A c \in Creates : lease'[c] = "held" => lease[c] = "held"
      BY <3>1 DEF PassRelease, AQTypeOK
    <3>. QED  BY <3>1, ZenonT(60) DEF PassStep, PassPick, PassEnd, PassRefused, PassGranted, PassDraining, PassBegin
  <2>. QED  BY <2>1, OwnersKept
<1>6. ASSUME \/ \E w \in Wakers : WakerStep(w)
             \/ \E who \in DOMAIN sweep, c \in Creates : SweepAnswer(who, c)
             \/ DrainTake \/ DrainStart \/ Undrain
      PROVE  OwnerInv'
  <2>   UNCHANGED <<deleted, del, lease>>
    BY <1>6, ZenonT(60) DEF WakerStep, SweepAnswer, DrainTake, DrainStart, Undrain
  <2>. QED  BY OwnersKept, ZenonT(60)
<1>7. ASSUME NEW o \in Owners, OwnerMark(o) \/ OwnerCancel(o) PROVE OwnerInv'
  <2> USE <1>7
  <2>1. \A p \in Owners : (p # o => del'[p] = del[p]) /\ del'[o] # "done"
    BY DEF OwnerMark, OwnerCancel, AQTypeOK
  <2>   MarkedFirst'
    BY DEF OwnerMark, OwnerCancel, AQTypeOK, OwnerInv, MarkedFirst
  <2>   UNCHANGED lease
    BY DEF OwnerMark, OwnerCancel
  <2>. QED  BY <2>1, AdmissionAssumption, ZenonT(60) DEF OwnerInv, DeletedOwnerHoldsNothing
<1>8. ASSUME NEW o \in Owners, OwnerDone(o) PROVE OwnerInv'
  <2> USE <1>8
  <2>1. \A p \in Owners : p # o => del'[p] = del[p]
    BY ZenonT(60) DEF OwnerDone, AQTypeOK
  <2>   MarkedFirst'
    BY ZenonT(60) DEF OwnerDone, AQTypeOK, OwnerInv, MarkedFirst
  <2>   UNCHANGED lease /\ \A c \in Creates : OwnerOf[c] = o => lease[c] # "held"
    BY ZenonT(60) DEF OwnerDone
  <2>. QED  BY <2>1, AdmissionAssumption, ZenonT(60) DEF OwnerInv, DeletedOwnerHoldsNothing
<1>. QED
  BY <1>1, <1>2, <1>3, <1>4, <1>5, <1>6, <1>7, <1>8, ZenonT(60) DEF AQNext, HandlerStep, GrantStep, AdminStep

\* The invariant in its four parts.
LEMMA QInvParts == QInv <=> AQTypeOK /\ TicketInv /\ WakeInv /\ RoomConserved /\ OwnerInv
BY DEF QInv, TicketInv, WakeInv, OwnerInv

\* QInv holds at the start.
LEMMA QInitInv == ASSUME AQInit PROVE QInv
<1>1. WakeInv
  BY DEF AQInit, WakeInv, OneScheduled, Scheduled, OwedIsComing
<1>2. OwnerInv
  BY AdmissionAssumption DEF AQInit, OwnerInv, MarkedFirst, DeletedOwnerHoldsNothing
<1>   RoomConserved
  <2>1. {c \in Creates : grant[c] = "insert" \/ lease[c] = "held"} = {}
    BY ZenonT(60) DEF AQInit
  <2>2. UnitsOf({}) = {}
    BY DEF UnitsOf
  <2>   Cardinality({}) = 0
    BY FS_EmptySet
  <2>   room = Room /\ Room \in Nat
    BY AdmissionAssumption DEF AQInit
  <2>. QED  BY <2>1, <2>2 DEF RoomConserved
<1>. QED
  BY <1>1, <1>2, AQInitTypes, InitTickets, QInvParts

\* Every step of the queue keeps QInv.
LEMMA QNextInv == ASSUME QInv, [AQNext]_aqvars PROVE QInv'
<1>1. ASSUME AQNext PROVE (AQTypeOK /\ TicketInv /\ WakeInv /\ RoomConserved /\ OwnerInv)'
  BY <1>1, QInvParts, NextTickets, NextWakes, NextRoom, NextOwners
<1>2. ASSUME UNCHANGED aqvars PROVE (AQTypeOK /\ TicketInv /\ WakeInv /\ RoomConserved /\ OwnerInv)'
  <2> USE <1>2
  <2>1. AQTypeOK'
    BY DEF aqvars, QInv, AQTypeOK
  <2>2. (HasTicket /\ TicketsWait /\ RunnerWaits)'
    BY ZenonT(60) DEF aqvars, QInv, HasTicket, TicketsWait, RunnerWaits
  <2>3. (SentWhenFinished /\ GrantsAreRun)'
    BY ZenonT(60) DEF aqvars, QInv, SentWhenFinished, GrantsAreRun, InHand
  <2>4. (HandIsOpen /\ HeldIsKnown)'
    BY ZenonT(60) DEF aqvars, QInv, HandIsOpen, HeldIsKnown, InHand
  <2>   WakeInv'
    BY ZenonT(60) DEF aqvars, QInv, WakeInv, OneScheduled, OwedIsComing, WakeOnItsWay, Coming
  <2>   (RoomConserved /\ OwnerInv)'
    BY ZenonT(60) DEF aqvars, QInv, RoomConserved, OwnerInv, MarkedFirst, DeletedOwnerHoldsNothing
  <2>. QED  BY <2>1, <2>2, <2>3, <2>4, ZenonT(60) DEF TicketInv
<1>   (AQTypeOK /\ TicketInv /\ WakeInv /\ RoomConserved /\ OwnerInv)' => QInv'
  BY DEF QInv, TicketInv, WakeInv, OwnerInv
<1>. QED
  BY <1>1, <1>2

\* QInv holds in every state of queued admission.
THEOREM QueueInvariance == AQSpec => []QInv
<1>1. AQInit => QInv
  BY QInitInv
<1>2. QInv /\ [AQNext]_aqvars => QInv'
  BY QNextInv
<1>. QED
  BY <1>1, <1>2, PTL DEF AQSpec

\* For any creates, owners and wake goroutines: a refused create keeps no lease,
\* every unit of memory is free or taken once, a deleted owner holds nothing and
\* no wake is lost, in whatever order passes, deadlines, drains, disconnects,
\* releases and deletions come (api/admitqueue.go).
THEOREM QueueBooksHold == AQSpec => []QueueKeepsItsBooks
<1>1. QInv => NoLeakedLease
  BY ZenonT(60) DEF QInv, HeldIsKnown, InHand, NoLeakedLease, Refusals
<1>2. QInv => WakeNotLost
  <2>. SUFFICES ASSUME QInv, owed, queue # {} PROVE WakeNotLost
    BY DEF WakeNotLost
  <2>1. WakeOnItsWay
    BY DEF QInv, OwedIsComing
  <2>. QED  BY <2>1 DEF WakeOnItsWay, WakeNotLost, Coming
<1>3. QInv => QueueKeepsItsBooks
  BY <1>1, <1>2 DEF QInv, QueueKeepsItsBooks
<1>. QED
  BY <1>3, QueueInvariance, PTL

=============================================================================
