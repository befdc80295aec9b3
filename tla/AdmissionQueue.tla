--------------------------- MODULE AdmissionQueue ---------------------------
(***************************************************************************)
(* Queued admission (api/admitqueue.go): a create that finds no room parks *)
(* a ticket and holds its request open; passes over the queue, one at a    *)
(* time under admitMu, retry the tickets when a waiter arrives, when a     *)
(* release wakes the queue and on a tick.  Timeouts, clients going away,   *)
(* the admin drain and the deletion of the owner race with those passes.   *)
(***************************************************************************)
EXTENDS Naturals, FiniteSets

CONSTANTS
  Creates,      \* create requests, each one HTTP handler
  Owners,
  OwnerOf,      \* [Creates -> Owners]
  Need,         \* [Creates -> memory units]
  Room,         \* memory units of the node
  Wakers,       \* goroutines that may run scheduledWake at once
  RestartBound, \* restarts of one pass (3 in the code)
  Deletable,    \* the owners an administrator may delete
  Troubles      \* sets of what may disturb one behaviour: "drain", "delete", "leave", "tick"

ASSUME AdmissionAssumption ==
  /\ IsFiniteSet(Creates)
  /\ Creates \cap (Wakers \cup {"tick"}) = {} /\ "tick" \notin Wakers
  /\ OwnerOf \in [Creates -> Owners]
  /\ Need \in [Creates -> Nat \ {0}]
  /\ Room \in Nat
  /\ RestartBound \in Nat
  /\ Deletable \subseteq Owners
  /\ Troubles \subseteq SUBSET {"drain", "delete", "leave", "tick"}

VARIABLES
  pc,            \* [Creates -> where the create handler is]
  gone,          \* creates whose client went away
  queue,         \* admissionQueue.tickets
  ahead,         \* [Creates -> tickets of its owner with a lower seq]
  finished,      \* tickets with done set
  chan,          \* [Creates -> the outcome buffered in ticket.ch]
  answer,        \* [Creates -> what the handler answered]
  grant,         \* [Creates -> progress of grantLease for it]
  lease,         \* [Creates -> the lease it was granted]
  room,          \* free memory units
  pass,          \* the pass that holds admitMu
  waking,        \* [Creates -> wakeAdmissionQueue called on its account]
  wakePending, wakeScheduled,
  waker,         \* [Wakers -> where scheduledWake is]
  draining,
  sweep,         \* tickets taken off the queue and still to be answered
  drain,         \* where the admin drain is
  deleted,       \* deletedOwners
  del,           \* [Owners -> where deleteUserData is]
  trouble,       \* what may disturb this behaviour
  owed           \* ghost: room was freed for a queue no pass has begun to serve since

clientVars == <<pc, gone, answer>>
ticketVars == <<queue, ahead, finished, chan>>
grantVars == <<grant, lease, room>>
wakeVars == <<waking, wakePending, wakeScheduled, waker>>
adminVars == <<draining, sweep, drain, deleted, del, trouble>>
aqvars == <<clientVars, ticketVars, grantVars, wakeVars, adminVars, pass, owed>>

NoPass == [by |-> "none"]
Refusals == {"refused", "draining", "ownerGone", "clientGone"}

AQInit ==
  /\ pc = [c \in Creates |-> "new"]
  /\ gone = {}
  /\ queue = {}
  /\ ahead = [c \in Creates |-> {}]
  /\ finished = {}
  /\ chan = [c \in Creates |-> "empty"]
  /\ answer = [c \in Creates |-> "none"]
  /\ grant = [c \in Creates |-> "no"]
  /\ lease = [c \in Creates |-> "none"]
  /\ room = Room
  /\ pass = NoPass
  /\ waking = [c \in Creates |-> "no"]
  /\ wakePending = FALSE /\ wakeScheduled = FALSE
  /\ waker = [w \in Wakers |-> "idle"]
  /\ draining = FALSE /\ drain = "idle"
  /\ sweep = [who \in {"admin", "pass"} \cup Owners |-> {}]
  /\ deleted = {}
  /\ del = [o \in Owners |-> "no"]
  /\ trouble \in Troubles
  /\ owed = FALSE

-----------------------------------------------------------------------------
(* Helpers.                                                                *)

\* Mutant: the debit is not given back.
CreditSkipped(c) == UNCHANGED <<room, pass>>

\* creditNodeInfo: room returns and the running pass can tell that it did.
Credit(c) ==
  /\ room' = room + Need[c]
  /\ pass' = IF pass = NoPass THEN pass ELSE [pass EXCEPT !.moved = TRUE]

\* release: the lease is gone, its memory is credited and the queue is woken.
FreeLease(c) ==
  /\ lease' = [lease EXCEPT ![c] = "released"]
  /\ Credit(c)
  /\ waking' = [waking EXCEPT ![c] = "depth"]
  /\ owed' = (owed \/ queue # {})

\* reserveQuota, the first step of grantLease, refuses an owner marked deleted.
Reserved(c) == IF OwnerOf[c] \in deleted THEN "ownerGone" ELSE "debit"

\* Mutant: the answer already given is not noticed.
FinishNeverLost(c) == FALSE

\* finishTicket, lost: someone else answered the ticket first.
FinishLost(c) == c \in finished

\* finishTicket, won: done is set and the ticket leaves the list.
Finish(c) ==
  /\ finished' = finished \cup {c}
  /\ queue' = queue \ {c}
  /\ UNCHANGED ahead

\* Mutant: nothing is sent.
SendNothing(c, outcome) == chan' = chan

\* send: the outcome is buffered unless one is already.
Send(c, outcome) ==
  chan' = IF chan[c] = "empty" THEN [chan EXCEPT ![c] = outcome] ELSE chan

-----------------------------------------------------------------------------
(* The create handler.                                                     *)

\* handleCreate calls grantLease for the first time.
CreateDirect(c) ==
  /\ pc[c] = "new"
  /\ pc' = [pc EXCEPT ![c] = "direct"]
  /\ grant' = [grant EXCEPT ![c] = Reserved(c)]
  /\ UNCHANGED <<ticketVars, wakeVars, adminVars, gone, answer, lease, room, pass, owed>>

\* The first grantLease returned; only a capacity refusal with a wait parks.
CreateAnswered(c) ==
  /\ pc[c] = "direct"
  /\ grant[c] \in {"lease", "capacity", "ownerGone", "error"}
  /\ grant' = [grant EXCEPT ![c] = "no"]
  /\ \/ /\ grant[c] = "capacity"
        /\ pc' = [pc EXCEPT ![c] = "park"]
        /\ UNCHANGED answer
     \/ /\ pc' = [pc EXCEPT ![c] = "done"]
        /\ answer' = [answer EXCEPT ![c] = IF grant[c] = "lease" THEN "lease" ELSE "refused"]
  /\ UNCHANGED <<ticketVars, wakeVars, adminVars, gone, lease, room, pass, owed>>

\* newAdmissionTicket: refused under the queue lock when the owner is marked.
Park(c) ==
  /\ pc[c] = "park"
  /\ IF OwnerOf[c] \in deleted
     THEN /\ pc' = [pc EXCEPT ![c] = "done"]
          /\ answer' = [answer EXCEPT ![c] = "refused"]
          /\ UNCHANGED <<queue, ahead, waking>>
     ELSE /\ pc' = [pc EXCEPT ![c] = "pass"]
          /\ queue' = queue \cup {c}
          /\ ahead' = [ahead EXCEPT ![c] = {t \in queue : OwnerOf[t] = OwnerOf[c]}]
          /\ waking' = [waking EXCEPT ![c] = "depth"]
          /\ UNCHANGED answer
  /\ UNCHANGED <<grantVars, adminVars, gone, finished, chan, pass, wakePending, wakeScheduled,
                 waker, owed>>

\* waitForAdmission: the outcome arrives in the select, or after a lost race.
Receive(c) ==
  /\ pc[c] \in {"select", "recv"}
  /\ chan[c] # "empty"
  /\ chan' = [chan EXCEPT ![c] = "empty"]
  /\ answer' = [answer EXCEPT ![c] = IF chan[c] = "lease" /\ c \in gone THEN "clientGone" ELSE chan[c]]
  /\ pc' = [pc EXCEPT ![c] = IF chan[c] = "lease" /\ c \in gone THEN "release" ELSE "done"]
  /\ UNCHANGED <<grantVars, wakeVars, adminVars, gone, queue, ahead, finished, pass, owed>>

\* The timer, or ctx.Done: whoever finishes the ticket decides the answer.
GiveUp(c, why) ==
  /\ pc[c] = "select"
  /\ why = "clientGone" => c \in gone
  /\ IF FinishLost(c)
     THEN /\ pc' = [pc EXCEPT ![c] = "recv"]
          /\ UNCHANGED <<finished, queue, ahead, answer>>
     ELSE /\ Finish(c)
          /\ pc' = [pc EXCEPT ![c] = "done"]
          /\ answer' = [answer EXCEPT ![c] = why]
  /\ UNCHANGED <<grantVars, wakeVars, adminVars, gone, chan, pass, owed>>

\* The client is gone although a lease came: the handler releases it.
ReleaseGone(c) ==
  /\ pc[c] = "release"
  /\ pc' = [pc EXCEPT ![c] = "done"]
  /\ IF lease[c] = "held" THEN FreeLease(c) ELSE UNCHANGED <<lease, room, pass, waking, owed>>
  /\ UNCHANGED <<ticketVars, adminVars, gone, answer, grant, wakePending, wakeScheduled, waker>>

\* The client closes its connection.
Disconnect(c) ==
  /\ "leave" \in trouble
  /\ pc[c] \notin {"new", "done"} /\ c \notin gone
  /\ gone' = gone \cup {c}
  /\ UNCHANGED <<ticketVars, grantVars, wakeVars, adminVars, pc, answer, pass, owed>>

\* A client that got its lease releases it.
ClientRelease(c) ==
  /\ pc[c] = "done" /\ answer[c] = "lease" /\ lease[c] = "held"
  /\ FreeLease(c)
  /\ UNCHANGED <<clientVars, ticketVars, adminVars, grant, wakePending, wakeScheduled, waker>>

-----------------------------------------------------------------------------
(* grantLease, for the handler or for the pass.                            *)

\* The goroutine whose context the grant runs on.
GrantCtx(c) == IF pc[c] = "direct" THEN c ELSE pass.by

\* admitMemory and the capacity check of createSandbox (a draining node refuses).
GrantDebit(c) ==
  /\ grant[c] = "debit"
  /\ IF draining \/ room < Need[c]
     THEN grant' = [grant EXCEPT ![c] = "capacity"] /\ UNCHANGED room
     ELSE grant' = [grant EXCEPT ![c] = "insert"] /\ room' = room - Need[c]
  /\ UNCHANGED <<clientVars, ticketVars, wakeVars, adminVars, lease, pass, owed>>

\* Mutant: the owner is not looked at again.
InsertAlways(c) == FALSE

\* The owner was deleted since the quota was reserved.
InsertRefused(c) == OwnerOf[c] \in deleted

\* The lease enters the store unless its owner was deleted meanwhile.
GrantInsert(c) ==
  /\ grant[c] = "insert"
  /\ IF InsertRefused(c)
     THEN /\ grant' = [grant EXCEPT ![c] = "ownerGone"]
          /\ Credit(c)
          /\ UNCHANGED lease
     ELSE /\ grant' = [grant EXCEPT ![c] = "lease"]
          /\ lease' = [lease EXCEPT ![c] = "held"]
          /\ UNCHANGED <<room, pass>>
  /\ UNCHANGED <<clientVars, ticketVars, wakeVars, adminVars, owed>>

\* The create fails on a cancelled context; the debit is undone, nobody woken.
GrantFail(c) ==
  /\ grant[c] = "insert" /\ GrantCtx(c) \in gone
  /\ grant' = [grant EXCEPT ![c] = "error"]
  /\ Credit(c)
  /\ UNCHANGED <<clientVars, ticketVars, wakeVars, adminVars, lease, owed>>

-----------------------------------------------------------------------------
(* tryAdmitQueued, by a waiting create, a wake goroutine or the ticker.    *)

PassBegin(r) ==
  /\ pass = NoPass
  /\ \/ r \in Creates /\ pc[r] = "pass" /\ waking[r] = "no"
     \/ r \in Wakers /\ waker[r] = "pass"
     \/ r = "tick" /\ "tick" \in trouble /\ queue # {}
  /\ pass' = [by |-> r, at |-> "pick", t |-> "none", tried |-> {},
              moved |-> FALSE, refused |-> FALSE, restarts |-> 0]
  /\ owed' = FALSE
  /\ UNCHANGED <<clientVars, ticketVars, grantVars, wakeVars, adminVars>>

\* Room freed after a ticket was turned away: start over from the top.
Restart ==
  pass.refused /\ pass.moved /\ pass.restarts < RestartBound

Tried == IF Restart THEN {} ELSE pass.tried

\* orderedTickets: any order between owners (their ratios), FIFO within one.
Candidates ==
  LET Left == queue \ (Tried \cup finished)
  IN {t \in Left : ahead[t] \cap Left = {}}

\* The next untried ticket goes through grantQueued.
PassPick ==
  /\ pass # NoPass /\ pass.at = "pick"
  /\ \E t \in Candidates :
       /\ pass' = [pass EXCEPT !.t = t, !.tried = Tried \cup {t},
                     !.at = IF draining THEN "draining" ELSE "grant",
                     !.moved = @ /\ ~Restart, !.refused = @ /\ ~Restart,
                     !.restarts = IF Restart THEN @ + 1 ELSE @]
       /\ grant' = [grant EXCEPT ![t] = IF draining THEN "no" ELSE Reserved(t)]
  /\ UNCHANGED <<clientVars, ticketVars, wakeVars, adminVars, lease, room, owed>>

\* Every ticket judged: admitMu is released and the runner goes on.
PassEnd ==
  /\ pass # NoPass
  /\ \/ pass.at = "pick" /\ Candidates = {}
     \/ pass.at = "swept" /\ sweep["pass"] = {}
  /\ pass' = NoPass
  /\ pc' = IF pass.by \in Creates THEN [pc EXCEPT ![pass.by] = "select"] ELSE pc
  /\ waker' = IF pass.by \in Wakers THEN [waker EXCEPT ![pass.by] = "cas"] ELSE waker
  /\ UNCHANGED <<ticketVars, grantVars, adminVars, gone, answer, waking, wakePending,
                 wakeScheduled, owed>>

\* The grant was refused: a deleted owner is answered, the others wait on.
PassRefused ==
  /\ pass # NoPass /\ pass.at = "grant"
  /\ grant[pass.t] \in {"capacity", "error", "ownerGone"}
  /\ grant' = [grant EXCEPT ![pass.t] = "no"]
  /\ pass' = [pass EXCEPT !.at = "pick", !.refused = @ \/ grant[pass.t] # "ownerGone"]
  /\ IF grant[pass.t] = "ownerGone" /\ ~FinishLost(pass.t)
     THEN Finish(pass.t) /\ Send(pass.t, "ownerGone")
     ELSE UNCHANGED <<ticketVars>>
  /\ UNCHANGED <<clientVars, wakeVars, adminVars, lease, room, owed>>

\* The grant succeeded: the winner of finishTicket hands the lease over, the
\* loser releases it.
PassGranted ==
  /\ pass # NoPass /\ pass.at = "grant" /\ grant[pass.t] = "lease"
  /\ grant' = [grant EXCEPT ![pass.t] = "no"]
  /\ IF FinishLost(pass.t)
     THEN /\ pass' = [pass EXCEPT !.at = "release"]
          /\ UNCHANGED <<ticketVars>>
     ELSE /\ Finish(pass.t)
          /\ Send(pass.t, "lease")
          /\ pass' = [pass EXCEPT !.at = "pick"]
  /\ UNCHANGED <<clientVars, wakeVars, adminVars, lease, room, owed>>

\* release of a lease nobody waits for any more (the owner's deletion may have
\* released it first).
PassRelease ==
  /\ pass # NoPass /\ pass.at = "release" /\ waking[pass.t] = "no"
  /\ IF lease[pass.t] = "held"
     THEN /\ lease' = [lease EXCEPT ![pass.t] = "released"]
          /\ room' = room + Need[pass.t]
          /\ waking' = [waking EXCEPT ![pass.t] = "depth"]
          /\ owed' = (owed \/ queue # {})
          /\ pass' = [pass EXCEPT !.at = "pick", !.moved = TRUE]
     ELSE /\ pass' = [pass EXCEPT !.at = "pick"]
          /\ UNCHANGED <<lease, room, waking, owed>>
  /\ UNCHANGED <<clientVars, ticketVars, adminVars, grant, wakePending, wakeScheduled, waker>>

\* errDraining: the ticket is answered whoever finished it, then drainQueue.
PassDraining ==
  /\ pass # NoPass /\ pass.at = "draining"
  /\ finished' = finished \cup {pass.t}
  /\ Send(pass.t, "draining")
  /\ sweep' = [sweep EXCEPT !["pass"] = queue \ {pass.t}]
  /\ queue' = {}
  /\ pass' = [pass EXCEPT !.at = "swept"]
  /\ UNCHANGED <<clientVars, grantVars, wakeVars, ahead, draining, drain, deleted, del, trouble, owed>>

-----------------------------------------------------------------------------
(* wakeAdmissionQueue and scheduledWake.                                   *)

\* Mutant: the pending flag is not set.
PendedNot == wakePending

Pended == wakePending \/ queue # {}

\* Nothing to do for an empty queue; otherwise the pending flag first.
WakePend(c) ==
  /\ waking[c] = "depth"
  /\ wakePending' = Pended
  /\ waking' = [waking EXCEPT ![c] = IF queue = {} THEN "no" ELSE "cas"]
  /\ UNCHANGED <<clientVars, ticketVars, grantVars, adminVars, pass, wakeScheduled, waker,
                 owed>>

\* ... then the goroutine, unless one is scheduled.
WakeCas(c) ==
  /\ waking[c] = "cas"
  /\ waking' = [waking EXCEPT ![c] = "no"]
  /\ \/ wakeScheduled /\ UNCHANGED <<wakeScheduled, waker>>
     \/ /\ ~wakeScheduled
        /\ wakeScheduled' = TRUE
        /\ \E w \in Wakers : waker[w] = "idle" /\ waker' = [waker EXCEPT ![w] = "clear"]
  /\ UNCHANGED <<clientVars, ticketVars, grantVars, adminVars, pass, wakePending, owed>>

\* One atomic operation of scheduledWake.
WakerStep(w) ==
  /\ \/ /\ waker[w] = "clear"
        /\ wakePending' = FALSE
        /\ waker' = [waker EXCEPT ![w] = "pass"]
        /\ UNCHANGED wakeScheduled
     \/ /\ waker[w] = "cas"
        /\ waker' = [waker EXCEPT ![w] = IF wakeScheduled THEN "check" ELSE "idle"]
        /\ wakeScheduled' = FALSE
        /\ UNCHANGED wakePending
     \/ /\ waker[w] = "check"
        /\ waker' = [waker EXCEPT ![w] = IF wakePending THEN "recas" ELSE "idle"]
        /\ UNCHANGED <<wakePending, wakeScheduled>>
     \/ /\ waker[w] = "recas"
        /\ waker' = [waker EXCEPT ![w] = IF wakeScheduled THEN "idle" ELSE "clear"]
        /\ wakeScheduled' = TRUE
        /\ UNCHANGED wakePending
  /\ UNCHANGED <<clientVars, ticketVars, grantVars, adminVars, pass, waking, owed>>

-----------------------------------------------------------------------------
(* The admin drain and the deletion of an owner.                           *)

\* A ticket taken off the list is answered unless someone else finished it.
SweepAnswer(who, c) ==
  /\ c \in sweep[who]
  /\ sweep' = [sweep EXCEPT ![who] = @ \ {c}]
  /\ IF FinishLost(c)
     THEN UNCHANGED <<ticketVars>>
     ELSE /\ Finish(c)
          /\ Send(c, IF who \in Owners THEN "ownerGone" ELSE "draining")
  /\ UNCHANGED <<clientVars, grantVars, wakeVars, pass, draining, drain, deleted, del, trouble,
                 owed>>

\* drain: the flag, then drainQueue takes the whole list.
DrainStart ==
  /\ "drain" \in trouble /\ drain = "idle"
  /\ draining' = TRUE
  /\ drain' = "take"
  /\ UNCHANGED <<clientVars, ticketVars, grantVars, wakeVars, pass, sweep, deleted, del,
                 trouble, owed>>

DrainTake ==
  /\ drain = "take"
  /\ sweep' = [sweep EXCEPT !["admin"] = queue]
  /\ queue' = {}
  /\ drain' = "answer"
  /\ UNCHANGED <<clientVars, grantVars, wakeVars, ahead, finished, chan, pass, draining, deleted, del,
                 trouble, owed>>

\* undrain, once the drain call has returned.
Undrain ==
  /\ drain = "answer" /\ sweep["admin"] = {}
  /\ draining' = FALSE
  /\ drain' = "over"
  /\ UNCHANGED <<clientVars, ticketVars, grantVars, wakeVars, pass, sweep, deleted, del,
                 trouble, owed>>

\* deleteUserData: markOwnerDeleted, then cancelQueuedForOwner takes the tickets.
OwnerMark(o) ==
  /\ "delete" \in trouble /\ o \in Deletable /\ del[o] = "no"
  /\ deleted' = deleted \cup {o}
  /\ del' = [del EXCEPT ![o] = "cancel"]
  /\ UNCHANGED <<clientVars, ticketVars, grantVars, wakeVars, pass, draining, sweep, drain,
                 trouble, owed>>

OwnerCancel(o) ==
  /\ del[o] = "cancel"
  /\ sweep' = [sweep EXCEPT ![o] = {c \in queue : OwnerOf[c] = o}]
  /\ queue' = {c \in queue : OwnerOf[c] # o}
  /\ del' = [del EXCEPT ![o] = "scan"]
  /\ UNCHANGED <<clientVars, grantVars, wakeVars, ahead, finished, chan, pass, draining, drain,
                 deleted, trouble, owed>>

\* ... then the owner's leases are released, until a scan finds none.
OwnerRelease(o, c) ==
  /\ del[o] = "scan" /\ sweep[o] = {}
  /\ OwnerOf[c] = o /\ lease[c] = "held"
  /\ FreeLease(c)
  /\ UNCHANGED <<clientVars, ticketVars, adminVars, grant, wakePending, wakeScheduled, waker>>

OwnerDone(o) ==
  /\ del[o] = "scan" /\ sweep[o] = {}
  /\ \A c \in Creates : OwnerOf[c] = o => lease[c] # "held"
  /\ del' = [del EXCEPT ![o] = "done"]
  /\ UNCHANGED <<clientVars, ticketVars, grantVars, wakeVars, pass, draining, sweep, drain,
                 deleted, trouble, owed>>

-----------------------------------------------------------------------------
Runners == Creates \cup Wakers

HandlerStep(c) ==
  \/ CreateAnswered(c) \/ Park(c) \/ Receive(c)
  \/ GiveUp(c, "refused") \/ GiveUp(c, "clientGone") \/ ReleaseGone(c)

GrantStep(c) == GrantDebit(c) \/ GrantInsert(c) \/ GrantFail(c)

PassStep ==
  PassPick \/ PassEnd \/ PassRefused \/ PassGranted \/ PassRelease \/ PassDraining

WakeStep(c) == WakePend(c) \/ WakeCas(c)

AdminStep ==
  \/ \E who \in DOMAIN sweep, c \in Creates : SweepAnswer(who, c)
  \/ DrainTake
  \/ \E o \in Owners : OwnerCancel(o) \/ OwnerDone(o) \/ \E c \in Creates : OwnerRelease(o, c)

AQNext ==
  \/ \E c \in Creates : \/ CreateDirect(c) \/ Disconnect(c) \/ ClientRelease(c)
                        \/ HandlerStep(c) \/ GrantStep(c) \/ WakeStep(c)
  \/ \E r \in Runners \cup {"tick"} : PassBegin(r)
  \/ PassStep
  \/ \E w \in Wakers : WakerStep(w)
  \/ AdminStep \/ DrainStart \/ Undrain
  \/ \E o \in Owners : OwnerMark(o)

AQSpec == AQInit /\ [][AQNext]_aqvars

-----------------------------------------------------------------------------
(* Properties.                                                             *)

\* A create answered with a refusal holds no lease, unless a pass is about to
\* release the one it just won for a ticket that timed out, lost its client or
\* was drained meanwhile (tryAdmitQueued, finishTicket).
NoLeakedLease ==
  \A c \in Creates :
    (pc[c] = "done" /\ answer[c] \in Refusals /\ lease[c] = "held")
      => pass # NoPass /\ pass.t = c /\ (pass.at = "release" \/ grant[c] = "lease")

\* The units of memory a set of creates takes, each told from the others.
UnitsOf(S) == UNION {{c} \X (1..Need[c]) : c \in S}

\* Every unit of memory is free, promised to one grant in flight, or held by
\* one lease: no race between a grant, a release and an undo loses or invents
\* room (debitNodeInfoLocked, creditNodeInfo).
RoomConserved ==
  room + Cardinality(UnitsOf({c \in Creates : grant[c] = "insert" \/ lease[c] = "held"})) = Room

\* Once deleteUserData has finished with an owner, no lease of that owner is
\* held, whatever create of theirs was queued or in flight (markOwnerDeleted,
\* grantLease's check under the store lock).
DeletedOwnerHoldsNothing ==
  \A c \in Creates : del[OwnerOf[c]] = "done" => lease[c] # "held"

\* A create that waits is answered: no waiter is left on its channel after it
\* lost the race to finish its own ticket (waitForAdmission).
WaiterAnswered == \A c \in Creates : pc[c] = "pass" ~> pc[c] = "done"

\* No wake is lost: while room freed by a release has not been offered to the
\* waiting tickets, a wake call is under way, a goroutine is on its way to a
\* pass, or one about to leave will see the pending flag (wakePending and
\* wakeScheduled, without the help of the ticker).
WakeNotLost ==
  LET Begun(r) == pass # NoPass /\ pass.by = r
  IN owed /\ queue # {} =>
       \/ \E c \in Creates : waking[c] # "no" \/ (pc[c] = "pass" /\ ~Begun(c))
       \/ \E w \in Wakers : waker[w] = "clear" \/ (waker[w] = "pass" /\ ~Begun(w))
       \/ wakePending /\ \E w \in Wakers : waker[w] # "idle"

\* The queue, the room and the leases agree whichever of a pass, a deadline, a
\* drain, a release and a deletion come first.
QueueKeepsItsBooks ==
  /\ NoLeakedLease
  /\ RoomConserved
  /\ DeletedOwnerHoldsNothing
  /\ WakeNotLost
=============================================================================
