------------------------------ MODULE Notifier ------------------------------
(***************************************************************************)
(* The operator notifier (package notify, api/notify.go): the node checks  *)
(* and the conditions they hold open, the bounded queue, the hourly        *)
(* deduplication, and one webhook's worker with its rate limit, its        *)
(* retries and the timer that wakes it.                                    *)
(*                                                                         *)
(* Time is a tick: every age and delay is a number of ticks, and an hour   *)
(* is Hour of them.                                                        *)
(***************************************************************************)
EXTENDS Naturals, Sequences, FiniteSets

CONSTANTS
  Hour,          \* dedupeWindow and rateWindow, in ticks
  RateMax,       \* rateMax: posts an hour
  MaxTries,      \* attempts before the backoff passes maxBackoff
  QueueCap,      \* capacity of the queue and of the hook's channel
  NtScenarios    \* [check, changes, fails, others, may]: bounds, and what may go wrong

ASSUME NtAssumption ==
  /\ {Hour, RateMax, MaxTries, QueueCap} \subseteq Nat \ {0}
  /\ NtScenarios \subseteq [check: {"levels", "unit", "stale"}, changes: Nat,
                            fails: Nat, others: Nat,
                            may: SUBSET {"restart"}]

CondKeys == {"warn", "danger"}          \* KeyDiskWarn, KeyDiskDanger
Alert(k) == [key |-> k, res |-> FALSE]
Cleared(k) == [key |-> k, res |-> TRUE]
LeaseLost == Alert("lost")              \* notifyLeaseEvent: a key of its own each time

VARIABLES
  level,       \* the condition: "ok", "warn", "danger", or "unknown" when not measurable
  passdue,     \* a check pass has yet to see the latest level or tick
  opened,      \* Notifier.open: the keys alerted and not resolved
  nqueue,      \* Notifier.queue
  stamp,       \* Notifier.dedupe: the age of each message's last admission
  hookq,       \* webhook.ch
  retr, rest,  \* the worker's pending retries, and those a runDue has yet to visit
  lim,         \* rate.at: ages of the posts the limiter counts
  armed, timer, wake,   \* stopTimer # nil, ticks to the wait's end plus one or 0, the token
  told,        \* what the receiver was last told of each condition
  posts,       \* history: ages of the posts of the last hour
  gap,         \* history: why the end of each condition's last spell is not told, or "none"
  budget       \* the scenario, counted down

ntvars == <<level, passdue, opened, nqueue, stamp, hookq, retr, rest, lim, armed, timer,
            wake, told, posts, gap, budget>>

Messages == {Alert(k) : k \in CondKeys} \cup {Cleared(k) : k \in CondKeys}

NTInit ==
  /\ level = "ok" /\ passdue = FALSE /\ opened = {} /\ nqueue = <<>>
  /\ stamp = [m \in Messages |-> Hour] /\ hookq = <<>> /\ retr = <<>> /\ rest = <<>>
  /\ lim = <<>> /\ armed = FALSE /\ timer = 0 /\ wake = FALSE
  /\ told = [k \in CondKeys |-> "nothing"] /\ posts = <<>>
  /\ gap = [k \in CondKeys |-> "none"] /\ budget \in NtScenarios

InFlight(m) ==
  \/ \E i \in DOMAIN nqueue : nqueue[i] = m
  \/ \E i \in DOMAIN hookq : hookq[i] = m
  \/ \E i \in DOMAIN retr : retr[i].m = m
  \/ \E i \in DOMAIN rest : rest[i].m = m

(***************************************************************************)
(* The checks.                                                             *)
(***************************************************************************)
\* diskCheck, hugepagesCheck and the one-level disk checks: what a pass reports at a
\* level; nothing when it cannot measure.
LevelCheck(l) ==
  CASE l = "danger"  -> <<Alert("danger")>>
    [] l = "warn"    -> <<Alert("warn"), Cleared("danger")>>
    [] l = "ok"      -> <<Cleared("warn"), Cleared("danger")>>
    [] l = "unknown" -> <<>>

\* unitCheck: a state that cannot be read is an alert too.
UnitCheck(l) == IF l = "ok" THEN <<Cleared("danger")>> ELSE <<Alert("danger")>>

\* drainingCheck, backupCheck: likewise.
StaleCheck(l) == IF l = "ok" THEN <<Cleared("danger")>> ELSE <<Alert("danger")>>

\* Checks: the check a source gets.
CheckEvents(l) ==
  CASE budget.check = "levels" -> LevelCheck(l)
    [] budget.check = "unit"   -> UnitCheck(l)
    [] budget.check = "stale"  -> StaleCheck(l)

\* Enqueue: what the queue has no room for is dropped.
Fits(send) == IF Len(send) < QueueCap - Len(nqueue) THEN Len(send) ELSE QueueCap - Len(nqueue)

\* Mutant: an alert is raised when the condition begins and not repeated.
OnEdges(evs, open) == SelectSeq(evs, LAMBDA m : m.res <=> m.key \in open)

\* checkEvent for the events of one check: a resolution only of what is open.
ToEnqueue(evs, open) == SelectSeq(evs, LAMBDA m : ~m.res \/ m.key \in open)

\* checkEvent: the conditions open after them.
OpenAfter(evs, open) ==
  (open \ {m.key : m \in {e \in Messages : e.res /\ \E i \in DOMAIN evs : evs[i] = e}})
    \cup {m.key : m \in {e \in Messages : ~e.res /\ \E i \in DOMAIN evs : evs[i] = e}}

\* A message that does not get through: a resolution leaves a gap.
GapIf(lost, m, why) == IF lost /\ m.res /\ m.key \in CondKeys
                       THEN [gap EXCEPT ![m.key] = why] ELSE gap

\* runChecks: one pass over the checks (the node's level is one of them).
RunChecks ==
  /\ passdue /\ passdue' = FALSE
  /\ LET evs == CheckEvents(level)
         send == ToEnqueue(evs, opened) IN
     /\ opened' = OpenAfter(evs, opened)
     /\ nqueue' = nqueue \o SubSeq(send, 1, Fits(send))
     /\ gap' = [k \in CondKeys |->
                  CASE k \in opened' \ opened -> "none"
                    [] \E i \in Fits(send) + 1 .. Len(send) : send[i] = Cleared(k) -> "dropped"
                    [] OTHER -> gap[k]]
  /\ UNCHANGED <<level, stamp, hookq, retr, rest, lim, armed, timer, wake, told, posts,
                 budget>>

\* The node's level changes, at any moment.
Change(l) ==
  /\ l # level /\ budget.changes > 0 /\ (l = "warn" => budget.check = "levels")
  /\ level' = l /\ passdue' = TRUE /\ budget' = [budget EXCEPT !.changes = @ - 1]
  /\ UNCHANGED <<opened, nqueue, stamp, hookq, retr, rest, lim, armed, timer, wake, told,
                 posts, gap>>

\* notifyLeaseEvent: an event of the lease stream, here a lease that was lost.
LeaseEvent ==
  /\ budget.others > 0 /\ budget' = [budget EXCEPT !.others = @ - 1]
  /\ nqueue' = nqueue \o SubSeq(<<LeaseLost>>, 1, Fits(<<LeaseLost>>))
  /\ UNCHANGED <<level, passdue, opened, stamp, hookq, retr, rest, lim, armed, timer, wake,
                 told, posts, gap>>

(***************************************************************************)
(* dispatch.                                                               *)
(***************************************************************************)
\* Mutant: an alert and its resolution share one window.
AdmitByKey(m) == \A e \in Messages : e.key = m.key => stamp[e] = Hour

\* admit: one message of a kind per key and hour; a lost lease's key is its own.
Admit(m) == m \in Messages => stamp[m] = Hour

\* dispatch: admitted, stamped, and put on the hook's channel unless that is full.
Dispatch ==
  /\ nqueue # <<>> /\ nqueue' = Tail(nqueue)
  /\ LET m == Head(nqueue) IN
     /\ hookq' = IF Admit(m) /\ Len(hookq) < QueueCap THEN Append(hookq, m) ELSE hookq
     /\ stamp' = IF Admit(m) /\ m \in Messages THEN [stamp EXCEPT ![m] = 0] ELSE stamp
     /\ gap' = IF Admit(m) THEN GapIf(Len(hookq) = QueueCap, m, "dropped")
                           ELSE GapIf(m \in Messages /\ stamp[m] < Hour, m, "deduplicated")
  /\ UNCHANGED <<level, passdue, opened, retr, rest, lim, armed, timer, wake, told, posts,
                 budget>>

(***************************************************************************)
(* A webhook's worker.                                                     *)
(***************************************************************************)
Pend(m, n, next) == [m |-> m, n |-> n, next |-> next]
Soonest(q) == CHOOSE d \in {q[i].next : i \in DOMAIN q} : \A i \in DOMAIN q : d <= q[i].next

\* The top of the loop keeps the parked wait it has.
KeepTimer(q, set, due) == q = <<>> \/ (set /\ Soonest(q) + 1 >= due)

\* The worker comes back to the top of its loop with these retries.
Rearm(q, set, due) ==
  IF KeepTimer(q, set, due) THEN armed' = set /\ timer' = due
  ELSE armed' = TRUE /\ timer' = Soonest(q) + 1

Room == Len(lim) < RateMax
Wait == Hour - lim[1]

\* A post that arrives; an alert that its own resolution overtook is the last word.
Arrives(m) ==
  IF m.key \notin CondKeys THEN UNCHANGED <<told, gap>>
  ELSE /\ told' = [told EXCEPT ![m.key] = IF m.res THEN "cleared" ELSE "alert"]
       /\ gap' = IF ~m.res /\ m.key \notin opened /\ ~InFlight(Cleared(m.key))
                 THEN [gap EXCEPT ![m.key] = "overtaken"] ELSE gap

\* attempt: posted, and perhaps answered with an error, which waits out a backoff that
\* doubles, or gives the message up.  q is the retries, q2 what they become.
Attempt(p, q, q2) ==
  /\ posts' = Append(posts, 0)
  /\ \/ Arrives(p.m) /\ q2 = q /\ UNCHANGED budget
     \/ /\ budget.fails > 0 /\ budget' = [budget EXCEPT !.fails = @ - 1]
        /\ q2 = IF p.n < MaxTries THEN Append(q, Pend(p.m, p.n + 1, p.n)) ELSE q
        /\ gap' = GapIf(p.n = MaxTries, p.m, "given up")
        /\ UNCHANGED told

\* fresh: a message from the channel, posted or parked until the rate allows it.
FreshEvent ==
  /\ hookq # <<>> /\ rest = <<>> /\ hookq' = Tail(hookq)
  /\ IF Room
     THEN /\ lim' = Append(lim, 0)
          /\ Attempt(Pend(Head(hookq), 1, 0), retr, retr')
     ELSE /\ retr' = Append(retr, Pend(Head(hookq), 1, Wait))
          /\ UNCHANGED <<lim, told, posts, gap, budget>>
  /\ Rearm(retr', armed, timer)
  /\ UNCHANGED <<level, passdue, opened, nqueue, stamp, rest, wake>>

\* The parked wait ends.
TimerFires ==
  /\ armed /\ timer = 1 /\ timer' = 0 /\ wake' = TRUE
  /\ UNCHANGED <<level, passdue, opened, nqueue, stamp, hookq, retr, rest, lim, armed, told,
                 posts, gap, budget>>

\* Mutant: the spent wait still counts as parked.
StaysArmed == TRUE

\* The wait that fired is no longer parked: stopTimer = nil.
ArmedAfterWake == FALSE

\* The worker takes the token and starts runDue.
WakeUp ==
  /\ wake /\ rest = <<>> /\ retr # <<>>
  /\ wake' = FALSE /\ armed' = ArmedAfterWake /\ rest' = retr /\ retr' = <<>>
  /\ UNCHANGED <<level, passdue, opened, nqueue, stamp, hookq, lim, timer, told, posts, gap,
                 budget>>

\* Mutant: a retry does not count against the rate.
NotCounted(l) == l

\* A post the limiter has let through is counted.
Counted(l) == Append(l, 0)

\* runDue, one pending retry.
DueStep ==
  /\ rest # <<>> /\ rest' = Tail(rest)
  /\ LET p == Head(rest) IN
     \/ /\ p.next > 0 /\ retr' = Append(retr, p)
        /\ UNCHANGED <<lim, told, posts, gap, budget>>
     \/ /\ p.next = 0 /\ ~Room /\ retr' = Append(retr, [p EXCEPT !.next = Wait])
        /\ UNCHANGED <<lim, told, posts, gap, budget>>
     \/ p.next = 0 /\ Room /\ lim' = Counted(lim) /\ Attempt(p, retr, retr')
  /\ IF Len(rest) = 1 THEN Rearm(retr', armed, timer) ELSE UNCHANGED <<armed, timer>>
  /\ UNCHANGED <<level, passdue, opened, nqueue, stamp, hookq, wake>>

(***************************************************************************)
(* Time and restarts.                                                      *)
(***************************************************************************)
Older(q) == SelectSeq([i \in DOMAIN q |-> q[i] + 1], LAMBDA a : a < Hour)

\* A tick.  The dispatcher and the worker keep up with it: a tick is minutes, and a post
\* ends within the client's timeout.
Tick ==
  /\ rest = <<>> /\ (armed => timer # 1)
  /\ nqueue = <<>> /\ hookq = <<>> /\ ~passdue /\ ~wake
  /\ stamp' = [m \in Messages |-> IF stamp[m] < Hour THEN stamp[m] + 1 ELSE Hour]
  /\ retr' = [i \in DOMAIN retr |->
                [retr[i] EXCEPT !.next = IF @ > 0 THEN @ - 1 ELSE 0]]
  /\ timer' = IF timer > 1 THEN timer - 1 ELSE timer
  /\ lim' = Older(lim) /\ posts' = Older(posts) /\ passdue' = TRUE
  /\ UNCHANGED <<level, opened, nqueue, hookq, rest, armed, wake, told, gap, budget>>

\* The backend restarts: nothing of the notifier outlives it, neither what was on its way
\* nor the conditions it held open.
NotifierRestart ==
  /\ "restart" \in budget.may /\ budget' = [budget EXCEPT !.may = @ \ {"restart"}]
  /\ passdue' = FALSE /\ opened' = {} /\ nqueue' = <<>>
  /\ stamp' = [m \in Messages |-> Hour] /\ hookq' = <<>> /\ retr' = <<>> /\ rest' = <<>>
  /\ lim' = <<>> /\ posts' = <<>> /\ armed' = FALSE /\ timer' = 0 /\ wake' = FALSE
  /\ gap' = [k \in CondKeys |-> IF told[k] = "alert" THEN "restarted" ELSE gap[k]]
  /\ UNCHANGED <<level, told>>

NTNext ==
  \/ RunChecks \/ LeaseEvent \/ Dispatch \/ FreshEvent \/ TimerFires \/ WakeUp \/ DueStep
  \/ Tick \/ NotifierRestart
  \/ \E l \in {"ok", "warn", "danger", "unknown"} : Change(l)

NTSpec == NTInit /\ [][NTNext]_ntvars

(***************************************************************************)
(* Properties.                                                             *)
(***************************************************************************)
\* No hour sees more posts to a webhook than its rate, first attempts and retries
\* together (rate.allow in fresh and in runDue).
RateKept == Len(posts) <= RateMax

\* A level that stays is eventually what the receiver was last told, through dropped,
\* deduplicated, rate-limited and retried messages: the alert is repeated hourly.
AlertArrives ==
  \A k \in CondKeys : <>[](level = k) => <>[](told[k] = "alert")

\* A condition that clears for good does not stay alerted: its resolution is sent once
\* and arrives (checkEvent, admit's separate window, the retries).  It stays alerted only
\* when that one resolution was deduplicated, because the spell before it ended within the
\* hour, was dropped by a full queue, was given up after its retries, was overtaken by
\* the alert's own retry, or when the backend restarted on the alert.
ResolutionArrives ==
  \A k \in CondKeys :
    <>[](level = "ok") => <>[](told[k] = "alert" => gap[k] # "none")

\* A parked message is attempted again and settles: the worker is never left asleep
\* with work (armTimer, the wake token).
RetrySettles ==
  \A m \in Messages \cup {LeaseLost} :
    (\E i \in DOMAIN retr : retr[i].m = m) ~> (\A i \in DOMAIN retr : retr[i].m # m)

\* A condition that lasts is told to the operator, its end as well, and a post
\* that failed does not stay parked, all within the hourly rate.
AlertsArrive ==
  /\ []RateKept
  /\ AlertArrives
  /\ ResolutionArrives
  /\ RetrySettles
=============================================================================
