------------------------------ MODULE TakeBack ------------------------------
(***************************************************************************)
(* The pure selectors of memory take-back (api/take_back.go,               *)
(* api/admit_memory.go) and the fair slices they work on                   *)
(* (api/fair_shares.go).  A view maps each owner to what it uses, its      *)
(* slice and its running leases; leases and owners are numbered, so that   *)
(* ties break by number as the code breaks them by name.  Ratios are       *)
(* compared exactly, by cross-multiplication.                              *)
(***************************************************************************)
EXTENDS Integers, Sequences, FiniteSets, FiniteSetsExt, SequencesExt

\* used1/slice1 > used2/slice2, where a slice of 0 has ratio 0 (tbRatio).
RatioAbove(used1, slice1, used2, slice2) ==
  CASE slice1 <= 0 -> slice2 > 0 /\ used2 < 0
    [] slice2 <= 0 -> used1 > 0
    [] OTHER -> used1 * slice2 > used2 * slice1

\* computeFairShares: an active owner has 1/n of the box, an idle one what it
\* would have on becoming active; nothing while the capacity is unknown.
SliceOf(total, active, o, known) ==
  LET n == Cardinality(active) IN
  CASE ~known -> 0
    [] o \in active -> total \div n
    [] OTHER -> total \div (n + 1)

\* The take-back order within an owner: idle first, then least recently used,
\* then by name.
TakenBefore(a, b) ==
  \/ ~a.busy /\ b.busy
  \/ a.busy = b.busy /\ a.last < b.last
  \/ a.busy = b.busy /\ a.last = b.last /\ a.id < b.id

TakeableLeases(ls) == {l \in ls : ~l.pinned /\ ~l.drained}

\* tbPickLease: the set of the one lease to give up, empty when there is none.
PickLease(ls) ==
  {l \in TakeableLeases(ls) : \A m \in TakeableLeases(ls) \ {l} : TakenBefore(l, m)}

\* Mutant: the bar is not looked at.
PickLeaseForAny(o, bar) == PickLease(o.leases)

\* tbPickLeaseFor: the first one whose give-up keeps its owner above the bar.
PickLeaseFor(o, bar) ==
  PickLease({l \in o.leases : RatioAbove(o.used - l.mem, o.slice, bar.used, bar.slice)})

OverSlice(o) == o.slice > 0 /\ o.used > o.slice

\* One round of memVictims: the candidate of the most over-drawn owner.
BestVictim(view, requester, bar) ==
  LET Pick(o) ==
        LET first == PickLease(view[o].leases)
        IN IF \E l \in first : ~RatioAbove(view[o].used - l.mem, view[o].slice, bar.used, bar.slice)
           THEN PickLeaseFor(view[o], bar)
           ELSE first
      sources == {o \in DOMAIN view \ {requester} : OverSlice(view[o]) /\ Pick(o) # {}}
      top == {o \in sources : \A p \in sources \ {o} :
                \/ RatioAbove(view[o].used, view[o].slice, view[p].used, view[p].slice)
                \/ /\ ~RatioAbove(view[p].used, view[p].slice, view[o].used, view[o].slice)
                   /\ o < p}
  IN {[owner |-> o, lease |-> l] : o \in top, l \in UNION {Pick(p) : p \in top}}

\* The requester's ratio once the whole request is theirs.
BarOf(view, requester, need, request) ==
  IF requester \in DOMAIN view
  THEN [used |-> view[requester].used + (IF request < need THEN need ELSE request),
        slice |-> view[requester].slice]
  ELSE [used |-> 0, slice |-> 0]

\* Mutant: the first victim is enough.
EnoughAny(freed, need) == freed > 0

Enough(freed, need) == freed >= need

\* memVictims: rounds until enough is freed, nothing when it cannot be.
MemVictims(view, requester, need, request) ==
  LET bar == BarOf(view, requester, need, request)
      rounds == Cardinality(UNION {view[o].leases : o \in DOMAIN view})
      Round(st) ==
        LET best == BestVictim(st.view, requester, bar) IN
        IF Enough(st.freed, need) \/ st.stuck THEN st
        ELSE IF best = {} THEN [st EXCEPT !.stuck = TRUE]
        ELSE LET v == CHOOSE b \in best : TRUE IN
             [view |-> [st.view EXCEPT ![v.owner].used = @ - v.lease.mem,
                                       ![v.owner].leases = @ \ {v.lease}],
              freed |-> st.freed + v.lease.mem,
              out |-> Append(st.out, v.lease.id),
              stuck |-> FALSE]
      after[n \in 0..rounds] ==
        IF n = 0 THEN [view |-> view, freed |-> 0, out |-> <<>>, stuck |-> FALSE]
        ELSE CHOOSE st \in {Round(before) : before \in {after[n - 1]}} : TRUE
  IN IF need <= 0 \/ ~Enough(after[rounds].freed, need) THEN <<>> ELSE after[rounds].out

\* takeBackPool: what the owners over their slice could give, and what only
\* pins keep.
SourceLeases(view, requester) ==
  UNION {view[o].leases : o \in {p \in DOMAIN view \ {requester} : OverSlice(view[p])}}

MemOf(ls) == MapThenSumSet(LAMBDA l : l.mem, ls)

TakeablePool(view, requester) == MemOf({l \in SourceLeases(view, requester) : ~l.pinned})
PinnedPool(view, requester) == MemOf({l \in SourceLeases(view, requester) : l.pinned})

\* Mutant: the other owners are not compared.
BiggestBorrowerAlone(view, requester, request) ==
  view[requester].slice > 0 /\ view[requester].used + request > view[requester].slice

\* biggestBorrowerRefusal.
BiggestBorrower(view, requester, request) ==
  /\ requester \in DOMAIN view
  /\ LET me == view[requester] IN
     /\ me.slice > 0 /\ me.used >= me.slice
     /\ me.used + request > me.slice
     /\ \A o \in DOMAIN view \ {requester} :
          ~RatioAbove(view[o].used, view[o].slice, me.used + request, me.slice)

\* Mutant: busy leases are taken too.
IdleOrBusy(ls, pins) == {l \in ls : l.pinned = pins}

IdleLeases(ls, pins) == {l \in ls : ~l.busy /\ l.pinned = pins}

\* pressureVictim: owners over their slice; below the critical level everyone,
\* and pinned leases last.  Busy leases are left out.
PressureRank(view, os) ==
  LET Above(o, p) ==
        LET a == view[o]
            b == view[p]
        IN CASE a.slice > 0 /\ b.slice > 0 ->
                  \/ RatioAbove(a.used, a.slice, b.used, b.slice)
                  \/ ~RatioAbove(b.used, b.slice, a.used, a.slice) /\ o < p
             [] a.slice <= 0 /\ b.slice <= 0 -> a.used > b.used \/ (a.used = b.used /\ o < p)
             [] OTHER -> a.slice > 0
  IN SetToSortSeq(os, Above)

PressureVictim(view, critical) ==
  LET over == {o \in DOMAIN view : OverSlice(view[o])}
      ranked == PressureRank(view, over)
      rest == PressureRank(view, DOMAIN view \ over)
      Idle(o, pins) ==
        PickLease({[l EXCEPT !.pinned = FALSE] : l \in IdleLeases(view[o].leases, pins)})
      First(order, pins) ==
        LET giving == {i \in DOMAIN order : Idle(order[i], pins) # {}}
        IN IF giving = {} THEN {} ELSE {[id |-> l.id, pins |-> pins] : l \in Idle(order[Min(giving)], pins)}
      a == First(ranked, FALSE)
      b == IF critical THEN First(rest, FALSE) ELSE {}
      c == IF critical THEN First(ranked \o rest, TRUE) ELSE {}
  IN IF a # {} THEN a ELSE IF b # {} THEN b ELSE c

-----------------------------------------------------------------------------
(***************************************************************************)
(* The take-back selectors on every small view: two owners with up to two  *)
(* leases each, a requester, and the plan the admission would follow.  A   *)
(* case is planned and its plan is then carried out one pause at a time.   *)
(***************************************************************************)

CONSTANTS
  TbMems,     \* lease sizes
  TbFlags,    \* subsets of {"pinned", "busy", "drained"} a lease may have
  TbSlices,   \* slices of the first owner; the second has one of these or none
  TbNeeds     \* shortfalls

ASSUME TakeBackAssumption ==
  /\ TbMems \subseteq Nat \ {0}
  /\ TbFlags \subseteq SUBSET {"pinned", "busy", "drained"}
  /\ TbSlices \subseteq Nat
  /\ TbNeeds \subseteq Nat

VARIABLES
  tbview,     \* the view the selector reads
  tbask,      \* requester's shortfall, request and whether the box is critical
  tbplan,     \* what memVictims returned
  tbdone      \* pauses carried out

tbvars == <<tbview, tbask, tbplan, tbdone>>

Requester == 3

\* The leases 2o-1 and 2o of owner o; the second is the less recently used.
SomeLeases(o) ==
  LET Lease(i, m, f) == [id |-> 2 * o - i, mem |-> m, last |-> i,
                         pinned |-> "pinned" \in f, busy |-> "busy" \in f, drained |-> "drained" \in f]
  IN {{Lease(1, m, f), Lease(0, n, g)} : m \in TbMems, n \in TbMems, f \in TbFlags, g \in TbFlags}
       \cup {{Lease(1, m, f)} : m \in TbMems, f \in TbFlags}

TbViews ==
  {[o \in 1..3 |->
      CASE o = 1 -> [used |-> MemOf(one), slice |-> s, leases |-> one]
        [] o = 2 -> [used |-> MemOf(two), slice |-> t * s, leases |-> two]
        [] o = 3 -> [used |-> used, slice |-> s, leases |-> {}]] :
     one \in SomeLeases(1), two \in SomeLeases(2), s \in TbSlices, t \in {0, 1}, used \in 0..1}

TbAsks == [need: TbNeeds, request: {1}, critical: BOOLEAN]

TBInit ==
  /\ tbview \in TbViews
  /\ tbask \in TbAsks
  /\ tbplan = MemVictims(tbview, Requester, tbask.need, tbask.request)
  /\ tbdone = 0

\* takeBackPause of the next victim.
TBPause ==
  /\ tbdone < Len(tbplan)
  /\ tbdone' = tbdone + 1
  /\ LET id == tbplan[tbdone + 1]
         o == CHOOSE p \in DOMAIN tbview : \E l \in tbview[p].leases : l.id = id
         l == CHOOSE m \in tbview[o].leases : m.id = id
     IN tbview' = [tbview EXCEPT ![o].used = @ - l.mem, ![o].leases = @ \ {l}]
  /\ UNCHANGED <<tbask, tbplan>>

TBNext == TBPause

TBSpec == TBInit /\ [][TBNext]_tbvars

Bar == BarOf(tbview, Requester, tbask.need, tbask.request)
AllLeases == UNION {tbview[o].leases : o \in DOMAIN tbview}

\* Carrying out a plan of memVictims only ever pauses an unpinned, undrained
\* lease of another owner that is over its slice at that moment and stays,
\* after the pause, above the requester with the request granted.
PlanEvensOut ==
  [][\E o \in DOMAIN tbview \ {Requester} : \E l \in tbview[o].leases :
       /\ tbdone < Len(tbplan) /\ l.id = tbplan[tbdone + 1]
       /\ ~l.pinned /\ ~l.drained
       /\ OverSlice(tbview[o])
       /\ RatioAbove(tbview'[o].used, tbview'[o].slice, Bar.used, Bar.slice)]_tbvars

\* A carried-out plan has freed the need, and not one pause before its last.
PlanFreesNeed ==
  LET left == MemOf({l \in AllLeases : \E i \in DOMAIN tbplan : i > tbdone /\ tbplan[i] = l.id})
      last == MemOf({l \in AllLeases : Len(tbplan) > 0 /\ l.id = tbplan[Len(tbplan)]})
      planned == {tbplan[i] : i \in DOMAIN tbplan}
  IN (tbdone = 0 /\ tbplan # <<>>) =>
       /\ left >= tbask.need /\ left - last < tbask.need
       /\ Cardinality(planned) = Len(tbplan)

\* A requester refused as the biggest borrower has no victim anywhere: the
\* refusal never hides a take-back that would have made room.
BorrowerHasNoVictims ==
  (tbdone = 0 /\ BiggestBorrower(tbview, Requester, tbask.request)) => tbplan = <<>>

\* The low-memory floor takes the mildest lease its level allows: unpinned and
\* of an owner over its slice, else (critical only) unpinned of anyone, else
\* pinned; never a busy or drained one (pressureVictim).
PressureIsMildest ==
  LET harm(l) == (IF l.pinned THEN 2 ELSE 0)
                   + (IF \E o \in DOMAIN tbview : l \in tbview[o].leases /\ OverSlice(tbview[o]) THEN 0 ELSE 1)
      pinnedLast(l) == IF l.pinned THEN 2 ELSE harm(l)
      able == {l \in AllLeases : ~l.busy /\ ~l.drained /\ (tbask.critical \/ harm(l) = 0)}
      victim == PressureVictim(tbview, tbask.critical)
  IN /\ Cardinality(victim) = (IF able = {} THEN 0 ELSE 1)
     /\ \A v \in victim : \E l \in able : l.id = v.id /\ \A m \in able : pinnedLast(l) <= pinnedLast(m)
=============================================================================
