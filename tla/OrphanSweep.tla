---------------------------- MODULE OrphanSweep -----------------------------
(***************************************************************************)
(* One pass of the orphan sandbox sweep: first the remembered ids, then    *)
(* the listed sandboxes that a lost lease owns or that nothing has claimed *)
(* on two passes in a row.  orphanSafeToDelete reads the in-flight set and *)
(* the claims in two lock sections and the delete follows outside both.    *)
(***************************************************************************)
EXTENDS LeaseStore

IdleSweep == [pc |-> "idle", phase |-> "retry", listed |-> {}, again |-> {},
              booted |-> {}, flight |-> {}, todo |-> {}, id |-> NoSandbox]

SweepPcs == {"idle", "pick", "claims", "kill", "flight", "classify"}

\* The leases in the store that name sandbox s.
Owners(s) == {l \in inStore : lease[l].sandbox = s}

\* Mutant: an idle owner counts as a lost one.
LostOrIdle(s) == \A l \in Owners(s) : lease[l].state = "lost" \/ l \notin busy

\* No lease owns s in a state other than lost, and none of them is busy.
LostOnly(s) == \A l \in Owners(s) : lease[l].state = "lost" /\ l \notin busy

SweepUnchanged == UNCHANGED <<memVars, rowVars, pool, creating, tries, work, recVars,
                              restarts, used, reached>>

\* orphanSandboxSnapshot.
SweepStart ==
    /\ sweep.pc = "idle"
    /\ startup = "sweep" \/ (startup = "no" /\ "sweep" \in Ops)
    /\ sweep' = [IdleSweep EXCEPT !.pc = "pick", !.todo = orphans]
    /\ SweepUnchanged /\ UNCHANGED <<seen, orphans, startup, vm>>

\* An id that is not safe: a remembered one is forgotten, a listed one is
\* left for another pass.
SweepSkip(s) ==
    /\ orphans' = IF sweep.phase = "retry" THEN orphans \ {s} ELSE orphans
    /\ sweep' = [sweep EXCEPT !.pc = "pick", !.todo = @ \ {s}, !.id = NoSandbox]

\* sandboxInFlight.
SweepPick(s) ==
    /\ sweep.pc = "pick"
    /\ s \in sweep.todo
    /\ IF s \in creating
       THEN SweepSkip(s)
       ELSE /\ sweep' = [sweep EXCEPT !.pc = "claims", !.id = s]
            /\ UNCHANGED orphans
    /\ SweepUnchanged /\ UNCHANGED <<seen, startup, vm>>

\* The pool and lease claims, under the store lock.
SweepClaims ==
    /\ sweep.pc = "claims"
    /\ IF sweep.id \in pool \/ ~LostOnly(sweep.id)
       THEN SweepSkip(sweep.id)
       ELSE sweep' = [sweep EXCEPT !.pc = "kill"] /\ UNCHANGED orphans
    /\ SweepUnchanged /\ UNCHANGED <<seen, startup, vm>>

\* sub.Delete: a remembered id is forgotten when it is gone, a listed one
\* is remembered when it is not.
SweepKill ==
    /\ sweep.pc = "kill"
    /\ \/ /\ vm' = [vm EXCEPT ![sweep.id] = NoVM]
          /\ orphans' = IF sweep.phase = "retry" THEN orphans \ {sweep.id} ELSE orphans
       \/ /\ "delete" \in Faults
          /\ orphans' = orphans \cup {sweep.id}
          /\ UNCHANGED vm
    /\ sweep' = [sweep EXCEPT !.pc = "pick", !.todo = @ \ {sweep.id}, !.id = NoSandbox]
    /\ SweepUnchanged /\ UNCHANGED <<seen, startup>>

\* sub.List after the remembered ids; again holds the listed ids whose
\* StartedAt the previous pass saw unclaimed.  A failed list ends the pass.
SweepList ==
    /\ sweep.pc = "pick" /\ sweep.phase = "retry" /\ sweep.todo = {}
    /\ \/ /\ sweep' = [sweep EXCEPT !.pc = "flight", !.phase = "sweep",
                                    !.listed = present_ids, !.again = present_ids \cap seen]
          /\ UNCHANGED startup
       \/ "list" \in Faults /\ sweep' = IdleSweep /\ startup' = "no"
    /\ SweepUnchanged /\ UNCHANGED <<seen, orphans, vm>>

SweepFlight ==
    /\ sweep.pc = "flight"
    /\ sweep' = [sweep EXCEPT !.pc = "classify", !.flight = creating]
    /\ SweepUnchanged /\ UNCHANGED <<seen, orphans, startup, vm>>

\* The classification under the store lock and the two-pass rule: the next
\* pass compares with what this one saw unclaimed for the first time.
SweepClassify ==
    /\ sweep.pc = "classify"
    /\ LET candidates == sweep.listed \ (sweep.flight \cup pool)
           unclaimed == {s \in candidates : Owners(s) = {}}
           lost == {s \in candidates : Owners(s) # {} /\ LostOnly(s)}
       IN  /\ seen' = (unclaimed \ sweep.again) \ sweep.booted
           /\ sweep' = [IdleSweep EXCEPT !.pc = "pick", !.phase = "sweep",
                                         !.todo = lost \cup (unclaimed \cap sweep.again)]
    /\ SweepUnchanged /\ UNCHANGED <<orphans, startup, vm>>

SweepEnd ==
    /\ sweep.pc = "pick" /\ sweep.phase = "sweep" /\ sweep.todo = {}
    /\ sweep' = IdleSweep
    /\ startup' = "no"
    /\ SweepUnchanged /\ UNCHANGED <<seen, orphans, vm>>

Sweep ==
    \/ SweepStart \/ SweepClaims \/ SweepKill \/ SweepList \/ SweepFlight
    \/ SweepClassify \/ SweepEnd
    \/ \E s \in Sandboxes : SweepPick(s)

=============================================================================
