--------------------------- MODULE LeaseContract ---------------------------
(***************************************************************************)
(* What the backend promises of a lease, with no goroutine, lock, row or   *)
(* sandbox in sight: one table of leases, changed one lease at a time.     *)
(* A phase or generation moves only in the hands of the one operation the  *)
(* lease is at work for, never after its release was asked for, and a      *)
(* restart of the backend forgets the operations and the half-done         *)
(* releases and nothing else.                                              *)
(***************************************************************************)
EXTENDS Naturals

CONSTANT Leases

VARIABLES
    phase,      \* the state the API shows of each lease
    gen,        \* its generation
    atWork,     \* the leases an operation has in hand
    leaving     \* the leases whose release has begun

contractVars == <<phase, gen, atWork, leaving>>

Held(l) == phase[l] \notin {"none", "gone"}

ContractInit ==
    /\ phase = [l \in Leases |-> "none"]
    /\ gen = [l \in Leases |-> 0]
    /\ atWork = {} /\ leaving = {}

Granted(l) ==
    /\ phase[l] = "none"
    /\ phase' = [phase EXCEPT ![l] = "running"]
    /\ gen' = [gen EXCEPT ![l] = 1]
    /\ UNCHANGED <<atWork, leaving>>

Begins(l) ==
    /\ phase[l] # "none" /\ l \notin atWork
    /\ atWork' = atWork \cup {l}
    /\ UNCHANGED <<phase, gen, leaving>>

Ends(l) ==
    /\ l \in atWork
    /\ atWork' = atWork \ {l}
    /\ UNCHANGED <<phase, gen, leaving>>

\* The operation that has the lease in hand moves it from one of the phases
\* in from.
Moves(l, from, to, g) ==
    /\ l \in atWork \ leaving
    /\ Held(l) /\ phase[l] \in from
    /\ phase' = [phase EXCEPT ![l] = to]
    /\ gen' = [gen EXCEPT ![l] = g]
    /\ UNCHANGED <<atWork, leaving>>

HeldPhases == {"running", "suspended", "recovered", "lost"}

\* A suspend keeps the generation, and so does the resume that ends it; only
\* a lease that is not running is resumed.
Suspends(l) == Moves(l, HeldPhases, "suspended", gen[l])
Resumes(l) == Moves(l, {"suspended", "recovered"}, "running", gen[l])

\* A fresh or restored guest is a new generation.
Replaces(l) == Moves(l, HeldPhases, "running", gen[l] + 1)

\* A crash takes a live lease, and recovers it as a new generation or loses it.
Recovers(l) == Moves(l, {"running", "recovered"}, "recovered", gen[l] + 1)
Loses(l) == Moves(l, {"running", "recovered"}, "lost", gen[l])

Leaves(l) ==
    /\ Held(l) /\ l \notin leaving
    /\ leaving' = leaving \cup {l}
    /\ UNCHANGED <<phase, gen, atWork>>

Gone(l) ==
    /\ l \in leaving
    /\ leaving' = leaving \ {l}
    /\ phase' = [phase EXCEPT ![l] = "gone"]
    /\ UNCHANGED <<gen, atWork>>

Restarts == atWork' = {} /\ leaving' = {} /\ UNCHANGED <<phase, gen>>

ContractNext ==
    \/ \E l \in Leases :
          \/ Granted(l) \/ Begins(l) \/ Ends(l) \/ Leaves(l) \/ Gone(l)
          \/ Suspends(l) \/ Resumes(l) \/ Replaces(l) \/ Recovers(l) \/ Loses(l)
    \/ Restarts

ContractSpec == ContractInit /\ [][ContractNext]_contractVars

=============================================================================
