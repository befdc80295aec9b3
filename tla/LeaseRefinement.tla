-------------------------- MODULE LeaseRefinement --------------------------
(***************************************************************************)
(* The lease backend implements its contract: the lease table read under   *)
(* its lock is a table of LeaseContract.                                   *)
(***************************************************************************)
EXTENDS LeaseLifecycle

\* What the API shows of a lease: a lease out of the table was never granted
\* or is gone.
PhaseShown ==
    [l \in Leases |-> IF l \in inStore \/ lease[l].state = "none"
                      THEN lease[l].state ELSE "gone"]
GenShown == [l \in Leases |-> lease[l].generation]
Leaving == released \cap inStore

Contract == INSTANCE LeaseContract
    WITH phase <- PhaseShown, gen <- GenShown, atWork <- busy, leaving <- Leaving

\* Every behaviour of the backend, its goroutines interleaved at every lock
\* section and substrate call, with guests that die and a process that
\* restarts, is a behaviour of the contract: operations on a lease are
\* serialised by its busy flag, none of them touches a lease whose release
\* has begun, and LoadState brings back what the table held.
ImplementsContract == Contract!ContractSpec

=============================================================================
