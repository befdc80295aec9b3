------------------------------ MODULE Sharing ------------------------------
(***************************************************************************)
(* Names, labels and shares of leases (api/service.go, api/shares.go,      *)
(* store/shares.go).  An owner names a lease and grants it to another user *)
(* for one surface, ssh or http, with or without an end.  Grant and revoke *)
(* look the lease up under the lock, drop it, check the rest and take it   *)
(* again; the rows are written best effort and are what a restarted        *)
(* backend reads back.                                                     *)
(***************************************************************************)
EXTENDS Integers, FiniteSets

CONSTANTS
    ShLeases,      \* lease ids
    ShUsers,       \* user ids; user 1 owns the leases, the rest may be grantees
    ShNames,       \* lease names
    ShMoves,       \* bound on the calls made
    ShScenarios    \* what may happen: one set of names per behaviour

VARIABLES
    shLease,    \* the store: state and name of each lease
    shRow,      \* the leases rows: the name each carries; NoLease = no row
    shMap,      \* the shares in memory: lease, then grantee
    shRows,     \* the shares table
    shCall,     \* the owner's grant or revoke past its lookup
    shTold,     \* what the owner was last told each user may use of a lease
    shNamed,    \* the name the owner was last told each lease has
    shMoves,
    shmay

shvars == <<shLease, shRow, shMap, shRows, shCall, shTold, shNamed, shMoves, shmay>>

Owner == 1
Grantees == ShUsers \ {Owner}
NoName == "no name"
NoLease == "no lease"
NoShare == [mode |-> "none", ends |-> FALSE, over |-> FALSE]
NoCall == [op |-> "none", lease |-> 0, user |-> 0, share |-> NoShare]
Modes == {"ssh", "http"}

\* No lease is called what stands for the absence of a name or of a row.
ASSUME SharingAssumption == {NoName, NoLease} \cap ShNames = {}

ShMay(x) == x \in shmay

SHInit ==
    /\ shmay \in ShScenarios
    /\ shLease = [l \in ShLeases |-> [state |-> "live", name |-> NoName]]
    /\ shRow = [l \in ShLeases |-> NoName]
    /\ shMap = [l \in ShLeases |-> [u \in Grantees |-> NoShare]]
    /\ shRows = shMap
    /\ shCall = NoCall
    /\ shTold = [l \in ShLeases |-> [u \in Grantees |-> NoShare]]
    /\ shNamed = [l \in ShLeases |-> NoName]
    /\ shMoves = 0

ShMove == shMoves < ShMoves /\ shMoves' = shMoves + 1

InStore(l) == shLease[l].state \notin {"released", "gone"}

-----------------------------------------------------------------------------
(***************************************************************************)
(* Names and labels: one critical section each.                            *)
(***************************************************************************)

\* Mutant: the name is only compared with those of running leases.
NameTakenByLive(l, n) ==
    \E o \in ShLeases \ {l} : shLease[o].state = "live" /\ shLease[o].name = n

NameTaken(l, n) ==
    \E o \in ShLeases \ {l} : InStore(o) /\ shLease[o].name = n

\* setName: unknown, released and lost leases are refused, and a name in use;
\* the row follows, or the save fails and is logged.
SetLeaseName(l, n) ==
    /\ ShMay("name")
    /\ ShMove
    /\ InStore(l)
    /\ shLease[l].state # "lost"
    /\ ~NameTaken(l, n)
    /\ shLease' = [shLease EXCEPT ![l].name = n]
    /\ shNamed' = [shNamed EXCEPT ![l] = n]
    /\ \/ shRow' = [shRow EXCEPT ![l] = n]
       \/ ShMay("fail") /\ UNCHANGED shRow
    /\ UNCHANGED <<shMap, shRows, shCall, shTold, shmay>>

\* setHolder writes its label and saves the whole row, the lease's name with it;
\* so does setComment.
LabelSaved(l) ==
    /\ ShMay("name")
    /\ ShMove
    /\ InStore(l)
    /\ shLease[l].state # "lost"
    /\ shRow' = [shRow EXCEPT ![l] = shLease[l].name]
    /\ UNCHANGED <<shLease, shMap, shRows, shCall, shTold, shNamed, shmay>>

SetHolder(l) == LabelSaved(l)

SetComment(l) == LabelSaved(l)

\* lookupByNameForOwner.
ByName(n) == {l \in ShLeases : InStore(l) /\ shLease[l].name = n}

-----------------------------------------------------------------------------
(***************************************************************************)
(* Shares.                                                                 *)
(***************************************************************************)

\* GrantShare and RevokeShare up to their own critical section.
ShareLookup(op, l, u, share) ==
    /\ ShMay("share")
    /\ shCall = NoCall
    /\ ShMove
    /\ shLease[l].state \in {"live", "suspended"}
    /\ shCall' = [op |-> op, lease |-> l, user |-> u, share |-> share]
    /\ UNCHANGED <<shLease, shRow, shMap, shRows, shTold, shNamed, shmay>>

GrantBegin ==
    \E l \in ShLeases, u \in Grantees, m \in Modes, ends \in BOOLEAN :
        ShareLookup("grant", l, u, [mode |-> m, ends |-> ends, over |-> FALSE])

RevokeBegin ==
    \E l \in ShLeases, u \in Grantees : ShareLookup("revoke", l, u, NoShare)

\* saveShareLocked and deleteShareLocked: the row changes, or the write fails
\* and is logged.  A share's row cannot outlive its lease's row.
ShareRowWritten(l, u, share) ==
    \/ shRows' = [shRows EXCEPT ![l][u] = IF shRow[l] = NoLease THEN NoShare ELSE share]
    \/ ShMay("fail") /\ UNCHANGED shRows

\* The second critical section of a grant: an existing share is replaced.  The
\* lease is not looked at again; "grantrace" lets a release fall in between.
GrantCommit ==
    /\ shCall.op = "grant"
    /\ shMap' = [shMap EXCEPT ![shCall.lease][shCall.user] = shCall.share]
    /\ ShareRowWritten(shCall.lease, shCall.user, shCall.share)
    /\ shTold' = [shTold EXCEPT ![shCall.lease][shCall.user] = shCall.share]
    /\ shCall' = NoCall
    /\ UNCHANGED <<shLease, shRow, shNamed, shMoves, shmay>>

\* Mutant: the row is left for the lease's release to cascade.
RevokedRowLeft == UNCHANGED shRows

RevokedRow == ShareRowWritten(shCall.lease, shCall.user, NoShare)

RevokeCommit ==
    /\ shCall.op = "revoke"
    /\ shMap' = [shMap EXCEPT ![shCall.lease][shCall.user] = NoShare]
    /\ RevokedRow
    /\ shTold' = [shTold EXCEPT ![shCall.lease][shCall.user] = NoShare]
    /\ shCall' = NoCall
    /\ UNCHANGED <<shLease, shRow, shNamed, shMoves, shmay>>

\* Time passes the end of a share; nothing in the backend notices.
ShareLapses ==
    \E l \in ShLeases, u \in Grantees :
        /\ shMap[l][u].ends /\ ~shMap[l][u].over
        /\ shMap' = [shMap EXCEPT ![l][u].over = TRUE]
        /\ shRows' = [shRows EXCEPT ![l][u].over = shRows[l][u].ends]
        /\ shTold' = [shTold EXCEPT ![l][u].over = shTold[l][u].ends]
        /\ UNCHANGED <<shLease, shRow, shCall, shNamed, shMoves, shmay>>

ShareOpens(sh, mode) == sh.mode = mode /\ ~sh.over

\* lookupWithShare: the leases a user may use on a surface.
SharedWith(u, mode) ==
    {l \in ShLeases : InStore(l) /\ (u = Owner \/ ShareOpens(shMap[l][u], mode))}

\* ListShares: the owner's view.
SharesListed == {p \in ShLeases \X Grantees : InStore(p[1]) /\ shMap[p[1]][p[2]] # NoShare}

-----------------------------------------------------------------------------
(***************************************************************************)
(* The lease's life, and the backend's.                                    *)
(***************************************************************************)

ShPause(l) ==
    /\ ShMay("pause")
    /\ ShMove
    /\ shLease[l].state \in {"live", "suspended"}
    /\ shLease' = [shLease EXCEPT ![l].state = IF @ = "live" THEN "suspended" ELSE "live"]
    /\ shRow' = [shRow EXCEPT ![l] = shLease[l].name]
    /\ UNCHANGED <<shMap, shRows, shCall, shTold, shNamed, shmay>>

ShLost(l) ==
    /\ ShMay("lost")
    /\ ShMove
    /\ shLease[l].state = "live"
    /\ shLease' = [shLease EXCEPT ![l].state = "lost"]
    /\ shRow' = [shRow EXCEPT ![l] = shLease[l].name]
    /\ UNCHANGED <<shMap, shRows, shCall, shTold, shNamed, shmay>>

ShReleaseMark(l) ==
    /\ ShMay("release")
    /\ ShMove
    /\ InStore(l)
    /\ ShMay("grantrace") \/ shCall.lease # l
    /\ shLease' = [shLease EXCEPT ![l].state = "released"]
    /\ UNCHANGED <<shRow, shMap, shRows, shCall, shTold, shNamed, shmay>>

\* Mutant: the map's entry is left behind.
SharesAfterReleaseKept(l) == shMap

SharesAfterRelease(l) == [shMap EXCEPT ![l] = [u \in Grantees |-> NoShare]]

\* The end of releaseBecauseIf: lease and shares leave the store together, the
\* share rows with the lease's.
ShReleaseEnd(l) ==
    /\ shLease[l].state = "released"
    /\ shLease' = [shLease EXCEPT ![l] = [state |-> "gone", name |-> NoName]]
    /\ shMap' = SharesAfterRelease(l)
    /\ shRow' = [shRow EXCEPT ![l] = NoLease]
    /\ shRows' = [shRows EXCEPT ![l] = [u \in Grantees |-> NoShare]]
    /\ UNCHANGED <<shCall, shTold, shNamed, shMoves, shmay>>

\* A restarted backend reads leases and shares from their tables (a lease whose
\* release was cut off is there again, with the shares it had).  "cutoff" lets
\* that happen to a lease whose name may have been given to another meanwhile.
ShRestart ==
    /\ ShMay("restart")
    /\ \/ ShMay("cutoff") \/ ~ShMay("name")
       \/ \A l \in ShLeases : shLease[l].state # "released"
    /\ ShMove
    /\ shLease' = [l \in ShLeases |->
                     IF shRow[l] = NoLease THEN [state |-> "gone", name |-> NoName]
                     ELSE [state |-> IF shLease[l].state = "released" THEN "live"
                                     ELSE shLease[l].state,
                           name |-> shRow[l]]]
    /\ shMap' = shRows
    /\ shCall' = NoCall
    /\ UNCHANGED <<shRow, shRows, shTold, shNamed, shmay>>

SHNext ==
    \/ \E l \in ShLeases :
        \/ \E n \in ShNames : SetLeaseName(l, n)
        \/ SetHolder(l)
        \/ SetComment(l)
        \/ ShPause(l)
        \/ ShLost(l)
        \/ ShReleaseMark(l)
        \/ ShReleaseEnd(l)
    \/ GrantBegin
    \/ RevokeBegin
    \/ GrantCommit
    \/ RevokeCommit
    \/ ShareLapses
    \/ ShRestart

SHSpec == SHInit /\ [][SHNext]_shvars

-----------------------------------------------------------------------------
(***************************************************************************)
(* Properties.                                                             *)
(***************************************************************************)

\* A name leads to one lease, the one the owner was told carries it, whatever
\* is suspended, lost, released or restarted in between.
NameLeadsToOne ==
    \A n \in ShNames :
        /\ Cardinality(ByName(n)) <= 1
        /\ \A l \in ByName(n) : shNamed[l] = n

\* A user is let in on a surface exactly when the owner's last answer about
\* them says so and it has not lapsed: no revoke is undone by a pause, a
\* restart or a late call, and no grant is lost to one.
SharedAsTold ==
    \A u \in Grantees, m \in Modes, l \in ShLeases :
        InStore(l) => (l \in SharedWith(u, m) <=> (shTold[l][u].mode = m /\ ~shTold[l][u].over))

\* Every share held is one its owner can see and take back: none is held for a
\* lease that is gone.
HeldSharesAreListed ==
    \A l \in ShLeases, u \in Grantees :
        (shMap[l][u] # NoShare /\ shLease[l].state # "released") => <<l, u>> \in SharesListed

\* Names and shares mean the same in memory, in the rows and to the user who
\* asks, across a restart.
NamesAndSharesHold ==
  /\ NameLeadsToOne
  /\ SharedAsTold
  /\ HeldSharesAreListed
=============================================================================
