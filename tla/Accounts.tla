------------------------------- MODULE Accounts -------------------------------
(***************************************************************************)
(* Users and their tokens (identity/store.go): maps and indexes in memory, *)
(* rewritten as one file by every change, a write that may fail, and a     *)
(* restart that loads the file.  On top of it the deletion of a user       *)
(* (api/userdelete.go), whose steps may fail one by one and which races    *)
(* requests the user authenticated before.                                 *)
(***************************************************************************)
EXTENDS Integers, FiniteSets, Functions, Sequences, SequencesExt

CONSTANTS
  Users,         \* 1, 2, ...: the ids in the order they are given out
  Names, Keys, Tokens,
  MaxTokens,     \* maxTokensPerUser
  AcScenarios,   \* what may happen or fail: subsets of AcEvents
  NoToken        \* ""

AcEvents == {"save", "removeSave", "step", "restart", "settings", "mint", "work", "delete"}

ASSUME AccountsAssumption ==
  /\ AcScenarios \subseteq SUBSET AcEvents
  /\ NoToken \notin Tokens
  /\ MaxTokens \in Nat
  /\ Users \subseteq Nat

VARIABLES
  mem,        \* Store.users: a function on the users that exist
  byName, byFP, byToken,
  file,       \* the users file
  used,       \* ids ever given out
  expired,    \* tokens past their ExpiresAt
  deletedOwners,
  owned,      \* [Users -> kinds of state the service keeps for the owner]
  req,        \* a request of a user: authenticating, then about to insert
  del,        \* the deletion in progress
  shown,      \* ghost: [Tokens -> what the callers were told of the token]
  answered,   \* ghost: users whose deletion was answered as complete
  late,       \* ghost: users with a grant written after they were removed
  unsaved,    \* ghost: a change was answered as failed and not undone since the last save
  may         \* what may happen or fail in this behaviour

index == <<byName, byFP, byToken>>
ghosts == <<shown, answered, late, unsaved>>
acvars == <<mem, index, file, used, expired, deletedOwners, owned, req, del, ghosts, may>>

Empty == [x \in {} |-> x]
Idle == [at |-> "idle"]
Kinds == {"job", "lease", "kept", "snapshot", "grant"}

\* The hashes of a user: the token it was created with and the minted ones.
TokensOf(u) == u.tokens \cup ({u.legacy} \ {NoToken})

\* index, for every user of us.
NameIndex(us) == [n \in {us[u].name : u \in DOMAIN us} |-> CHOOSE u \in DOMAIN us : us[u].name = n]
KeyIndex(us) == [k \in UNION {us[u].keys : u \in DOMAIN us} |-> CHOOSE u \in DOMAIN us : k \in us[u].keys]
TokenIndex(us) ==
  [t \in UNION {TokensOf(us[u]) : u \in DOMAIN us} |-> CHOOSE u \in DOMAIN us : t \in TokensOf(us[u])]

ACInit ==
  /\ mem = Empty /\ byName = Empty /\ byFP = Empty /\ byToken = Empty
  /\ file = Empty
  /\ used = {} /\ expired = {}
  /\ deletedOwners = {}
  /\ owned = [u \in Users |-> {}]
  /\ req = Idle /\ del = Idle
  /\ shown = [t \in Tokens |-> "no"]
  /\ answered = {} /\ late = {}
  /\ unsaved = FALSE
  /\ may \in AcScenarios

Without(f, x) == Restrict(f, DOMAIN f \ x)
With(f, x, v) == [y \in DOMAIN f \cup {x} |-> IF y = x THEN v ELSE f[y]]

\* save: the file becomes the memory, or stays as it was.
Save == file' = mem' /\ unsaved' = FALSE

\* A failed save whose caller does not undo the change.
SaveFails == "save" \in may /\ UNCHANGED file /\ unsaved' = TRUE

\* requireAdmin: an administrator asks, or nobody exists yet.
AdminAsks == mem = Empty \/ \E a \in DOMAIN mem : mem[a].admin

-----------------------------------------------------------------------------
(* Changes under the store's lock.                                         *)

AddUser(u, n, ks, t) ==
  /\ u = Cardinality(used) + 1 /\ n \notin DOMAIN byName
  /\ ks \cap DOMAIN byFP = {} /\ t \notin DOMAIN byToken
  /\ t \in {NoToken} \cup {x \in Tokens : shown[x] = "no"}
  /\ mem' = With(mem, u, [name |-> n, keys |-> ks, legacy |-> t, tokens |-> {},
                          admin |-> mem = Empty, cfg |-> "none"])
  /\ used' = used \cup {u}
  /\ byName' = With(byName, n, u)
  /\ byFP' = [k \in DOMAIN byFP \cup ks |-> IF k \in ks THEN u ELSE byFP[k]]
  /\ byToken' = IF t = NoToken THEN byToken ELSE With(byToken, t, u)
  /\ shown' = IF t = NoToken THEN shown ELSE [shown EXCEPT ![t] = "given"]
  /\ Save \/ SaveFails
  /\ UNCHANGED <<expired, deletedOwners, owned, req, del, answered, late, may>>

\* SetQuota, SetExecLimit, SetDialLimit, SetEgressCeiling, SetLLMKey: one
\* setting changes (cfg names the last one) and the file is rewritten.
Set(u, f) ==
  /\ u \in DOMAIN mem
  /\ mem' = [mem EXCEPT ![u].cfg = f]
  /\ Save \/ SaveFails
  /\ UNCHANGED <<index, used, expired, deletedOwners, owned, req, del, shown, answered, late, may>>

\* Mutant: the check lets one more token through.
RoomForOneMore(u) == Cardinality(mem[u].tokens) <= MaxTokens

RoomForToken(u) == Cardinality(mem[u].tokens) < MaxTokens

\* Mutant: a failed save leaves record and index entry in memory.
MintKept(u, t) ==
  mem' = [mem EXCEPT ![u].tokens = @ \cup {t}] /\ byToken' = With(byToken, t, u)

MintUndone(u, t) == UNCHANGED <<mem, byToken>>

\* AddToken: a failed save leaves neither record nor index behind.
AddToken(u, t) ==
  /\ u \in DOMAIN mem /\ shown[t] = "no" /\ RoomForToken(u)
  /\ \/ /\ mem' = [mem EXCEPT ![u].tokens = @ \cup {t}]
        /\ byToken' = With(byToken, t, u)
        /\ Save
        /\ shown' = [shown EXCEPT ![t] = "minted"]
     \/ /\ "save" \in may
        /\ shown' = [shown EXCEPT ![t] = "failed"]
        /\ MintUndone(u, t)
        /\ UNCHANGED <<file, unsaved>>
  /\ UNCHANGED <<byName, byFP, used, expired, deletedOwners, owned, req, del, answered, late, may>>

\* Mutant: the record goes, its index entry stays.
RevokedIndexKept(u, t) == byToken

\* Mutant: the revoked token stays in the file.
SaveLater == UNCHANGED file /\ unsaved' = FALSE

RevokeSave == Save

RevokedIndex(u, t) == Without(byToken, {t})

\* RevokeToken: a failed save puts everything back.
RevokeToken(u, t) ==
  /\ u \in DOMAIN mem /\ t \in TokensOf(mem[u])
  /\ \/ /\ mem' = [mem EXCEPT ![u].tokens = @ \ {t}, ![u].legacy = IF @ = t THEN NoToken ELSE @]
        /\ byToken' = RevokedIndex(u, t)
        /\ RevokeSave
        /\ shown' = [shown EXCEPT ![t] = "revoked"]
     \/ "save" \in may /\ UNCHANGED <<mem, byToken, file, unsaved, shown>>
  /\ UNCHANGED <<byName, byFP, used, expired, deletedOwners, owned, req, del, answered, late, may>>

Expire(t) ==
  /\ "mint" \in may /\ shown[t] = "minted" /\ t \notin expired
  /\ expired' = expired \cup {t}
  /\ UNCHANGED <<mem, index, file, used, deletedOwners, owned, req, del, ghosts, may>>

-----------------------------------------------------------------------------
(* The handlers of /api/users.                                             *)

UsersCreate(u) ==
  /\ AdminAsks
  /\ \E n \in Names, ks \in SUBSET Keys, t \in Tokens \cup {NoToken} : AddUser(u, n, ks, t)

UsersQuota(u) == "settings" \in may /\ AdminAsks /\ Set(u, "quota")

UsersLLMKey(u) == "settings" \in may /\ AdminAsks /\ Set(u, "llm")

UsersEgressCeiling(u) == "settings" \in may /\ AdminAsks /\ Set(u, "ceiling")

\* tokenTargetUser: an administrator or the user itself.
MayManage(u) == \E caller \in DOMAIN mem : mem[caller].admin \/ caller = u

UsersTokensCreate(u, t) == "mint" \in may /\ MayManage(u) /\ AddToken(u, t)

UsersTokenRevoke(u, t) == MayManage(u) /\ RevokeToken(u, t)

-----------------------------------------------------------------------------
(* A request: UserByToken under two locks, then what it inserts.           *)

\* The read lock; a stamp that is not due ends the authentication here.  Beside
\* deletions the work of an administrator, whom none is about, is left out.
AuthBegin(t) ==
  /\ "work" \in may /\ req = Idle
  /\ t \in DOMAIN byToken /\ byToken[t] \in DOMAIN mem /\ t \notin expired
  /\ "delete" \in may => ~mem[byToken[t]].admin
  /\ \E due \in BOOLEAN :
       req' = [at |-> IF due THEN "stamp" ELSE "authed", t |-> t, u |-> byToken[t]]
  /\ UNCHANGED <<mem, index, file, used, expired, deletedOwners, owned, del, ghosts, may>>

\* The write lock: looked up again, stamped, and the whole memory saved.
AuthStamp ==
  /\ req.at = "stamp"
  /\ IF req.t \in DOMAIN byToken /\ byToken[req.t] \in DOMAIN mem
     THEN /\ req' = [req EXCEPT !.at = "authed"]
          /\ \/ file' = mem /\ unsaved' = FALSE
             \/ "save" \in may /\ UNCHANGED <<file, unsaved>>
     ELSE req' = Idle /\ UNCHANGED <<file, unsaved>>
  /\ UNCHANGED <<mem, index, used, expired, deletedOwners, owned, del, shown, answered, late, may>>

\* Mutant: the insert does not look whether the owner was deleted.
InsertUnchecked(u) == TRUE

InsertAllowed(u) == u \notin deletedOwners

\* A create or a snapshot save inserts, unless the owner was deleted; a job's row and
\* a kept build's need the lease's; a grant has read the snapshot it is for.
Insert ==
  /\ req.at = "authed"
  /\ \/ \E k \in {"lease", "snapshot"} :
          /\ owned' = IF InsertAllowed(req.u) THEN [owned EXCEPT ![req.u] = @ \cup {k}] ELSE owned
          /\ req' = Idle
     \/ /\ "delete" \in may /\ "lease" \in owned[req.u]
        /\ \E k \in {"job", "kept"} : owned' = [owned EXCEPT ![req.u] = @ \cup {k}]
        /\ req' = Idle
     \/ /\ "delete" \in may /\ "snapshot" \in owned[req.u]
        /\ req' = [req EXCEPT !.at = "grant"]
        /\ UNCHANGED owned
  /\ UNCHANGED <<mem, index, file, used, expired, deletedOwners, del, ghosts, may>>

\* The grant's row, which needs no other and looks at no mark.
InsertGrant ==
  /\ req.at = "grant" /\ req' = Idle
  /\ owned' = [owned EXCEPT ![req.u] = @ \cup {"grant"}]
  /\ late' = IF req.u \in DOMAIN mem THEN late ELSE late \cup {req.u}
  /\ UNCHANGED <<mem, index, file, used, expired, deletedOwners, del, shown, answered, unsaved,
                 may>>

-----------------------------------------------------------------------------
(* handleUsersDelete and deleteUserData.                                   *)

\* Mutant: an administrator may delete itself.
DeletableAny(u) == TRUE

DeletableUser(u) == u \notin {a \in DOMAIN mem : mem[a].admin}

\* Known, deleted before, or with state left: otherwise 404.
DeleteBegin(u) ==
  /\ "delete" \in may /\ del = Idle /\ AdminAsks /\ u \in used /\ DeletableUser(u)
  /\ IF u \in DOMAIN mem \cup deletedOwners \/ owned[u] # {}
     THEN del' = [at |-> "remove", u |-> u, failed |-> FALSE] /\ UNCHANGED answered
     ELSE UNCHANGED del /\ answered' = answered \cup {u}
  /\ UNCHANGED <<mem, index, file, used, expired, deletedOwners, owned, req, shown, unsaved, late, may>>

\* RemoveUser: a failed save ends the request, the memory stays without the
\* user; a user memory does not have is not saved.
DeleteRemove ==
  LET u == del.u IN
  /\ del.at = "remove"
  /\ IF u \in DOMAIN mem
     THEN /\ mem' = Without(mem, {u})
          /\ byName' = Without(byName, {mem[u].name})
          /\ byFP' = Without(byFP, mem[u].keys)
          /\ byToken' = Without(byToken, TokensOf(mem[u]))
          /\ \/ Save /\ del' = [del EXCEPT !.at = "mark"]
             \/ "removeSave" \in may /\ UNCHANGED file /\ unsaved' = TRUE /\ del' = Idle
     ELSE UNCHANGED <<mem, index, file, unsaved>> /\ del' = [del EXCEPT !.at = "mark"]
  /\ UNCHANGED <<used, expired, deletedOwners, owned, req, shown, answered, late, may>>

DeleteMark ==
  /\ del.at = "mark"
  /\ deletedOwners' = deletedOwners \cup {del.u}
  /\ del' = [del EXCEPT !.at = "job"]
  /\ UNCHANGED <<mem, index, file, used, expired, owned, req, ghosts, may>>

NextStep == [job |-> "lease", lease |-> "kept", kept |-> "snapshot", snapshot |-> "grant",
             grant |-> "answer"]

\* What goes with a kind: a lease's row takes its jobs' and its kept builds'.
GoesWith(k) == IF k = "lease" THEN {"lease", "job", "kept"} ELSE {k}

\* One kind of state goes; a store error is recorded and the next step runs.
DeleteStep ==
  /\ del.at \in Kinds
  /\ \/ /\ owned' = [owned EXCEPT ![del.u] = @ \ GoesWith(del.at)]
        /\ late' = IF del.at = "grant" THEN late \ {del.u} ELSE late
        /\ del' = [del EXCEPT !.at = NextStep[@]]
     \/ /\ "step" \in may /\ del.at # "lease"
        /\ del' = [del EXCEPT !.at = NextStep[@], !.failed = TRUE]
        /\ UNCHANGED <<owned, late>>
  /\ UNCHANGED <<mem, index, file, used, expired, deletedOwners, req, shown, answered, unsaved,
                 may>>

\* 200, or 500 with the step that failed.
DeleteAnswer ==
  /\ del.at = "answer"
  /\ answered' = IF del.failed THEN answered ELSE answered \cup {del.u}
  /\ del' = Idle
  /\ UNCHANGED <<mem, index, file, used, expired, deletedOwners, owned, req, shown, unsaved, late, may>>

\* NewStore loads the file; requests and the in-memory marks are lost.
AcRestart ==
  /\ "restart" \in may
  /\ mem' = file
  /\ byName' = NameIndex(file) /\ byFP' = KeyIndex(file) /\ byToken' = TokenIndex(file)
  /\ unsaved' = FALSE
  /\ deletedOwners' = {} /\ req' = Idle /\ del' = Idle
  /\ UNCHANGED <<file, used, expired, owned, shown, answered, late, may>>

ACNext ==
  \/ \E u \in Users :
       \/ UsersCreate(u)
       \/ UsersQuota(u) \/ UsersLLMKey(u) \/ UsersEgressCeiling(u)
       \/ \E t \in Tokens : UsersTokensCreate(u, t) \/ UsersTokenRevoke(u, t)
       \/ DeleteBegin(u)
  \/ \E t \in Tokens : Expire(t) \/ AuthBegin(t)
  \/ AuthStamp \/ Insert \/ InsertGrant
  \/ DeleteRemove \/ DeleteMark \/ DeleteStep \/ DeleteAnswer
  \/ AcRestart

ACSpec == ACInit /\ [][ACNext]_acvars

-----------------------------------------------------------------------------
(* Properties.                                                             *)

\* The name, key and token indexes of the store say what its users say,
\* through failed saves, the changes undone after them, and restarts.
IndexesAgree ==
  /\ byName = NameIndex(mem) /\ byFP = KeyIndex(mem) /\ byToken = TokenIndex(mem)
  /\ \A u, v \in DOMAIN mem : u # v =>
       /\ mem[u].name # mem[v].name
       /\ mem[u].keys \cap mem[v].keys = {}
       /\ TokensOf(mem[u]) \cap TokensOf(mem[v]) = {}

\* Unless a change was answered as failed, the file holds what memory holds:
\* a restart takes nothing back that a caller was told is done.
AnsweredIsDurable == ~unsaved => file = mem

\* A token whose mint failed or whose revocation was answered works neither
\* now nor after a restart; a minted one lasts as long as its user.
TokensAsTold ==
  \A t \in Tokens :
    /\ shown[t] \in {"failed", "revoked"} =>
         t \notin DOMAIN byToken /\ \A u \in DOMAIN file : t \notin TokensOf(file[u])
    /\ shown[t] = "minted" => \A u \in DOMAIN file \cap DOMAIN mem :
         t \in TokensOf(file[u]) <=> t \in TokensOf(mem[u])

\* No user holds more minted tokens than allowed, in memory or in the file.
TokenCap ==
  \A us \in {mem, file} : \A u \in DOMAIN us : Cardinality(us[u].tokens) <= MaxTokens

\* As long as anybody exists exactly one is the administrator: the first
\* user, whom no deletion takes away.
OneAdmin ==
  \A us \in {mem, file} : us # Empty => Cardinality({u \in DOMAIN us : us[u].admin}) = 1

\* A user whose deletion was answered as complete, or as not found, owns
\* nothing and never will: whatever raced the deletion was refused or undone, but
\* a grant that had read its snapshot before, whose row nothing holds back.
DeletedOwnsNothing ==
  \A u \in answered :
    /\ owned[u] \subseteq {k \in {"grant"} : u \in late}
    /\ u \notin DOMAIN mem /\ u \notin DOMAIN file

-----------------------------------------------------------------------------
(***************************************************************************)
(* The authentication of API requests and the limiter of failed attempts   *)
(* (authMiddleware and authFailLimiter, api/server.go).  A failure is      *)
(* recorded under the client's address; more than maxHits within the       *)
(* window are answered 429; a success forgets the address.  The table of   *)
(* addresses is swept at most once per window, from within a failure.      *)
(***************************************************************************)

CONSTANTS
    AlIps,       \* client addresses
    AlWindow,    \* window, in ticks
    AlMaxHits,   \* maxHits
    AlBound      \* bound on the clock

VARIABLES
    alNow,       \* the clock
    alFails,     \* fails: the recorded times per address; <<>> = no entry
    alPrune,     \* lastPrune; -1 = never
    alHist,      \* history: times of the failures since the last success
    alLast       \* the last failure's time and whether it was throttled

alvars == <<alNow, alFails, alPrune, alHist, alLast>>

NoHit == [ip |-> 0, at |-> -1, throttled |-> FALSE]

ALInit ==
    /\ alNow = 0
    /\ alFails = [ip \in AlIps |-> <<>>]
    /\ alPrune = -1
    /\ alHist = [ip \in AlIps |-> <<>>]
    /\ alLast = NoHit

Recent(times, cut) == SelectSeq(times, LAMBDA t : t > cut)

\* hit: the times still in the window and this one.
HitTimes(ip) == Append(Recent(alFails[ip], alNow - AlWindow), alNow)

\* Mutant: an address is swept as soon as one of its times is old.
PrunedAny(fails) ==
    [ip \in AlIps |-> IF \E i \in DOMAIN fails[ip] : fails[ip][i] <= alNow - AlWindow
                      THEN <<>> ELSE fails[ip]]

\* pruneLocked: addresses with no time in the window go.
PrunedTable(fails) ==
    [ip \in AlIps |-> IF Recent(fails[ip], alNow - AlWindow) = <<>> THEN <<>> ELSE fails[ip]]

\* Mutant: the sweep waits for two windows.
PruneDueLate == alPrune = -1 \/ alNow - alPrune >= 2 * AlWindow

PruneDue == alPrune = -1 \/ alNow - alPrune >= AlWindow

OverLimit(times) == Len(times) > AlMaxHits

\* A request whose token no lease, user or consumer has: 401, or 429.
AuthFails(ip) ==
    /\ Len(alHist[ip]) < 2 * AlMaxHits + 1
    /\ LET hits == [alFails EXCEPT ![ip] = HitTimes(ip)]
       IN /\ alFails' = IF PruneDue THEN PrunedTable(hits) ELSE hits
          /\ alPrune' = IF PruneDue THEN alNow ELSE alPrune
          /\ alLast' = [ip |-> ip, at |-> alNow, throttled |-> OverLimit(hits[ip])]
    /\ alHist' = [alHist EXCEPT ![ip] = Append(@, alNow)]
    /\ UNCHANGED alNow

\* clear: a request that authenticates.
AuthPasses(ip) ==
    /\ alFails' = [alFails EXCEPT ![ip] = <<>>]
    /\ alHist' = [alHist EXCEPT ![ip] = <<>>]
    /\ alLast' = NoHit
    /\ UNCHANGED <<alNow, alPrune>>

AlTick ==
    /\ alNow < AlBound
    /\ alNow' = alNow + 1
    /\ alLast' = NoHit
    /\ UNCHANGED <<alFails, alPrune, alHist>>

ALNext == AlTick \/ \E ip \in AlIps : AuthFails(ip) \/ AuthPasses(ip)

ALSpec == ALInit /\ [][ALNext]_alvars

-----------------------------------------------------------------------------

\* A failure is answered 429 exactly when the address failed more than maxHits
\* times within the window since it last authenticated: sweeping the table, and
\* other clients' failures, neither forgive an address nor throttle one.
ThrottleIsEarned ==
    alLast # NoHit =>
        (alLast.throttled
            <=> Len(SelectSeq(alHist[alLast.ip], LAMBDA t : alLast.at - t < AlWindow)) > AlMaxHits)

\* The table stays small: after a failure no address is left in it whose last
\* failure is two windows old or more.
TableForgets ==
    alLast # NoHit =>
        \A ip \in AlIps : alFails[ip] # <<>> => alLast.at - Last(alFails[ip]) < 2 * AlWindow
=============================================================================
