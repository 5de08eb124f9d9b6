---------------------------- MODULE SessionTokens ----------------------------
(***************************************************************************)
(* Session and renewal tokens: how logins issue them, refreshes rotate     *)
(* them, logouts invalidate them, and how the concurrent transactions of   *)
(* these handlers interleave over one PostgreSQL database (READ            *)
(* COMMITTED).                                                             *)
(*                                                                         *)
(* A GRANT is what one call of _issue_auth_result creates: a session JWT,  *)
(* a renewal JWT and the refresh_tokens row of the latter.  A REQUEST is a *)
(* slot of the server that handles one HTTP request, and so one database   *)
(* transaction, at a time.                                                 *)
(***************************************************************************)
EXTENDS Naturals, FiniteSets

CONSTANTS
    Users,          \* rows of the users table
    Staff,          \* the users whose role is in STAFF_ROLES
    Grants,         \* identities of the grants that can be issued
    Requests,       \* slots for concurrent requests
    LogoutRequests, \* the slots that may handle a logout
    MaxVersion,     \* bound: no logout begins at this session_version
    None            \* stands for Python's None

(* What a grant's two JWTs say: sub, sv; and, as history, root: the grant  *)
(* of the login that the grant descends from by refreshes.                 *)
Claim == [user : Users, sv : Nat, root : Grants]

ASSUME ConstantsOK ==
    /\ Staff \subseteq Users
    /\ LogoutRequests \subseteq Requests
    /\ MaxVersion \in Nat
    /\ None \notin Users \cup Grants
    /\ None \notin Claim

VARIABLES
    sessionVersion, \* users.session_version, committed
    isActive,       \* users.is_active, committed
    row,            \* refresh_tokens by grant, committed
    claims,         \* what the JWTs of a grant say; None: not issued
    held,           \* grants whose cookies some client has received
    expired,        \* grants whose renewal token has run out
    pc,             \* where the handler of a request stands
    tx              \* what its transaction has read, locked and staged

vars == <<sessionVersion, isActive, row, claims, held, expired, pc, tx>>

Logouts == {"logout", "admin_logout"}

(* kind: the endpoint; want: the refresh_tokens row it presents or waits   *)
(* for; user, seen: the user it read and the session_version it saw; mint: *)
(* the grant it issues; rows: the refresh_tokens rows it has locked; todo: *)
(* rows revoke_all_refresh_tokens has still to visit; bump: it has updated *)
(* the users row, which it therefore holds locked.                         *)
Tx == [kind : {"none", "login", "refresh"} \cup Logouts,
       want : Grants \cup {None}, user : Users \cup {None}, seen : Nat,
       mint : Grants \cup {None}, rows : SUBSET Grants, todo : SUBSET Grants,
       bump : BOOLEAN]

NoTx == [kind |-> "none", want |-> None, user |-> None, seen |-> 0,
         mint |-> None, rows |-> {}, todo |-> {}, bump |-> FALSE]

PCs == {"idle", "lock", "check", "resolve", "snapshot", "revoke", "bump",
        "respond", "commit"}

TypeOK ==
    /\ sessionVersion \in [Users -> Nat]
    /\ isActive \in [Users -> BOOLEAN]
    /\ row \in [Grants -> {"absent", "live", "revoked"}]
    /\ claims \in [Grants -> Claim \cup {None}]
    /\ held \subseteq Grants
    /\ expired \subseteq Grants
    /\ pc \in [Requests -> PCs]
    /\ tx \in [Requests -> Tx]

Init ==
    /\ sessionVersion = [u \in Users |-> 0]
    /\ isActive = [u \in Users |-> TRUE]
    /\ row = [g \in Grants |-> "absent"]
    /\ claims = [g \in Grants |-> None]
    /\ held = {}
    /\ expired = {}
    /\ pc = [r \in Requests |-> "idle"]
    /\ tx = [r \in Requests |-> NoTx]

-----------------------------------------------------------------------------
(* Row locks.  A transaction keeps them until it commits or rolls back.    *)

RowFree(r, g)  == \A s \in Requests \ {r} : g \notin tx[s].rows
UserFree(r, u) == \A s \in Requests \ {r} : ~(tx[s].bump /\ tx[s].user = u)

Blockers(r) ==
    {s \in Requests \ {r} :
        \/ pc[r] \in {"lock", "resolve", "revoke"} /\ tx[r].want \in tx[s].rows
        \/ pc[r] = "bump" /\ tx[s].bump /\ tx[s].user = tx[r].user}

Deadlocked(r) ==
    \E S \in SUBSET Requests :
        r \in S /\ \A s \in S : Blockers(s) \cap S # {}

Fresh(g) == claims[g] = None /\ \A s \in Requests : tx[s].mint # g

(* Mutation: an error path that leaves its locks behind.                   *)
Rollback_KeepsLocks(r) ==
    /\ pc' = [pc EXCEPT ![r] = "idle"]
    /\ tx' = [tx EXCEPT ![r] = [NoTx EXCEPT !.rows = tx[r].rows]]
    /\ UNCHANGED <<sessionVersion, isActive, row, claims, held, expired>>

(* get_db on an exception: roll back, which drops everything staged and    *)
(* every lock.  JWTs that reached no client are as if never issued.        *)
Rollback(r) ==
    /\ pc' = [pc EXCEPT ![r] = "idle"]
    /\ tx' = [tx EXCEPT ![r] = NoTx]
    /\ claims' = [g \in Grants |->
                    IF g = tx[r].mint /\ g \notin held THEN None ELSE claims[g]]
    /\ UNCHANGED <<sessionVersion, isActive, row, held, expired>>

(* Mutation: tokens signed with the version the next logout will write.    *)
IssueAuthResult_Ahead(r, g, u, root) ==
    /\ claims' = [claims EXCEPT ![g] =
                    [user |-> u, sv |-> sessionVersion[u] + 1, root |-> root]]
    /\ pc' = [pc EXCEPT ![r] = "respond"]

(* _issue_auth_result: sign both JWTs with the session_version this        *)
(* transaction saw and stage the refresh_tokens row.                       *)
IssueAuthResult(r, g, u, root) ==
    /\ claims' = [claims EXCEPT ![g] =
                    [user |-> u, sv |-> sessionVersion[u], root |-> root]]
    /\ pc' = [pc EXCEPT ![r] = "respond"]

-----------------------------------------------------------------------------
(* Logins: the end of verify_otp, admin_login, and social_login for an     *)
(* account already linked.  They differ in the proof of identity, which is *)
(* not this module's subject; then all read the user, reject an inactive   *)
(* one, and issue.                                                         *)
Login(r, u, g) ==
    /\ pc[r] = "idle" /\ isActive[u] /\ Fresh(g)
    /\ tx' = [tx EXCEPT ![r] = [NoTx EXCEPT !.kind = "login", !.user = u,
                                  !.seen = sessionVersion[u], !.mint = g]]
    /\ IssueAuthResult(r, g, u, g)
    /\ UNCHANGED <<sessionVersion, isActive, row, held, expired>>

(* refresh_session, with the renewal cookie of grant h.                    *)
BeginRefresh(r, h, g) ==
    /\ pc[r] = "idle" /\ h \in held /\ Fresh(g)
    /\ pc' = [pc EXCEPT ![r] = "lock"]
    /\ tx' = [tx EXCEPT ![r] = [NoTx EXCEPT !.kind = "refresh", !.want = h,
                                  !.mint = g]]
    /\ UNCHANGED <<sessionVersion, isActive, row, claims, held, expired>>

(* Mutation: SELECT without FOR UPDATE does not wait.                      *)
LockRow_NoWait(r) ==
    /\ pc[r] = "lock" /\ row[tx[r].want] # "absent"
    /\ pc' = [pc EXCEPT ![r] = "check"]
    /\ tx' = [tx EXCEPT ![r] = [@ EXCEPT !.rows = {tx[r].want}]]
    /\ UNCHANGED <<sessionVersion, isActive, row, claims, held, expired>>

(* get_refresh_token_for_update: waits for the row lock, then sees the row *)
(* as last committed.                                                      *)
LockRow(r) ==
    /\ pc[r] = "lock" /\ row[tx[r].want] # "absent"
    /\ RowFree(r, tx[r].want)
    /\ pc' = [pc EXCEPT ![r] = "check"]
    /\ tx' = [tx EXCEPT ![r] = [@ EXCEPT !.rows = {tx[r].want}]]
    /\ UNCHANGED <<sessionVersion, isActive, row, claims, held, expired>>

(* No committed row carries the token's hash: 401.                         *)
RefreshUnknown(r) ==
    /\ pc[r] = "lock" /\ row[tx[r].want] = "absent"
    /\ Rollback(r)

(* Mutation: the JWT's version is not compared.                            *)
Refreshable_AnyVersion(h) ==
    row[h] = "live" /\ h \notin expired /\ isActive[claims[h].user]

Refreshable(h) ==
    LET u == claims[h].user
    IN /\ row[h] = "live" /\ h \notin expired
       /\ claims[h].sv = sessionVersion[u]
       /\ isActive[u]

(* Reads the user, checks, revokes the presented row and issues.           *)
RefreshCheck(r) ==
    LET h == tx[r].want
        u == claims[h].user
    IN /\ pc[r] = "check" /\ Refreshable(h)
       /\ tx' = [tx EXCEPT ![r] = [@ EXCEPT !.user = u, !.seen = sessionVersion[u]]]
       /\ IssueAuthResult(r, tx[r].mint, u, claims[h].root)
       /\ UNCHANGED <<sessionVersion, isActive, row, held, expired>>

RefreshReject(r) ==
    /\ pc[r] = "check" /\ ~Refreshable(tx[r].want)
    /\ Rollback(r)

-----------------------------------------------------------------------------
(* Logouts.  resolve_session_user takes the session cookie when it still   *)
(* decodes, and checks neither its version nor any revocation; otherwise   *)
(* it looks the renewal cookie's row up, FOR UPDATE, revoked or not.  The  *)
(* client may present either cookie, so which one decodes is free here.    *)
MayLogout(kind, u) == kind = "admin_logout" => u \in Staff

LogoutBySession(r, kind, h) ==
    LET u == claims[h].user
    IN /\ pc[r] = "idle" /\ h \in held /\ MayLogout(kind, u)
       /\ sessionVersion[u] < MaxVersion
       /\ pc' = [pc EXCEPT ![r] = "snapshot"]
       /\ tx' = [tx EXCEPT ![r] = [NoTx EXCEPT !.kind = kind, !.user = u,
                                     !.seen = sessionVersion[u]]]
       /\ UNCHANGED <<sessionVersion, isActive, row, claims, held, expired>>

LogoutByRenewal(r, kind, h) ==
    /\ pc[r] = "idle" /\ h \in held
    /\ sessionVersion[claims[h].user] < MaxVersion
    /\ pc' = [pc EXCEPT ![r] = "resolve"]
    /\ tx' = [tx EXCEPT ![r] = [NoTx EXCEPT !.kind = kind, !.want = h]]
    /\ UNCHANGED <<sessionVersion, isActive, row, claims, held, expired>>

(* Lock the row, read its owner; admin's logout checks the role and then   *)
(* resolves again, which meets its own lock and its own loaded objects.    *)
Resolve(r) ==
    LET u == claims[tx[r].want].user
    IN /\ pc[r] = "resolve" /\ row[tx[r].want] # "absent"
       /\ RowFree(r, tx[r].want) /\ MayLogout(tx[r].kind, u)
       /\ pc' = [pc EXCEPT ![r] = "snapshot"]
       /\ tx' = [tx EXCEPT ![r] = [@ EXCEPT !.rows = {tx[r].want}, !.user = u,
                                           !.seen = sessionVersion[u]]]
       /\ UNCHANGED <<sessionVersion, isActive, row, claims, held, expired>>

(* Not authorized: 403.                                                    *)
ResolveForbidden(r) ==
    /\ pc[r] = "resolve" /\ row[tx[r].want] # "absent"
    /\ RowFree(r, tx[r].want)
    /\ ~MayLogout(tx[r].kind, claims[tx[r].want].user)
    /\ Rollback(r)

(* Nobody to log out: the handler clears the cookies and reports success.  *)
ResolveNobody(r) ==
    /\ pc[r] = "resolve" /\ row[tx[r].want] = "absent"
    /\ pc' = [pc EXCEPT ![r] = "respond"]
    /\ UNCHANGED <<sessionVersion, isActive, row, claims, held, expired, tx>>

(* revoke_all_refresh_tokens is one UPDATE.  Its snapshot fixes the rows   *)
(* it visits; SQL promises no order.  Each row is locked when reached, and *)
(* skipped if it is no longer live by then.                                *)
NextRow(r, locked, S) ==
    \/ /\ S = {}
       /\ pc' = [pc EXCEPT ![r] = "bump"]
       /\ tx' = [tx EXCEPT ![r] = [@ EXCEPT !.rows = locked, !.todo = {},
                                           !.want = None]]
    \/ \E g \in S :
       /\ pc' = [pc EXCEPT ![r] = "revoke"]
       /\ tx' = [tx EXCEPT ![r] = [@ EXCEPT !.rows = locked, !.todo = S \ {g},
                                           !.want = g]]

LiveRows(u) == {g \in Grants : row[g] = "live" /\ claims[g].user = u}

RevokeSnapshot(r) ==
    /\ pc[r] = "snapshot"
    /\ NextRow(r, tx[r].rows, LiveRows(tx[r].user))
    /\ UNCHANGED <<sessionVersion, isActive, row, claims, held, expired>>

RevokeRow(r) ==
    /\ pc[r] = "revoke" /\ RowFree(r, tx[r].want)
    /\ NextRow(r, tx[r].rows \cup {tx[r].want}, tx[r].todo)
    /\ UNCHANGED <<sessionVersion, isActive, row, claims, held, expired>>

(* Mutation: logout revokes the rows and forgets the version.              *)
BumpVersion_Forgotten(r) ==
    /\ pc[r] = "bump"
    /\ pc' = [pc EXCEPT ![r] = "respond"]
    /\ UNCHANGED <<sessionVersion, isActive, row, claims, held, expired, tx>>

(* increment_session_version: an UPDATE of the users row, which it locks.  *)
BumpVersion(r) ==
    /\ pc[r] = "bump" /\ UserFree(r, tx[r].user)
    /\ pc' = [pc EXCEPT ![r] = "respond"]
    /\ tx' = [tx EXCEPT ![r] = [@ EXCEPT !.bump = TRUE]]
    /\ UNCHANGED <<sessionVersion, isActive, row, claims, held, expired>>

-----------------------------------------------------------------------------
(* The response, with its cookies, leaves before get_db commits.           *)
Respond(r) ==
    /\ pc[r] = "respond"
    /\ held' = held \cup ({tx[r].mint} \ {None})
    /\ pc' = [pc EXCEPT ![r] = "commit"]
    /\ UNCHANGED <<sessionVersion, isActive, row, claims, expired, tx>>

(* Mutations of the value written back.                                    *)
StoredVersion_Lower(r) == tx[r].seen - 1
StoredVersion_Same(r)  == tx[r].seen

(* user.session_version += 1: the value the transaction read, plus one.    *)
StoredVersion(r) == tx[r].seen + 1

(* Every row a committing transaction has locked it has set revoked: the   *)
(* presented row of a refresh, the live rows of a logout.                  *)
Commit(r) ==
    /\ pc[r] = "commit"
    /\ row' = [g \in Grants |-> IF g = tx[r].mint THEN "live"
                               ELSE IF g \in tx[r].rows THEN "revoked"
                               ELSE row[g]]
    /\ sessionVersion' = IF tx[r].bump
                         THEN [sessionVersion EXCEPT ![tx[r].user] = StoredVersion(r)]
                         ELSE sessionVersion
    /\ pc' = [pc EXCEPT ![r] = "idle"]
    /\ tx' = [tx EXCEPT ![r] = NoTx]
    /\ UNCHANGED <<isActive, claims, held, expired>>

(* The process dies, the connection drops or the commit fails.             *)
Abort(r) == pc[r] # "idle" /\ Rollback(r)

(* PostgreSQL breaks a cycle of waiting transactions by failing one.       *)
DeadlockVictim(r) == Deadlocked(r) /\ Rollback(r)

(* Operators disable accounts in the database; no endpoint does.           *)
Disable(u) ==
    /\ isActive[u]
    /\ isActive' = [isActive EXCEPT ![u] = FALSE]
    /\ UNCHANGED <<sessionVersion, row, claims, held, expired, pc, tx>>

(* REFRESH_TOKEN_EXPIRE_DAYS pass: the renewal JWT and its row run out.    *)
Expire(g) ==
    /\ g \in held \ expired
    /\ expired' = expired \cup {g}
    /\ UNCHANGED <<sessionVersion, isActive, row, claims, held, pc, tx>>

Begin(r) ==
    \/ \E u \in Users, g \in Grants : Login(r, u, g)
    \/ \E h, g \in Grants : BeginRefresh(r, h, g)
    \/ /\ r \in LogoutRequests
       /\ \E kind \in Logouts, h \in Grants :
            LogoutBySession(r, kind, h) \/ LogoutByRenewal(r, kind, h)

Acquire(r) == LockRow(r) \/ Resolve(r) \/ ResolveForbidden(r)
              \/ RevokeRow(r) \/ BumpVersion(r)

Proceed(r) == RefreshUnknown(r) \/ RefreshCheck(r) \/ RefreshReject(r)
              \/ ResolveNobody(r) \/ RevokeSnapshot(r) \/ Respond(r) \/ Commit(r)

Next ==
    \/ \E r \in Requests : \/ Begin(r) \/ Acquire(r) \/ Proceed(r)
                           \/ Abort(r) \/ DeadlockVictim(r)
    \/ \E u \in Users : Disable(u)
    \/ \E g \in Grants : Expire(g)

Spec == Init /\ [][Next]_vars

(* The event loop runs every handler that can go on; PostgreSQL queues the *)
(* waiters of a row, so a lock released again and again is granted in the  *)
(* end; and its deadlock detector runs in every waiting transaction.       *)
FairSpec ==
    /\ Spec
    /\ \A r \in Requests : /\ WF_vars(Proceed(r))
                           /\ SF_vars(Acquire(r))
                           /\ WF_vars(DeadlockVictim(r))

-----------------------------------------------------------------------------
(* AuthMiddleware's comparison of a JWT with the users row.                *)
VersionCurrent(g) == claims[g].sv = sessionVersion[claims[g].user]

Issued(g) == claims[g] # None

(* Rotation is exclusive: of all the renewal tokens that descend from one  *)
(* login at most one is live, however its refreshes interleave, fail after *)
(* their response or are retried (refresh_session's FOR UPDATE).           *)
OneLivePerLogin ==
    \A g, h \in Grants :
        row[g] = "live" /\ row[h] = "live" /\ claims[g].root = claims[h].root
            => g = h

(* Refreshing never carries a login into a later session_version: a token  *)
(* says the version its login saw, whatever logouts committed between the  *)
(* refresh's two reads (refresh_session compares and then signs).          *)
FamilyVersion ==
    \A g \in Grants : Issued(g) =>
        /\ Issued(claims[g].root)
        /\ claims[claims[g].root].sv = claims[g].sv
        /\ claims[claims[g].root].user = claims[g].user

(* Revoking is never half done: a login whose session JWTs AuthMiddleware  *)
(* still admits and which has lost a renewal token still owns a live one.  *)
(* Rotation and logout both set revoked_at; the one commits the successor  *)
(* and the other the new session_version with it.                          *)
CurrentLoginHasLiveRow ==
    \A h \in Grants : row[h] = "revoked" /\ VersionCurrent(h) =>
        \E g \in Grants : row[g] = "live" /\ claims[g].root = claims[h].root

(* When a logout commits, every token its user was ever issued is dead,    *)
(* also those of refreshes and logins it raced with, whose rows its        *)
(* revoke_all_refresh_tokens could not see (_invalidate_sessions).         *)
LogoutEndsSessions ==
    [][\A r \in Requests :
        /\ pc[r] = "commit" /\ pc'[r] = "idle" /\ tx[r].kind \in Logouts
        /\ <<row, sessionVersion>>' # <<row, sessionVersion>>
        => \A g \in Grants : Issued(g) /\ claims[g].user = tx[r].user =>
             ~VersionCurrent(g)']_vars

(* A token that some version bump has killed stays dead: session_version   *)
(* never returns to a value tokens in clients' hands carry.                *)
NoResurrection ==
    [][\A g \in held : ~VersionCurrent(g) => ~VersionCurrent(g)']_vars

(* The logins of which a client holds a session JWT of the user's present  *)
(* session_version; AuthMiddleware admits it if the account is active.     *)
LoggedIn(u) == {claims[g].root : g \in {h \in held : claims[h].user = u /\ VersionCurrent(h)}}

Sess == INSTANCE Sessions WITH
            Logins <- Grants,
            sessions <- [u \in Users |-> LoggedIn(u)],
            started <- {claims[g].root : g \in held}

(* Rotation, expiry, failed commits and retries are invisible: somebody is *)
(* logged in from a login on, until a logout ends all logins of that user  *)
(* for good (issue, rotation and _invalidate_sessions together).           *)
ImplementsSessions == Sess!Spec

(* No handler waits for ever: row locks are released, and cycles of        *)
(* waiting logouts are broken.                                             *)
EveryRequestAnswered ==
    \A r \in Requests : pc[r] # "idle" ~> pc[r] = "idle"
=============================================================================
