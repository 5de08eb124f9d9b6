-------------------------- MODULE ProtectedRoutes --------------------------
(***************************************************************************)
(* The guarded routes, behind AuthMiddleware.  The middleware reads the    *)
(* user in a database session of its own, closes it, and hands the handler *)
(* a copy; the handler reads again in its own transaction.  Logouts,       *)
(* operators and other requests of the same user commit in between.  The   *)
(* handler that writes here is become_instructor; what link_google writes  *)
(* is in Accounts.                                                         *)
(*                                                                         *)
(* Logouts are not numbered: one writes back the session_version it has    *)
(* read plus one, and may have read any that the row ever had, so that     *)
(* overlapping ones set it back.  Cookies leave before their login is      *)
(* committed, so some are of a version, or of an account, that is not      *)
(* committed yet and may never be.                                         *)
(***************************************************************************)
EXTENDS Naturals, FiniteSets, Routing

CONSTANTS
    Users,      \* rows of the users table
    Staff,      \* those whose role is in STAFF_ROLES
    Legacy,     \* those migration 005 made instructors without a profile
    Answers,    \* what a become-instructor body may say
    Requests,   \* slots for concurrent requests
    MaxVersion, \* bound: no higher session_version is written
    None        \* stands for Python's None

ASSUME ConstantsOK ==
    /\ Staff \subseteq Users /\ Legacy \subseteq Users \ Staff
    /\ MaxVersion \in Nat
    /\ None \notin Answers /\ None \notin Users

Account == [version : Nat, verified : BOOLEAN, active : BOOLEAN, instructor : BOOLEAN]

VARIABLES
    account, \* users: session_version, email_verified, is_active,
             \* is_instructor, committed
    past,    \* the values each user's session_version has had, the present
             \* one included: what a logout still running may have read
    profile, \* instructors, committed; None: no row
    pc, tx,  \* where each request stands; what it carries and has written
    reply    \* how each slot's present or last request was answered; any
             \* success counts as 200

vars == <<account, past, profile, pc, tx, reply>>

(* Request lines that reach a handler with a guard.                        *)
Guarded == {LineOf(route) : route \in {t \in RouteTable : t[3] # "public"}}
StaffOnly(path) == <<"GET", path, "staff">> \in RouteTable

(* The value of the cookie named session: nothing (or nothing that         *)
(* decodes), or a JWT of either type under some session_version.           *)
Cookies == [typ : {"session", "renewal"}, user : Users, sv : Nat] \cup {None}

(* path: the request's; user, sv: what the session JWT says; versions:     *)
(* history, the session_versions the user had since the request came in,   *)
(* as long as the middleware has not looked; able: history, is_active when *)
(* it came in; answers: its body; wrote: it has updated the users row,     *)
(* which it holds locked.                                                  *)
Tx == [path : Paths \cup {None}, user : Users \cup {None}, sv : Nat,
       versions : SUBSET Nat, able : BOOLEAN, answers : Answers \cup {None},
       wrote : BOOLEAN]

NoTx == [path |-> None, user |-> None, sv |-> 0, versions |-> {}, able |-> FALSE,
         answers |-> None, wrote |-> FALSE]

TypeOK ==
    /\ account \in [Users -> Account]
    /\ past \in [Users -> SUBSET Nat]
    /\ profile \in [Users -> Answers \cup {None}]
    /\ pc \in [Requests -> {"idle", "check", "handle", "write", "respond", "commit"}]
    /\ tx \in [Requests -> Tx]
    /\ reply \in [Requests -> {"none", "200", "400", "401", "403", "409", "500"}]

(* Staff are created verified, and migration 003 verifies everyone who is  *)
(* there; the others have signed up.                                       *)
Init ==
    /\ account = [u \in Users |->
                    [version |-> 0, verified |-> u \in Staff \cup Legacy,
                     active |-> TRUE, instructor |-> u \in Legacy]]
    /\ past = [u \in Users |-> {0}]
    /\ profile = [u \in Users |-> None]
    /\ pc = [r \in Requests |-> "idle"]
    /\ tx = [r \in Requests |-> NoTx]
    /\ reply = [r \in Requests |-> "none"]

-----------------------------------------------------------------------------
RowFree(u) == \A s \in Requests : ~(tx[s].wrote /\ tx[s].user = u)

Goto(r, label) == pc' = [pc EXCEPT ![r] = label] /\ UNCHANGED <<account, past, profile, reply>>

(* Answered, and the transaction over with nothing of it committed.  What  *)
(* a refused request carried is forgotten.                                 *)
Reply(r, status) ==
    /\ pc' = [pc EXCEPT ![r] = "idle"]
    /\ reply' = [reply EXCEPT ![r] = status]
    /\ tx' = [tx EXCEPT ![r] = IF status = "200" THEN [@ EXCEPT !.wrote = FALSE] ELSE NoTx]
    /\ UNCHANGED <<account, past, profile>>

(* decode_token(token, TokenType.SESSION)                                  *)
Decodes(cookie) == cookie # None /\ cookie.typ = "session"

(* Without a session JWT the middleware answers 401; a guarded line that   *)
(* it let through as public would find no user and get the same from       *)
(* get_current_user.                                                       *)
ArriveUnknown(r, line, cookie) ==
    /\ pc[r] = "idle" /\ line \in Guarded
    /\ is_public(line) \/ ~Decodes(cookie)
    /\ Reply(r, "401")

Arrive(r, line, cookie, a) ==
    /\ pc[r] = "idle" /\ line \in Guarded
    /\ ~is_public(line) /\ Decodes(cookie)
    /\ pc' = [pc EXCEPT ![r] = "check"]
    /\ tx' = [tx EXCEPT ![r] = [path |-> line.path, user |-> cookie.user, sv |-> cookie.sv,
                                versions |-> {account[cookie.user].version},
                                able |-> account[cookie.user].active,
                                answers |-> a, wrote |-> FALSE]]
    /\ reply' = [reply EXCEPT ![r] = "none"]
    /\ UNCHANGED <<account, past, profile>>

(* Mutation: the JWT's version is not compared.                            *)
Current_AnyVersion(r) == account[tx[r].user].verified

Current(r) ==
    /\ account[tx[r].user].verified
    /\ account[tx[r].user].version = tx[r].sv

Admit(r) ==
    /\ pc[r] = "check" /\ Current(r) /\ account[tx[r].user].active
    /\ Goto(r, "handle") /\ UNCHANGED tx

Refuse(r) ==
    /\ pc[r] = "check"
    /\ \/ ~Current(r) /\ Reply(r, "401")
       \/ Current(r) /\ ~account[tx[r].user].active /\ Reply(r, "403")

(* What the dependencies and the handler may decide on what it reads; only *)
(* list_users reads no account of its caller again.  Staff have no         *)
(* /user/me.  link_google's answer is up to Google and to other accounts.  *)
Outcome(r, status) ==
    LET path   == tx[r].path
        staff  == tx[r].user \in Staff
        active == account[tx[r].user].active
        taught == account[tx[r].user].instructor
    IN  \/ status = "401" /\ path = "/user/me" /\ staff
        \/ status = "403" /\ StaffOnly(path) /\ ~staff
        \/ status = "403" /\ path = "/instructor/become" /\ staff
        \/ /\ status = "403" /\ ~active
           /\ path # "/admin/users" /\ ~(path = "/user/me" /\ staff)
        \/ status = "409" /\ path = "/instructor/become" /\ active /\ ~staff /\ taught
        \/ status = "write" /\ path = "/instructor/become" /\ active /\ ~staff /\ ~taught
        \/ status \in {"200", "400", "401", "409"} /\ path = "/auth/link-google" /\ active
        \/ status = "200" /\ path = "/user/me" /\ active /\ ~staff
        \/ status = "200" /\ path = "/admin/me" /\ active /\ staff
        \/ status = "200" /\ path = "/admin/users" /\ staff

Handle(r) ==
    /\ pc[r] = "handle"
    /\ \E status \in {"200", "400", "401", "403", "409"} :
           Outcome(r, status) /\ Reply(r, status)

HandleBecome(r) ==
    /\ pc[r] = "handle" /\ Outcome(r, "write")
    /\ Goto(r, "write") /\ UNCHANGED tx

(* Mutation: instructors without its primary key.                          *)
Duplicate_Never(r) == FALSE

Duplicate(r) == profile[tx[r].user] # None

(* One flush updates the users row, waiting for it, and then inserts into  *)
(* instructors, whose primary key refuses a second row: 409.               *)
Write(r) ==
    /\ pc[r] = "write" /\ RowFree(tx[r].user) /\ ~Duplicate(r)
    /\ tx' = [tx EXCEPT ![r].wrote = TRUE]
    /\ Goto(r, "respond")

WriteRefused(r) ==
    /\ pc[r] = "write" /\ RowFree(tx[r].user) /\ Duplicate(r)
    /\ Reply(r, "409")

(* "You are now an instructor" leaves before get_db commits.               *)
Respond(r) ==
    /\ pc[r] = "respond"
    /\ pc' = [pc EXCEPT ![r] = "commit"]
    /\ reply' = [reply EXCEPT ![r] = "200"]
    /\ UNCHANGED <<account, past, profile, tx>>

(* Mutation: the flag is not set with the profile.                         *)
Flagged_Not(r) == account

(* Mutation: the wrong argument is stored.                                 *)
Stored_Path(r) == [profile EXCEPT ![tx[r].user] = tx[r].path]

Flagged(r) == [account EXCEPT ![tx[r].user].instructor = TRUE]
Stored(r)  == [profile EXCEPT ![tx[r].user] = tx[r].answers]

Commit(r) ==
    /\ pc[r] = "commit"
    /\ account' = Flagged(r)
    /\ profile' = Stored(r)
    /\ pc' = [pc EXCEPT ![r] = "idle"]
    /\ tx' = [tx EXCEPT ![r].wrote = FALSE]
    /\ UNCHANGED <<past, reply>>

(* The process dies, the connection drops or the commit fails: before the  *)
(* response the client sees an error, after it nothing more.               *)
Abort(r) ==
    \/ pc[r] \in {"check", "handle", "write", "respond"} /\ Reply(r, "500")
    \/ pc[r] = "commit" /\ Reply(r, reply[r])

-----------------------------------------------------------------------------
(* What else commits.                                                      *)

(* _invalidate_sessions: the loaded session_version plus one is written.   *)
EndSessions(u, v) ==
    /\ RowFree(u) /\ v \in past[u] /\ v < MaxVersion
    /\ past' = [past EXCEPT ![u] = @ \cup {v + 1}]
    /\ tx' = [r \in Requests |-> IF pc[r] = "check" /\ tx[r].user = u
                                 THEN [tx[r] EXCEPT !.versions = @ \cup {v + 1}]
                                 ELSE tx[r]]
    /\ UNCHANGED <<profile, pc, reply>>

Logout(u, v) ==
    /\ EndSessions(u, v)
    /\ account' = [account EXCEPT ![u].version = v + 1]

(* social_login's relinking path; on an account that was verified while it *)
(* ran it does what a logout does.                                         *)
Relink(u, v) ==
    /\ ~account[u].verified
    /\ EndSessions(u, v)
    /\ account' = [account EXCEPT ![u].version = v + 1, ![u].verified = TRUE]

(* verify_otp.                                                             *)
Verify(u) ==
    /\ RowFree(u) /\ ~account[u].verified
    /\ account' = [account EXCEPT ![u].verified = TRUE]
    /\ UNCHANGED <<past, profile, pc, tx, reply>>

(* Operators disable accounts in the database.                             *)
Disable(u) ==
    /\ RowFree(u) /\ account[u].active
    /\ account' = [account EXCEPT ![u].active = FALSE]
    /\ UNCHANGED <<past, profile, pc, tx, reply>>

(* What a client may present: no cookie, one of a version that its user    *)
(* has or had, or one that the relinking path handed out before it         *)
(* committed the version that is in it.                                    *)
Issued ==
    {cookie \in [typ : {"session", "renewal"}, user : Users, sv : 0..(MaxVersion + 1)] :
        \/ cookie.sv \in past[cookie.user]
        \/ cookie.user \notin Staff \cup Legacy /\ cookie.sv - 1 \in past[cookie.user]}
    \cup {None}

Next ==
    \/ \E r \in Requests :
        \/ \E line \in Guarded, cookie \in Issued :
             \E a \in IF line.path = "/instructor/become" THEN Answers ELSE {None} :
                 Arrive(r, line, cookie, a)
        \/ \E line \in Guarded, cookie \in Issued : ArriveUnknown(r, line, cookie)
        \/ Admit(r) \/ Refuse(r) \/ Handle(r) \/ HandleBecome(r)
        \/ Write(r) \/ WriteRefused(r) \/ Respond(r) \/ Commit(r) \/ Abort(r)
    \/ \E u \in Users :
        \/ \E v \in past[u] : Logout(u, v) \/ Relink(u, v)
        \/ Verify(u) \/ Disable(u)

Spec == Init /\ [][Next]_vars

-----------------------------------------------------------------------------
(* A profile and the is_instructor flag come together and never apart,     *)
(* whatever wizards race; only migrated instructors have no profile.       *)
FlagMatchesProfile ==
    \A u \in Users : account[u].instructor <=> (profile[u] # None \/ u \in Legacy)

(* Whatever commits between the middleware's read and the handler's, and   *)
(* however often overlapping logouts set a session_version back, a guarded *)
(* route serves nobody without a session JWT of the version that its user  *)
(* had, committed, at some moment between the request's arrival and the    *)
(* middleware's look; the account was active when it arrived, and its      *)
(* address is verified; and a staff route serves staff.                    *)
OnlyEntitledServed ==
    \A r \in Requests : reply[r] = "200" =>
        /\ tx[r].user # None /\ tx[r].sv \in tx[r].versions /\ tx[r].able
        /\ account[tx[r].user].verified
        /\ StaffOnly(tx[r].path) => tx[r].user \in Staff

(* The first wizard to commit decides: no later one overwrites a profile.  *)
ProfileWrittenOnce ==
    [][\A u \in Users : profile[u] # None => profile'[u] = profile[u]]_vars
=============================================================================
