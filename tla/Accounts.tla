------------------------------ MODULE Accounts ------------------------------
(***************************************************************************)
(* The users table: how accounts come to be (signup, social_login, the     *)
(* seeding of the super admin), get verified and get linked to a Google    *)
(* account, as transactions that read, check and then write over one READ  *)
(* COMMITTED database with unique indexes on email and google_id.          *)
(*                                                                         *)
(* The codes and tokens these handlers also issue are the subject of       *)
(* OtpCodes and SessionTokens.                                             *)
(***************************************************************************)
EXTENDS Naturals, FiniteSets

CONSTANTS
    Users,          \* primary keys
    Emails,         \* normalized addresses
    AdminEmail,     \* ADMIN_EMAIL
    GoogleIds,      \* "sub" claims
    GoogleTokens,   \* the <<sub, email>> pairs Google vouches for
    Requests,       \* slots for concurrent requests (and starting processes)
    GoogleRequests, \* the slots that may run social_login or link_google
    None            \* stands for Python's None

Row == [email : Emails, google : GoogleIds \cup {None}, verified : BOOLEAN,
        role : {"USER", "SUPER_ADMIN"}, password : BOOLEAN, active : BOOLEAN,
        version : Nat]

ASSUME ConstantsOK ==
    /\ AdminEmail \in Emails
    /\ GoogleTokens \subseteq GoogleIds \X Emails
    /\ GoogleRequests \subseteq Requests
    /\ None \notin Users \cup Emails \cup GoogleIds \cup Row

VARIABLES
    users,  \* committed rows; None: no such row
    pc, tx  \* where each request stands; its transaction

vars == <<users, pc, tx>>

(* email, google: what the request presents; user: the row it is about to  *)
(* write or log in; saw: that row as it was loaded; op: what it has        *)
(* written and will commit.                                                *)
Tx == [kind : {"none", "signup", "social", "link", "verify", "seed"},
       email : Emails \cup {None}, google : GoogleIds \cup {None},
       user : Users \cup {None}, saw : Row \cup {None},
       op : {"none", "insert", "relink", "link", "verify"}]

NoTx == [kind |-> "none", email |-> None, google |-> None, user |-> None,
         saw |-> None, op |-> "none"]

PCs == {"idle", "google", "email", "insert", "relink", "link", "verify", "commit"}

TypeOK ==
    /\ users \in [Users -> Row \cup {None}]
    /\ pc \in [Requests -> PCs]
    /\ tx \in [Requests -> Tx]

Init ==
    /\ users = [u \in Users |-> None]
    /\ pc = [r \in Requests |-> "idle"]
    /\ tx = [r \in Requests |-> NoTx]

-----------------------------------------------------------------------------
Accounts == {u \in Users : users[u] # None}
ByEmail(e) == {u \in Accounts : users[u].email = e}
ByGoogle(g) == {u \in Accounts : users[u].google = g}

Fresh(u) == users[u] = None /\ \A s \in Requests : tx[s].user # u

Goto(r, label) == pc' = [pc EXCEPT ![r] = label] /\ UNCHANGED users

(* get_db on an exception, and a commit of a transaction without writes.   *)
Finish(r) ==
    /\ pc' = [pc EXCEPT ![r] = "idle"]
    /\ tx' = [tx EXCEPT ![r] = NoTx]
    /\ UNCHANGED users

(* Index entries and rows that transaction s has written, not committed.   *)
ClaimsEmail(s, e)  == tx[s].op = "insert" /\ tx[s].email = e
ClaimsGoogle(s, g) == tx[s].op \in {"insert", "relink", "link"} /\ tx[s].google = g
HoldsRow(s, u)     == tx[s].op \in {"relink", "link", "verify"} /\ tx[s].user = u

(* An INSERT or UPDATE waits for whoever has written the same key or row.  *)
MustWait(r) ==
    \E s \in Requests \ {r} :
        \/ pc[r] = "insert" /\ ClaimsEmail(s, tx[r].email)
        \/ pc[r] \in {"insert", "relink", "link"} /\ tx[r].google # None
           /\ ClaimsGoogle(s, tx[r].google)
        \/ pc[r] \in {"relink", "link", "verify"} /\ HoldsRow(s, tx[r].user)

(* Mutation: google_id without its unique index.                           *)
Duplicate_EmailOnly(r) == pc[r] = "insert" /\ ByEmail(tx[r].email) # {}

(* The unique indexes refuse the key: IntegrityError.                      *)
Duplicate(r) ==
    \/ pc[r] = "insert" /\ ByEmail(tx[r].email) # {}
    \/ pc[r] \in {"insert", "relink", "link"} /\ tx[r].google # None
       /\ ByGoogle(tx[r].google) \ {tx[r].user} # {}

-----------------------------------------------------------------------------
BeginSignup(r, e) ==
    /\ pc[r] = "idle"
    /\ tx' = [tx EXCEPT ![r] = [NoTx EXCEPT !.kind = "signup", !.email = e]]
    /\ Goto(r, "email")

(* Every starting process seeds the super admin when one is configured.    *)
BeginSeed(r) ==
    /\ pc[r] = "idle"
    /\ tx' = [tx EXCEPT ![r] = [NoTx EXCEPT !.kind = "seed", !.email = AdminEmail]]
    /\ Goto(r, "email")

BeginSocial(r, t) ==
    /\ pc[r] = "idle"
    /\ tx' = [tx EXCEPT ![r] = [NoTx EXCEPT !.kind = "social", !.google = t[1],
                                  !.email = t[2]]]
    /\ Goto(r, "google")

(* link_google loads its user, checks it, and only then has the token      *)
(* verified, in a thread, against Google's keys.                           *)
BeginLink(r, u, t) ==
    /\ pc[r] = "idle" /\ u \in Accounts
    /\ users[u].active /\ users[u].verified /\ users[u].email = t[2]
    /\ tx' = [tx EXCEPT ![r] = [NoTx EXCEPT !.kind = "link", !.google = t[1],
                                  !.email = t[2], !.user = u, !.saw = users[u]]]
    /\ Goto(r, "google")

(* verify_otp with a good code.  It writes email_verified only when it has *)
(* loaded it as false.                                                     *)
BeginVerify(r, u) ==
    /\ pc[r] = "idle" /\ u \in Accounts
    /\ users[u].active /\ users[u].role = "USER" /\ ~users[u].verified
    /\ tx' = [tx EXCEPT ![r] = [NoTx EXCEPT !.kind = "verify", !.user = u,
                                  !.saw = users[u]]]
    /\ Goto(r, "verify")

(* social_login by google_id: log in, or 403 for an inactive account; in   *)
(* neither case is the users table written.                                *)
SocialKnown(r) ==
    /\ pc[r] = "google" /\ tx[r].kind = "social" /\ ByGoogle(tx[r].google) # {}
    /\ Finish(r)

SocialUnknown(r) ==
    /\ pc[r] = "google" /\ tx[r].kind = "social" /\ ByGoogle(tx[r].google) = {}
    /\ Goto(r, "email") /\ UNCHANGED tx

(* link_google's two conflicts: another user's google_id, and another      *)
(* google_id of this user, as loaded.                                      *)
MayLink(r) ==
    /\ ByGoogle(tx[r].google) \subseteq {tx[r].user}
    /\ tx[r].saw.google \in {None, tx[r].google}

LinkChecked(r) ==
    /\ pc[r] = "google" /\ tx[r].kind = "link"
    /\ MayLink(r) /\ tx[r].saw.google = None
    /\ Goto(r, "link") /\ UNCHANGED tx

LinkRefused(r) == pc[r] = "google" /\ tx[r].kind = "link" /\ ~MayLink(r) /\ Finish(r)

(* Linked to this very Google account already: no column changes.          *)
LinkRepeated(r) ==
    /\ pc[r] = "google" /\ tx[r].kind = "link"
    /\ MayLink(r) /\ tx[r].saw.google # None
    /\ Finish(r)

-----------------------------------------------------------------------------
(* No account has the address: create one.                                 *)
EmailNew(r, u) ==
    /\ pc[r] = "email" /\ ByEmail(tx[r].email) = {} /\ Fresh(u)
    /\ tx' = [tx EXCEPT ![r] = [@ EXCEPT !.user = u]]
    /\ Goto(r, "insert")

(* Mutation: verified accounts are linked like unverified ones.            *)
MayRelink_Verified(r, row) ==
    tx[r].kind = "social" /\ row.active /\ row.google \in {None, tx[r].google}

(* What social_login asks of an account it finds by its address.           *)
MayRelink(r, row) ==
    /\ tx[r].kind = "social" /\ row.active
    /\ row.google \in {None, tx[r].google} /\ ~row.verified

EmailRelink(r) ==
    \E u \in ByEmail(tx[r].email) :
        /\ pc[r] = "email" /\ MayRelink(r, users[u])
        /\ tx' = [tx EXCEPT ![r] = [@ EXCEPT !.user = u, !.saw = users[u]]]
        /\ Goto(r, "relink")

(* signup: 409; seeding: nothing to do; social_login: 403 or 409.          *)
EmailTaken(r) ==
    /\ pc[r] = "email"
    /\ \E u \in ByEmail(tx[r].email) : ~MayRelink(r, users[u])
    /\ Finish(r)

Write(r) ==
    /\ pc[r] \in {"insert", "relink", "link", "verify"}
    /\ ~MustWait(r) /\ ~Duplicate(r)
    /\ tx' = [tx EXCEPT ![r] = [@ EXCEPT !.op = pc[r]]]
    /\ Goto(r, "commit")

(* signup and social_login answer 409; link_google and the relinking path  *)
(* let the error through; a starting process dies of it.                   *)
WriteFails(r) ==
    /\ pc[r] \in {"insert", "relink", "link", "verify"}
    /\ ~MustWait(r) /\ Duplicate(r)
    /\ Finish(r)

-----------------------------------------------------------------------------
(* Mutation: the role is left to a default that is not there.              *)
Created_NoRole(r) ==
    [email |-> tx[r].email, google |-> tx[r].google,
     verified |-> tx[r].kind # "signup", role |-> None,
     password |-> tx[r].kind = "seed", active |-> TRUE, version |-> 0]

(* create_user as signup, social_login and seed_super_admin call it.       *)
Created(r) ==
    [email |-> tx[r].email, google |-> tx[r].google,
     verified |-> tx[r].kind # "signup",
     role |-> IF tx[r].kind = "seed" THEN "SUPER_ADMIN" ELSE "USER",
     password |-> tx[r].kind = "seed", active |-> TRUE, version |-> 0]

(* Mutation: linked, but left unverified.                                  *)
Relinked_Unverified(r, row) ==
    [row EXCEPT !.google = tx[r].google, !.password = FALSE,
                !.version = tx[r].saw.version + 1]

(* The columns social_login's relinking path writes.                       *)
Relinked(r, row) ==
    [row EXCEPT !.google = tx[r].google, !.verified = TRUE, !.password = FALSE,
                !.version = tx[r].saw.version + 1]

(* Mutation: the row is written back as it was loaded.                     *)
Written_Stale(r, row) ==
    CASE tx[r].op = "insert" -> Created(r)
      [] tx[r].op = "relink" -> Relinked(r, row)
      [] tx[r].op = "link"   -> [tx[r].saw EXCEPT !.google = tx[r].google]
      [] tx[r].op = "verify" -> [tx[r].saw EXCEPT !.verified = TRUE]

(* An UPDATE names only the columns its handler changed.                   *)
Written(r, row) ==
    CASE tx[r].op = "insert" -> Created(r)
      [] tx[r].op = "relink" -> Relinked(r, row)
      [] tx[r].op = "link"   -> [row EXCEPT !.google = tx[r].google]
      [] tx[r].op = "verify" -> [row EXCEPT !.verified = TRUE]

Commit(r) ==
    /\ pc[r] = "commit"
    /\ users' = [users EXCEPT ![tx[r].user] = Written(r, @)]
    /\ pc' = [pc EXCEPT ![r] = "idle"]
    /\ tx' = [tx EXCEPT ![r] = NoTx]

(* The process dies, the connection drops or the commit fails.             *)
Abort(r) == pc[r] # "idle" /\ Finish(r)

(* Operators disable accounts in the database.                             *)
Disable(u) ==
    /\ u \in Accounts /\ users[u].active
    /\ \A s \in Requests : ~HoldsRow(s, u)
    /\ users' = [users EXCEPT ![u].active = FALSE]
    /\ UNCHANGED <<pc, tx>>

Begin(r) ==
    \/ \E e \in Emails : BeginSignup(r, e)
    \/ BeginSeed(r)
    \/ r \in GoogleRequests /\ \E t \in GoogleTokens : BeginSocial(r, t)
    \/ r \in GoogleRequests /\ \E u \in Users, t \in GoogleTokens : BeginLink(r, u, t)
    \/ \E u \in Users : BeginVerify(r, u)

Proceed(r) ==
    \/ SocialKnown(r) \/ SocialUnknown(r) \/ LinkChecked(r) \/ LinkRefused(r)
    \/ LinkRepeated(r)
    \/ (\E u \in Users : EmailNew(r, u)) \/ EmailRelink(r) \/ EmailTaken(r)
    \/ Write(r) \/ WriteFails(r) \/ Commit(r)

Next ==
    \/ \E r \in Requests : Begin(r) \/ Proceed(r) \/ Abort(r)
    \/ \E u \in Users : Disable(u)

Spec == Init /\ [][Next]_vars

-----------------------------------------------------------------------------
(* No two accounts share an address or a Google account, however signups,  *)
(* social logins, links and starting processes race past their own checks. *)
UniqueAccounts ==
    \A u, v \in Accounts : u # v =>
        /\ users[u].email # users[v].email
        /\ users[u].google = None \/ users[u].google # users[v].google

(* A Google link always comes with a verified address: social_login sets   *)
(* both at once, and link_google's check stays true until it commits.      *)
LinkedIsVerified == \A u \in Accounts : users[u].google # None => users[u].verified

(* No Google login costs the super admin its password: the relinking path  *)
(* clears password_hash, and no race brings it to a staff row.             *)
StaffKeepPassword == \A u \in Accounts : users[u].role = "SUPER_ADMIN" => users[u].password

(* No handler writes back what it loaded before it waited: an account that *)
(* was verified, disabled or linked to Google meanwhile stays so.  Linked  *)
(* to which Google account is another matter: of two overlapping requests  *)
(* that link one, the later commit decides.                                *)
NothingUndone ==
    [][\A u \in Accounts :
        /\ users[u].google # None => users'[u].google # None
        /\ users[u].verified => users'[u].verified
        /\ ~users[u].active => ~users'[u].active]_vars

(* Google is never linked by social_login onto a verified account.         *)
NoAutoLink ==
    [][\A r \in Requests :
        pc[r] = "commit" /\ tx[r].op = "relink" /\ users' # users =>
            ~users[tx[r].user].verified]_vars
=============================================================================
