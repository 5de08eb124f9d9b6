------------------------------ MODULE OtpCodes ------------------------------
(***************************************************************************)
(* One-time codes of one user: how signup, login and resend issue them     *)
(* (_issue_otp: cooldown, hourly window, invalidate the old, insert, mail) *)
(* and how verify_otp redeems them, as transactions over one READ          *)
(* COMMITTED database.  Every query is restricted to one user_id, so the   *)
(* users do not interact.  The user is an active one with role USER: for   *)
(* any other, both handlers reject with nothing written.                   *)
(***************************************************************************)
EXTENDS Naturals, FiniteSets

CONSTANTS
    Otps,           \* identities of email_otps rows
    Codes,          \* what generate_otp may draw; draws may repeat
    Requests,       \* slots for concurrent requests
    IssueRequests,  \* the slots that may issue a code
    VerifyRequests, \* the slots that may verify one
    Cooldown,       \* OTP_RESEND_COOLDOWN_SECONDS
    Window,         \* OTP_RATE_LIMIT_WINDOW_MINUTES
    OtpMax,         \* OTP_RATE_LIMIT_MAX
    Life,           \* OTP_EXPIRE_MINUTES
    MaxTime,        \* bound: the clock stops here
    None            \* stands for Python's None

(* An email_otps row.  exp - Life is the instant _issue_otp called now.    *)
Row == [code : Codes, at : Nat, exp : Nat, used : BOOLEAN]

ASSUME ConstantsOK ==
    /\ IssueRequests \cup VerifyRequests \subseteq Requests
    /\ {Cooldown, Window, OtpMax, Life, MaxTime} \subseteq Nat
    /\ None \notin Row \cup Otps \cup Codes

VARIABLES
    clock,          \* the time, the same for server and database
    otp,            \* email_otps, committed; None: no such row
    emailVerified,  \* users.email_verified, committed
    mailed,         \* the code mails sent: at and exp of the row they announce
    ended,          \* history: the rows stored when a login began that committed
    knew,           \* history: the rows stored when a row's issue began
    pc, tx          \* where each request stands; its transaction

vars == <<clock, otp, emailVerified, mailed, ended, knew, pc, tx>>

(* start: when the transaction began; code, exp: of the row to insert or   *)
(* to look for; own: the row it inserts or redeems; want: the row it is    *)
(* waiting for; rows: the rows it has locked; todo: those its invalidation *)
(* has still to visit; unverified: it read the user as not verified; knew: *)
(* history, the rows stored when it began.                                 *)
Tx == [kind : {"none", "issue", "verify"}, start : Nat, exp : Nat,
       code : Codes \cup {None}, own : Otps \cup {None},
       want : Otps \cup {None}, rows : SUBSET Otps, todo : SUBSET Otps,
       unverified : BOOLEAN, knew : SUBSET Otps]

NoTx == [kind |-> "none", start |-> 0, exp |-> 0, code |-> None, own |-> None,
         want |-> None, rows |-> {}, todo |-> {}, unverified |-> FALSE,
         knew |-> {}]

PCs == {"idle", "latest", "count", "select", "verified", "mark",
        "snapshot", "invalidate", "mail", "respond", "commit"}

TypeOK ==
    /\ clock \in 0..MaxTime
    /\ otp \in [Otps -> Row \cup {None}]
    /\ emailVerified \in BOOLEAN
    /\ mailed \in [Otps -> [at : Nat, exp : Nat] \cup {None}]
    /\ ended \subseteq Otps
    /\ knew \in [Otps -> SUBSET Otps]
    /\ pc \in [Requests -> PCs]
    /\ tx \in [Requests -> Tx]

(* A user that came by Google is verified and has no codes yet.            *)
Init ==
    /\ clock = 0
    /\ otp = [g \in Otps |-> None]
    /\ emailVerified \in BOOLEAN
    /\ mailed = [g \in Otps |-> None]
    /\ ended = {}
    /\ knew = [g \in Otps |-> {}]
    /\ pc = [r \in Requests |-> "idle"]
    /\ tx = [r \in Requests |-> NoTx]

-----------------------------------------------------------------------------
Stored == {g \in Otps : otp[g] # None}
Unused == {g \in Stored : ~otp[g].used}

Fresh(g) == otp[g] = None /\ mailed[g] = None /\ \A s \in Requests : tx[s].own # g

RowFree(r, g) == \A s \in Requests \ {r} : g \notin tx[s].rows

(* mark_email_verified writes, and so locks, the users row only when it    *)
(* read email_verified as false.                                           *)
HoldsUser(s) ==
    tx[s].unverified /\ pc[s] \in {"mark", "snapshot", "invalidate", "respond", "commit"}

Blockers(r) ==
    {s \in Requests \ {r} :
        \/ pc[r] \in {"mark", "invalidate"} /\ tx[r].want \in tx[s].rows
        \/ pc[r] = "verified" /\ tx[r].unverified /\ HoldsUser(s)}

Deadlocked(r) ==
    \E S \in SUBSET Requests :
        r \in S /\ \A s \in S : Blockers(s) \cap S # {}

(* get_db on an exception.  A mail that has left cannot be recalled.       *)
Rollback(r) ==
    /\ pc' = [pc EXCEPT ![r] = "idle"]
    /\ tx' = [tx EXCEPT ![r] = NoTx]
    /\ UNCHANGED <<clock, otp, emailVerified, mailed, ended, knew>>

(* A step that only moves the handler on.                                  *)
Goto(r, label) ==
    /\ pc' = [pc EXCEPT ![r] = label]
    /\ UNCHANGED <<clock, otp, emailVerified, mailed, ended, knew>>

-----------------------------------------------------------------------------
(* Issuing.  The transaction starts with the user's row; now() in SQL is   *)
(* that instant, and becomes the row's created_at.                         *)
BeginIssue(r, g) ==
    /\ pc[r] = "idle" /\ Fresh(g)
    /\ tx' = [tx EXCEPT ![r] = [NoTx EXCEPT !.kind = "issue", !.start = clock,
                                  !.own = g, !.knew = Stored]]
    /\ Goto(r, "latest")

(* Mutation: the cooldown measured from the codes still unused.            *)
Cooling_Unused(now) == \E g \in Unused : otp[g].at + Cooldown > now

(* get_latest_email_otp is younger than the cooldown.                      *)
Cooling(now) == \E g \in Stored : otp[g].at + Cooldown > now

(* _issue_otp takes now, then reads the latest row: 429 or go on.          *)
CheckCooldown(r) ==
    /\ pc[r] = "latest" /\ ~Cooling(clock)
    /\ tx' = [tx EXCEPT ![r] = [@ EXCEPT !.exp = clock + Life]]
    /\ Goto(r, "count")

RejectCooldown(r) == pc[r] = "latest" /\ Cooling(clock) /\ Rollback(r)

Now(r) == tx[r].exp - Life

(* Mutation: redeemed and superseded codes are not counted.                *)
SentSince_Unused(now) == Cardinality({g \in Unused : otp[g].at + Window >= now})

(* count_email_otps_since: used codes count too.                           *)
SentSince(now) == Cardinality({g \in Stored : otp[g].at + Window >= now})

CheckWindow(r) ==
    /\ pc[r] = "count" /\ SentSince(Now(r)) < OtpMax
    /\ Goto(r, "snapshot") /\ UNCHANGED tx

RejectWindow(r) == pc[r] = "count" /\ SentSince(Now(r)) >= OtpMax /\ Rollback(r)

(* After its invalidation a handler inserts and mails, or logs in.         *)
AfterInvalidation(r) == IF tx[r].kind = "issue" THEN "mail" ELSE "respond"

(* invalidate_unused_email_otps is one UPDATE: its snapshot fixes the rows *)
(* it visits, in no promised order, and it locks each one when it gets to  *)
(* it.  Its own earlier writes are in its snapshot.                        *)
NextRow(r, locked, S) ==
    \/ /\ S = {}
       /\ tx' = [tx EXCEPT ![r] = [@ EXCEPT !.rows = locked, !.todo = {}, !.want = None]]
       /\ Goto(r, AfterInvalidation(r))
    \/ \E g \in S :
       /\ tx' = [tx EXCEPT ![r] = [@ EXCEPT !.rows = locked, !.todo = S \ {g}, !.want = g]]
       /\ Goto(r, "invalidate")

(* Mutation: old codes stay usable next to the new one.                    *)
Snapshot_Nothing(r) == pc[r] = "snapshot" /\ NextRow(r, tx[r].rows, {})

(* Mutation: only the codes that are as old as the cooldown are visited.   *)
Snapshot_Old(r) ==
    /\ pc[r] = "snapshot"
    /\ NextRow(r, tx[r].rows,
               {g \in Unused \ tx[r].rows : otp[g].at + Cooldown <= clock})

Snapshot(r)  == pc[r] = "snapshot" /\ NextRow(r, tx[r].rows, Unused \ tx[r].rows)

InvalidateRow(r) ==
    /\ pc[r] = "invalidate" /\ RowFree(r, tx[r].want)
    /\ NextRow(r, tx[r].rows \cup {tx[r].want}, tx[r].todo)

(* generate_otp draws the code, create_email_otp stages the row, and       *)
(* send_email runs inside the transaction; its failure is ignored.         *)
Mail(r) ==
    /\ pc[r] = "mail"
    /\ \E c \in Codes : tx' = [tx EXCEPT ![r].code = c]
    /\ \/ mailed' = [mailed EXCEPT ![tx[r].own] = [at |-> tx[r].start, exp |-> tx[r].exp]]
       \/ UNCHANGED mailed
    /\ pc' = [pc EXCEPT ![r] = "commit"]
    /\ UNCHANGED <<clock, otp, emailVerified, ended, knew>>

-----------------------------------------------------------------------------
(* Redeeming.                                                              *)
BeginVerify(r, c) ==
    /\ pc[r] = "idle"
    /\ tx' = [tx EXCEPT ![r] = [NoTx EXCEPT !.kind = "verify", !.code = c,
                                  !.unverified = ~emailVerified, !.knew = Stored]]
    /\ Goto(r, "select")

(* get_valid_email_otp's WHERE.                                            *)
ValidOtps(c, now) == {g \in Unused : otp[g].code = c /\ otp[g].exp > now}

Select(r) ==
    /\ pc[r] = "select"
    /\ \E g \in ValidOtps(tx[r].code, clock) :
         /\ ValidOtps(tx[r].code, clock) = {g}
         /\ tx' = [tx EXCEPT ![r] = [@ EXCEPT !.own = g, !.want = g]]
    /\ Goto(r, "verified")

(* No row: 400.  Two rows: scalar_one_or_none raises, 500.                 *)
SelectFails(r) ==
    /\ pc[r] = "select" /\ Cardinality(ValidOtps(tx[r].code, clock)) # 1
    /\ Rollback(r)

MarkVerified(r) ==
    /\ pc[r] = "verified"
    /\ tx[r].unverified => \A s \in Requests \ {r} : ~HoldsUser(s)
    /\ Goto(r, "mark") /\ UNCHANGED tx

(* mark_email_otp_used: an UPDATE by primary key, which waits for the row  *)
(* and does not look at used_at again.                                     *)
MarkUsed(r) ==
    /\ pc[r] = "mark" /\ RowFree(r, tx[r].want)
    /\ tx' = [tx EXCEPT ![r] = [@ EXCEPT !.rows = {tx[r].want}]]
    /\ Goto(r, "snapshot")

(* The cookies of the login leave before get_db commits.                   *)
Respond(r) == pc[r] = "respond" /\ Goto(r, "commit") /\ UNCHANGED tx

-----------------------------------------------------------------------------
(* Mutation: the row is stored without its code.                           *)
NewRow_NoCode(r) == [code |-> None, at |-> tx[r].start, exp |-> tx[r].exp,
                     used |-> FALSE]

NewRow(r) == [code |-> tx[r].code, at |-> tx[r].start, exp |-> tx[r].exp,
              used |-> FALSE]

(* get_db's commit: the locked rows become used, the staged row visible;   *)
(* a redemption is a login (_issue_auth_result) of a verified user.  If it *)
(* fails (Abort) after the cookies have left, the code is usable again.    *)
Commit(r) ==
    /\ pc[r] = "commit"
    /\ otp' = [g \in Otps |->
                 IF tx[r].kind = "issue" /\ g = tx[r].own THEN NewRow(r)
                 ELSE IF g \in tx[r].rows THEN [otp[g] EXCEPT !.used = TRUE]
                 ELSE otp[g]]
    /\ IF tx[r].kind = "verify"
       THEN /\ ended' = ended \cup tx[r].knew
            /\ emailVerified' = TRUE
            /\ UNCHANGED knew
       ELSE /\ knew' = [knew EXCEPT ![tx[r].own] = tx[r].knew]
            /\ UNCHANGED <<ended, emailVerified>>
    /\ pc' = [pc EXCEPT ![r] = "idle"]
    /\ tx' = [tx EXCEPT ![r] = NoTx]
    /\ UNCHANGED <<clock, mailed>>

(* The process dies, the connection drops or the commit fails.             *)
Abort(r) == pc[r] # "idle" /\ Rollback(r)

(* Mutation: the failed statement is swallowed, the transaction stays open.*)
DeadlockVictim_Stays(r) == Deadlocked(r) /\ Goto(r, pc[r]) /\ UNCHANGED tx

(* PostgreSQL breaks a cycle of waiting transactions by failing one.       *)
DeadlockVictim(r) == Deadlocked(r) /\ Rollback(r)

Tick ==
    /\ clock < MaxTime
    /\ clock' = clock + 1
    /\ UNCHANGED <<otp, emailVerified, mailed, ended, knew, pc, tx>>

Begin(r) ==
    \/ r \in IssueRequests /\ \E g \in Otps : BeginIssue(r, g)
    \/ r \in VerifyRequests /\ \E c \in Codes : BeginVerify(r, c)

Acquire(r) == InvalidateRow(r) \/ MarkVerified(r) \/ MarkUsed(r)

Proceed(r) == CheckCooldown(r) \/ RejectCooldown(r) \/ CheckWindow(r)
              \/ RejectWindow(r) \/ Snapshot(r) \/ Mail(r)
              \/ Select(r) \/ SelectFails(r) \/ Respond(r) \/ Commit(r)

Next ==
    \/ \E r \in Requests : \/ Begin(r) \/ Acquire(r) \/ Proceed(r)
                           \/ Abort(r) \/ DeadlockVictim(r)
    \/ Tick

Spec == Init /\ [][Next]_vars

(* As in SessionTokens: handlers that can go on do, row locks are granted  *)
(* in turn, and the deadlock detector runs.  Nothing is asked of Tick.     *)
FairSpec ==
    /\ Spec
    /\ \A r \in Requests : /\ WF_vars(Proceed(r))
                           /\ SF_vars(Acquire(r))
                           /\ WF_vars(DeadlockVictim(r))

-----------------------------------------------------------------------------
(* One of two rows was decided on a cooldown or more after the other one's *)
(* created_at.                                                             *)
Spaced(a, b) == \/ a.at + Cooldown + Life <= b.exp
                \/ b.at + Cooldown + Life <= a.exp

(* The cooldown: no code is stored sooner than a cooldown after one whose  *)
(* issue had committed when its own began, however redemptions, failures   *)
(* and overlapping issues interleave (_issue_otp's first check).           *)
CodesSpaced == \A h \in Stored : \A g \in knew[h] : Spaced(otp[g], otp[h])

(* The rolling window: a code and those committed when its issue began are *)
(* at most OTP_RATE_LIMIT_MAX in the window that ends with its decision,   *)
(* also when some of them have been redeemed or superseded since.          *)
CodesPerWindow ==
    \A h \in Stored :
        Cardinality({g \in knew[h] : otp[g].at + Window + Life >= otp[h].exp}) < OtpMax

(* Issuing supersedes: of two usable codes neither was committed when the  *)
(* issue of the other began, whatever redemptions are in flight.           *)
OneUsableCode == \A g, h \in Unused : g \notin knew[h]

(* A login ends the codes: once a verify_otp has committed, none of those  *)
(* that were committed when it began, the one it redeemed or another, is   *)
(* usable, whatever other redemptions and issues wait for the same rows.   *)
(* So what it has redeemed buys again only in a request that overlaps it.  *)
LoginEndsCodes == \A g \in ended : otp[g].used

(* README's reading of the cooldown: it separates the mails themselves.    *)
MailsSpaced ==
    \A g, h \in Otps : g # h /\ mailed[g] # None /\ mailed[h] # None =>
        Spaced(mailed[g], mailed[h])

(* No handler waits for ever: row locks are released, and cycles of        *)
(* waiting issues and redemptions are broken.                              *)
EveryRequestAnswered ==
    \A r \in Requests : pc[r] # "idle" ~> pc[r] = "idle"
=============================================================================
