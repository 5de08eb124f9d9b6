----------------------------- MODULE Migrations -----------------------------
(***************************************************************************)
(* The alembic revisions 001 to 006, as scripts of schema operations over  *)
(* a database with rows in it, and the processes that run them:            *)
(* `alembic upgrade head`, and downgrades to any earlier revision.  All    *)
(* the revisions of one command run in one transaction (alembic/env.py).   *)
(* Accounts are created between the commands, and instructors made.        *)
(*                                                                         *)
(* Of a row only what the scripts rewrite is kept.  An index stands for    *)
(* the uniqueness or the lookup it gives; lengths and foreign keys' other  *)
(* side are left out.                                                      *)
(***************************************************************************)
EXTENDS Naturals, Sequences

CONSTANTS
    Users,     \* primary keys
    Migrators, \* alembic processes, of deployments that may overlap
    None       \* a value or column or row that is not there

OldRoles == {"STUDENT", "INSTRUCTOR", "ADMIN", "SUPER_ADMIN"}
NewRoles == {"USER", "ADMIN", "SUPER_ADMIN"}
Roles == OldRoles \cup NewRoles

ProfileTypes == {"teaching_experience", "video_experience", "audience_size",
                 "teaching_topic"}
RoleTypes == {"user_role", "user_role_new", "user_role_old"}
OwnedTables == {"refresh_tokens", "password_reset_tokens",
                "email_verification_tokens", "email_otps", "instructors"}

Newest == 6 \* `alembic heads`

-----------------------------------------------------------------------------
(* The operations.  checkfirst creates or drops a type only if needed.     *)
CreateType(t, L)   == [op |-> "create_type", name |-> t, labels |-> L]
DropType(t)        == [op |-> "drop_type", name |-> t, checkfirst |-> FALSE]
DropTypeIf(t)      == [op |-> "drop_type", name |-> t, checkfirst |-> TRUE]
RenameType(t, u)   == [op |-> "rename_type", name |-> t, to |-> u]
Create(t, I)       == [op |-> "create", table |-> t, indexes |-> I]
Drop(t, I)         == [op |-> "drop", table |-> t, indexes |-> I]
AddColumn(c, v)    == [op |-> "add_column", column |-> c, nullable |-> FALSE, value |-> v]
AddNullable(c)     == [op |-> "add_column", column |-> c, nullable |-> TRUE, value |-> None]
DropDefault(c)     == [op |-> "drop_default", column |-> c]
DropColumn(c)      == [op |-> "drop_column", column |-> c]
FlagInstructors    == [op |-> "flag_instructors"]
ConvertRole(t)     == [op |-> "convert_role", to |-> t]

Upgrade001 == <<CreateType("user_role", OldRoles),
    Create("users", {"ix_users_email", "ix_users_google_id"}),
    Create("refresh_tokens", {"ix_refresh_tokens_user_id", "ix_refresh_tokens_token_hash"}),
    Create("password_reset_tokens",
           {"ix_password_reset_tokens_user_id", "ix_password_reset_tokens_token_hash"})>>

Downgrade001 == <<
    Drop("password_reset_tokens",
         {"ix_password_reset_tokens_user_id", "ix_password_reset_tokens_token_hash"}),
    Drop("refresh_tokens", {"ix_refresh_tokens_user_id", "ix_refresh_tokens_token_hash"}),
    Drop("users", {"ix_users_email", "ix_users_google_id"}),
    DropTypeIf("user_role")>>

(* The index on phone_number goes with its column.                         *)
Upgrade002 == <<AddNullable("phone_number")>>
Downgrade002 == <<DropColumn("phone_number")>>

(* Mutation: NOT NULL columns without a server default.                    *)
Upgrade003_NoDefault == <<
    AddColumn("email_verified", None), AddColumn("session_version", None),
    Create("email_verification_tokens",
           {"ix_email_verification_tokens_user_id", "ix_email_verification_tokens_token_hash"})>>

(* Whoever had an account before counts as verified.                       *)
Upgrade003 == <<AddColumn("email_verified", TRUE), AddColumn("session_version", 0),
    DropDefault("email_verified"), DropDefault("session_version"),
    Create("email_verification_tokens",
           {"ix_email_verification_tokens_user_id", "ix_email_verification_tokens_token_hash"})>>

Downgrade003 == <<
    Drop("email_verification_tokens",
         {"ix_email_verification_tokens_user_id", "ix_email_verification_tokens_token_hash"}),
    DropColumn("session_version"), DropColumn("email_verified")>>

Upgrade004 == <<Create("email_otps", {"ix_email_otps_user_id", "ix_email_otps_code_hash"})>>
Downgrade004 == <<Drop("email_otps", {"ix_email_otps_user_id", "ix_email_otps_code_hash"})>>

Upgrade005 == <<AddColumn("is_instructor", FALSE), FlagInstructors,
    DropDefault("is_instructor"),
    CreateType("user_role_new", NewRoles), ConvertRole("user_role_new"),
    DropType("user_role"), RenameType("user_role_new", "user_role")>>

(* Mutation: the type keeps its temporary name.                            *)
Downgrade005_NoRename == <<
    CreateType("user_role_old", OldRoles), ConvertRole("user_role_old"),
    DropType("user_role"), DropColumn("is_instructor")>>

Downgrade005 == <<
    CreateType("user_role_old", OldRoles), ConvertRole("user_role_old"),
    DropType("user_role"), RenameType("user_role_old", "user_role"),
    DropColumn("is_instructor")>>

Upgrade006 == <<
    CreateType("teaching_experience",
               {"IN_PERSON_INFORMAL", "IN_PERSON_PROFESSIONAL", "ONLINE", "OTHER"}),
    CreateType("video_experience",
               {"BEGINNER", "SOME_KNOWLEDGE", "EXPERIENCED", "VIDEOS_READY"}),
    CreateType("audience_size", {"NONE", "SMALL", "SUFFICIENT", "LARGE"}),
    CreateType("teaching_topic",
               {"TECHNOLOGY", "DESIGN", "BUSINESS", "MARKETING", "PERSONAL_DEVELOPMENT",
                "MUSIC", "HEALTH_FITNESS", "LIFESTYLE", "EDUCATION", "OTHER"}),
    Create("instructors", {})>>

Downgrade006 == <<Drop("instructors", {}),
    DropTypeIf("teaching_topic"), DropTypeIf("audience_size"),
    DropTypeIf("video_experience"), DropTypeIf("teaching_experience")>>

(* What leads from revision n - 1 to n, and back.                          *)
Upgrade(n) == <<Upgrade001, Upgrade002, Upgrade003, Upgrade004, Upgrade005, Upgrade006>>[n]
Downgrade(n) == <<Downgrade001, Downgrade002, Downgrade003, Downgrade004, Downgrade005,
                  Downgrade006>>[n]

-----------------------------------------------------------------------------
(* The database: its revision (alembic_version), tables and indexes,       *)
(* users' added columns, those with a server default, enum types ({}: not  *)
(* there), the type of users.role, rows of users, and whose profile is in  *)
(* instructors.                                                            *)
Row == [role : Roles, is_instructor : BOOLEAN \cup {None}]

Empty == [revision |-> 0, relations |-> {}, columns |-> {}, defaults |-> {},
          types |-> [t \in RoleTypes \cup ProfileTypes |-> {}], roleType |-> None,
          rows |-> [u \in Users |-> None], profiles |-> {}]

Accounts(d) == {u \in Users : d.rows[u] # None}

(* Some column has this type.                                              *)
InUse(t, d) == d.roleType = t \/ (t \in ProfileTypes /\ "instructors" \in d.relations)

(* Mutation: the flag is forgotten on the way back.                        *)
Converted_NoFlag(row, t) ==
    CASE t = "user_role_new" /\ row.role \in {"STUDENT", "INSTRUCTOR"} -> "USER"
      [] t = "user_role_old" /\ row.role = "USER" -> "STUDENT"
      [] OTHER -> row.role

(* The CASE of the two USING clauses of 005.                               *)
Converted(row, t) ==
    CASE t = "user_role_new" /\ row.role \in {"STUDENT", "INSTRUCTOR"} -> "USER"
      [] t = "user_role_old" /\ row.role = "USER" ->
             IF row.is_instructor THEN "INSTRUCTOR" ELSE "STUDENT"
      [] OTHER -> row.role

(* PostgreSQL raises no error: what is created is not there, what is       *)
(* dropped is there and nothing needs it, no row is left without a value   *)
(* its column needs, and every converted value is a label of the new type. *)
Possible(o, d) ==
    CASE o.op = "create_type" -> TRUE
      [] o.op = "drop_type"   -> ~InUse(o.name, d) /\ (o.checkfirst \/ d.types[o.name] # {})
      [] o.op = "rename_type" -> d.types[o.name] # {} /\ d.types[o.to] = {}
      [] o.op = "create"      -> /\ ({o.table} \cup o.indexes) \cap d.relations = {}
                                 /\ o.table = "users" => d.types["user_role"] # {}
                                 /\ o.table \in OwnedTables => "users" \in d.relations
                                 /\ o.table = "instructors" =>
                                        \A t \in ProfileTypes : d.types[t] # {}
      [] o.op = "drop"        -> /\ {o.table} \cup o.indexes \subseteq d.relations
                                 /\ o.table = "users" => OwnedTables \cap d.relations = {}
      [] o.op = "add_column"  -> /\ "users" \in d.relations /\ o.column \notin d.columns
                                 /\ o.nullable \/ o.value # None \/ Accounts(d) = {}
      [] o.op \in {"drop_default", "drop_column"} -> o.column \in d.columns
      [] o.op = "flag_instructors" ->
             "is_instructor" \in d.columns /\ "INSTRUCTOR" \in d.types[d.roleType]
      [] o.op = "convert_role" ->
             /\ o.to = "user_role_old" => "is_instructor" \in d.columns
             /\ \A u \in Accounts(d) : Converted(d.rows[u], o.to) \in d.types[o.to]

Created(o, d) ==
    [d EXCEPT !.relations = @ \cup {o.table} \cup o.indexes,
              !.roleType = IF o.table = "users" THEN "user_role" ELSE @]

(* A dropped table takes its rows with it.                                 *)
Dropped(o, d) ==
    [d EXCEPT !.relations = @ \ ({o.table} \cup o.indexes),
              !.roleType = IF o.table = "users" THEN None ELSE @,
              !.rows = IF o.table = "users" THEN [u \in Users |-> None] ELSE @,
              !.profiles = IF o.table = "instructors" THEN {} ELSE @]

(* Mutation: existing rows do not get the default.                         *)
WithColumn_Unset(o, d, v) == d.rows

(* Of the added columns only is_instructor has its values kept.            *)
WithColumn(o, d, v) ==
    IF o.column = "is_instructor"
    THEN [u \in Users |-> IF d.rows[u] = None THEN None
                          ELSE [d.rows[u] EXCEPT !.is_instructor = v]]
    ELSE d.rows

Added(o, d) ==
    [d EXCEPT !.columns = @ \cup {o.column},
              !.defaults = IF o.value = None THEN @ ELSE @ \cup {o.column},
              !.rows = WithColumn(o, d, o.value)]

Apply(o, d) ==
    CASE o.op = "create_type" ->
             [d EXCEPT !.types[o.name] = IF @ = {} THEN o.labels ELSE @]
      [] o.op = "drop_type"    -> [d EXCEPT !.types[o.name] = {}]
      [] o.op = "rename_type"  ->
             [d EXCEPT !.types = [@ EXCEPT ![o.to] = d.types[o.name], ![o.name] = {}],
                       !.roleType = IF @ = o.name THEN o.to ELSE @]
      [] o.op = "create"       -> Created(o, d)
      [] o.op = "drop"         -> Dropped(o, d)
      [] o.op = "add_column"   -> Added(o, d)
      [] o.op = "drop_default" -> [d EXCEPT !.defaults = @ \ {o.column}]
      [] o.op = "drop_column"  ->
             [d EXCEPT !.columns = @ \ {o.column}, !.defaults = @ \ {o.column},
                       !.rows = WithColumn(o, d, None)]
      [] o.op = "flag_instructors" ->
             [d EXCEPT !.rows = [u \in Users |->
                 IF d.rows[u] # None /\ d.rows[u].role = "INSTRUCTOR"
                 THEN [d.rows[u] EXCEPT !.is_instructor = TRUE] ELSE d.rows[u]]]
      [] o.op = "convert_role" ->
             [d EXCEPT !.roleType = o.to,
                       !.rows = [u \in Users |->
                           IF d.rows[u] = None THEN None
                           ELSE [d.rows[u] EXCEPT !.role = Converted(d.rows[u], o.to)]]]

-----------------------------------------------------------------------------
(* What the current models declare (app/modules/*/models.py).  Tables of   *)
(* earlier releases are left in place.                                     *)
DeclaredTables == {"users", "refresh_tokens", "email_otps", "instructors"}
DeclaredColumns == {"phone_number", "email_verified", "session_version", "is_instructor"}
DeclaredLabels ==
    [user_role           |-> {"USER", "ADMIN", "SUPER_ADMIN"},
     teaching_experience |-> {"IN_PERSON_INFORMAL", "IN_PERSON_PROFESSIONAL", "ONLINE", "OTHER"},
     video_experience    |-> {"BEGINNER", "SOME_KNOWLEDGE", "EXPERIENCED", "VIDEOS_READY"},
     audience_size       |-> {"NONE", "SMALL", "SUFFICIENT", "LARGE"},
     teaching_topic      |-> {"TECHNOLOGY", "DESIGN", "BUSINESS", "MARKETING",
                              "PERSONAL_DEVELOPMENT", "MUSIC", "HEALTH_FITNESS", "LIFESTYLE",
                              "EDUCATION", "OTHER"}]

FitsModels(d) ==
    /\ DeclaredTables \subseteq d.relations /\ d.columns = DeclaredColumns
    /\ d.defaults = {} /\ d.roleType = "user_role"
    /\ \A t \in DOMAIN d.types :
           d.types[t] = IF t \in DOMAIN DeclaredLabels THEN DeclaredLabels[t] ELSE {}

-----------------------------------------------------------------------------
VARIABLES
    db,   \* the committed database
    work, \* what each migrator has staged of it, None before its first operation
    job   \* each migrator's goal, the revision it read, the one it has reached,
          \* and how far it is in the next script; None: it is not running

vars == <<db, work, job>>

Init ==
    /\ db = Empty
    /\ work = [m \in Migrators |-> None]
    /\ job = [m \in Migrators |-> None]

(* Staged DDL locks the tables it touches: others wait for its end.        *)
NothingStaged(M) == \A m \in M : work[m] = None

View(m) == IF work[m] = None THEN db ELSE work[m]

Toward(n, goal) == IF goal > n THEN n + 1 ELSE n - 1
Script(n, goal) == IF goal > n THEN Upgrade(n + 1) ELSE Downgrade(n)

(* The script a migrator is in, and whether and where it goes on in it.    *)
Plan(j) == IF j.here = j.goal THEN <<>> ELSE Script(j.here, j.goal)
HasOp(j) == j.done < Len(Plan(j))
NextOp(j) == Plan(j)[j.done + 1]

(* `alembic upgrade head`, or `alembic downgrade` to an earlier revision:  *)
(* the revision is read once, without a lock.                              *)
Begin(m, goal) ==
    /\ job[m] = None
    /\ goal # db.revision
    /\ goal = Newest \/ goal < db.revision
    /\ job' = [job EXCEPT ![m] = [goal |-> goal, read |-> db.revision, here |-> db.revision,
                                  done |-> 0]]
    /\ UNCHANGED <<db, work>>

Step(m) ==
    /\ job[m] # None
    /\ HasOp(job[m])
    /\ NothingStaged(Migrators \ {m})
    /\ Possible(NextOp(job[m]), View(m))
    /\ work' = [work EXCEPT ![m] = Apply(NextOp(job[m]), View(m))]
    /\ job' = [job EXCEPT ![m].done = @ + 1]
    /\ UNCHANGED db

(* UPDATE alembic_version ... WHERE version_num = n must match one row.    *)
Stamped(d, n) == d.revision = n

Stamp(m) ==
    /\ job[m] # None
    /\ ~HasOp(job[m]) /\ job[m].here # job[m].goal
    /\ Stamped(work[m], job[m].here)
    /\ LET n == Toward(job[m].here, job[m].goal)
       IN  /\ work' = [work EXCEPT ![m].revision = n]
           /\ job' = [job EXCEPT ![m].here = n, ![m].done = 0]
    /\ UNCHANGED db

Finish(m) ==
    /\ work' = [work EXCEPT ![m] = None]
    /\ job' = [job EXCEPT ![m] = None]

(* The end of context.begin_transaction().                                 *)
Commit(m) ==
    /\ job[m] # None
    /\ job[m].here = job[m].goal
    /\ db' = work[m]
    /\ Finish(m)

(* An operation raises, the stamp matches no row, the process is killed or *)
(* its connection lost: everything staged is rolled back.                  *)
Abort(m) ==
    /\ job[m] # None
    /\ Finish(m)
    /\ UNCHANGED db

(* An account is created, by the release that goes with the revision.      *)
Enroll(u, role) ==
    /\ NothingStaged(Migrators)
    /\ db.revision >= 1 /\ db.rows[u] = None
    /\ role \in db.types[db.roleType]
    /\ db' = [db EXCEPT !.rows[u] =
                 [role |-> role,
                  is_instructor |-> IF "is_instructor" \in db.columns THEN FALSE ELSE None]]
    /\ UNCHANGED <<work, job>>

(* The wizard of the present release.                                      *)
BecomeInstructor(u) ==
    /\ NothingStaged(Migrators)
    /\ db.revision = Newest
    /\ db.rows[u] = [role |-> "USER", is_instructor |-> FALSE]
    /\ db' = [db EXCEPT !.rows[u].is_instructor = TRUE, !.profiles = @ \cup {u}]
    /\ UNCHANGED <<work, job>>

Next ==
    \/ \E m \in Migrators : \/ \E goal \in 0..Newest : Begin(m, goal)
                            \/ Step(m) \/ Stamp(m) \/ Commit(m) \/ Abort(m)
    \/ \E u \in Users : (\E role \in Roles : Enroll(u, role)) \/ BecomeInstructor(u)

Spec == Init /\ [][Next]_vars

-----------------------------------------------------------------------------
Tables == OwnedTables \cup {"users"}
Indexes == {"ix_users_email", "ix_users_google_id",
    "ix_refresh_tokens_user_id", "ix_refresh_tokens_token_hash",
    "ix_password_reset_tokens_user_id", "ix_password_reset_tokens_token_hash",
    "ix_email_verification_tokens_user_id", "ix_email_verification_tokens_token_hash",
    "ix_email_otps_user_id", "ix_email_otps_code_hash"}
Types == RoleTypes \cup ProfileTypes
Labels == Roles \cup UNION {DeclaredLabels[t] : t \in ProfileTypes}

Databases ==
    [revision : 0..Newest, relations : SUBSET (Tables \cup Indexes),
     columns : SUBSET DeclaredColumns, defaults : SUBSET DeclaredColumns,
     types : [Types -> SUBSET Labels],
     roleType : RoleTypes \cup {None}, rows : [Users -> Row \cup {None}],
     profiles : SUBSET Users]

Jobs == [goal : 0..Newest, read : 0..Newest, here : 0..Newest, done : Nat]

(* None is a value of its own.                                             *)
ASSUME ConstantsOK ==
    /\ None \notin Users /\ None \notin Roles \cup RoleTypes /\ None \notin BOOLEAN
    /\ None # 0 /\ None \notin Row /\ None \notin Databases /\ None \notin Jobs

(* Types: a user's flag is set exactly when its column exists, and a       *)
(* profile belongs to a user who is there.                                 *)
TypeOK ==
    /\ db \in Databases
    /\ work \in [Migrators -> Databases \cup {None}]
    /\ \A u \in Accounts(db) :
           (db.rows[u].is_instructor = None) <=> "is_instructor" \notin db.columns
    /\ db.profiles \subseteq Accounts(db)
    /\ job \in [Migrators -> Jobs \cup {None}]

(* A database without its data.                                            *)
SchemaOf(d) == [d EXCEPT !.rows = Empty.rows, !.profiles = {}]

(* The schema each revision stands for.                                    *)
Since(n, r, S) == IF n >= r THEN S ELSE {}

RelationsAt(n) ==
    Since(n, 1, {"users", "ix_users_email", "ix_users_google_id",
        "refresh_tokens", "ix_refresh_tokens_user_id", "ix_refresh_tokens_token_hash",
        "password_reset_tokens", "ix_password_reset_tokens_user_id",
        "ix_password_reset_tokens_token_hash"})
    \cup Since(n, 3, {"email_verification_tokens", "ix_email_verification_tokens_user_id",
                      "ix_email_verification_tokens_token_hash"})
    \cup Since(n, 4, {"email_otps", "ix_email_otps_user_id", "ix_email_otps_code_hash"})
    \cup Since(n, 6, {"instructors"})

ColumnsAt(n) ==
    Since(n, 2, {"phone_number"}) \cup Since(n, 3, {"email_verified", "session_version"})
    \cup Since(n, 5, {"is_instructor"})

LabelsAt(n, t) ==
    CASE t = "user_role"     -> Since(n, 1, IF n < 5 THEN OldRoles ELSE NewRoles)
      [] t \in ProfileTypes  -> Since(n, 6, DeclaredLabels[t])
      [] OTHER               -> {}

SchemaAt(n) ==
    [Empty EXCEPT !.revision = n, !.relations = RelationsAt(n), !.columns = ColumnsAt(n),
                  !.types = [t \in Types |-> LabelsAt(n, t)],
                  !.roleType = IF n = 0 THEN None ELSE "user_role"]

(* Whatever upgrades and downgrades have run, overlapped or failed, the    *)
(* tables, columns and types are those of the stamped revision, with no    *)
(* leftover type or default; and those of the newest revision are the ones *)
(* the models declare.                                                     *)
SchemaMatchesRevision ==
    /\ SchemaOf(db) = SchemaAt(db.revision)
    /\ db.revision = Newest => FitsModels(db)

(* No script gets stuck on the rows or the schema it finds, in either      *)
(* direction, unless another migrator has changed the revision since it    *)
(* was read.                                                               *)
NoStepFails ==
    \A m \in Migrators :
        job[m] # None /\ HasOp(job[m]) /\ job[m].read = db.revision
            => Possible(NextOp(job[m]), View(m))

(* Who a row says somebody is, whichever release reads it.                 *)
StandingOf(row) ==
    IF row = None THEN None
    ELSE IF row.role \in {"ADMIN", "SUPER_ADMIN"} THEN row.role
    ELSE IF row.role = "INSTRUCTOR" \/ row.is_instructor = TRUE THEN "instructor"
    ELSE "student"

Abstract == INSTANCE Standings WITH standing <- [u \in Users |-> StandingOf(db.rows[u])]

(* No migration, in any order of upgrades and downgrades that keeps the    *)
(* users table, changes who somebody is: instructors survive the role      *)
(* conversions of 005 both ways, and staff stay staff.                     *)
KeepsStandings == Abstract!Spec
=============================================================================
