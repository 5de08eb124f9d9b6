-------------------------- MODULE Migrations_proofs --------------------------
(***************************************************************************)
(* Proofs about Migrations: types, that the schema is that of the stamped  *)
(* revision, that no script sticks, and that standings are kept.           *)
(*                                                                         *)
(* A script is data, so what it does to a schema is computed once, without *)
(* rows (Runs); an operation commutes with forgetting the rows; and the    *)
(* invariant says that a migrator's staged schema is what its script makes *)
(* so far of the schema of the revision it has reached.                    *)
(***************************************************************************)
EXTENDS Migrations, TLAPS

(* The operations the scripts are made of.                                 *)
Ops ==
    [op : {"create_type"}, name : Types, labels : SUBSET Labels]
    \cup [op : {"drop_type"}, name : Types, checkfirst : BOOLEAN]
    \cup [op : {"rename_type"}, name : RoleTypes, to : RoleTypes]
    \cup [op : {"create", "drop"}, table : Tables, indexes : SUBSET Indexes]
    \cup {AddNullable("phone_number"), AddColumn("email_verified", TRUE),
          AddColumn("session_version", 0), AddColumn("is_instructor", FALSE)}
    \cup [op : {"drop_default", "drop_column"}, column : DeclaredColumns]
    \cup {FlagInstructors, ConvertRole("user_role_new"), ConvertRole("user_role_old")}

(* d after the first k operations of the script s: none has more than 7.   *)
Ran1(s, d) == Apply(s[1], d)
Ran2(s, d) == Apply(s[2], Ran1(s, d))
Ran3(s, d) == Apply(s[3], Ran2(s, d))
Ran4(s, d) == Apply(s[4], Ran3(s, d))
Ran5(s, d) == Apply(s[5], Ran4(s, d))
Ran6(s, d) == Apply(s[6], Ran5(s, d))
Ran7(s, d) == Apply(s[7], Ran6(s, d))
Ran(s, d, k) ==
    CASE k = 0 -> d [] k = 1 -> Ran1(s, d) [] k = 2 -> Ran2(s, d) [] k = 3 -> Ran3(s, d)
      [] k = 4 -> Ran4(s, d) [] k = 5 -> Ran5(s, d) [] k = 6 -> Ran6(s, d)
      [] k = 7 -> Ran7(s, d)

(* The operation is possible on a schema, and stays so with rows in it     *)
(* that fit: conversions find the labels they are written for.             *)
Ready(o, e) ==
    /\ Possible(o, e)
    /\ o.op = "convert_role" =>
           /\ e.types[e.roleType] = IF o.to = "user_role_new" THEN OldRoles ELSE NewRoles
           /\ e.types[o.to] = IF o.to = "user_role_new" THEN NewRoles ELSE OldRoles
    /\ o.op = "drop_column" /\ o.column = "is_instructor" => e.types[e.roleType] = OldRoles

(* The script s leads from the schema d to the schema e.                   *)
Runs(s, d, e) ==
    /\ \A k \in 0..Len(s) - 1 : Ready(s[k + 1], Ran(s, d, k))
    /\ [Ran(s, d, Len(s)) EXCEPT !.revision = e.revision] = e

-----------------------------------------------------------------------------
(* What every database keeps, committed or staged, after every single      *)
(* operation.                                                              *)
RowFits(row, d) ==
    /\ d.roleType \in RoleTypes /\ row.role \in d.types[d.roleType]
    /\ row.is_instructor = None <=> "is_instructor" \notin d.columns
    /\ row.role = "STUDENT" => row.is_instructor # TRUE

Sound(d) ==
    /\ d \in Databases
    /\ "users" \notin d.relations => Accounts(d) = {}
    /\ "instructors" \notin d.relations => d.profiles = {}
    /\ d.profiles \subseteq Accounts(d)
    /\ \A u \in Accounts(d) : RowFits(d.rows[u], d)

(* Everybody has the standing they had, or the users table is empty.       *)
SameStandings(d, e) ==
    \/ Accounts(d) = {}
    \/ \A u \in Users : StandingOf(d.rows[u]) = StandingOf(e.rows[u])

(* 005 has run its UPDATE: its conversion finds instructors flagged.       *)
AfterFlagging(j) == j.here = 4 /\ j.goal > 4 /\ j.done >= 2
InstructorsFlagged(d) ==
    \A u \in Accounts(d) : d.rows[u].role = "INSTRUCTOR" => d.rows[u].is_instructor = TRUE

(* What the job j has staged, d, when it began at the revision of what is  *)
(* committed, c.                                                           *)
OnCourse(j, d, c) ==
    /\ d.revision = j.here
    /\ SchemaOf(d) = Ran(Plan(j), SchemaAt(j.here), j.done)
    /\ AfterFlagging(j) => InstructorsFlagged(d)
    /\ SameStandings(d, c)

(* Where a job can be: between the revision it read and its goal.          *)
JobFits(j) ==
    /\ j \in Jobs
    /\ \/ j.goal = Newest /\ j.read < j.goal /\ j.read <= j.here
       \/ j.goal < j.read /\ j.goal <= j.here /\ j.here <= j.read
    /\ j.done <= Len(Plan(j))

(* Another migrator has committed since: nothing more can be stamped.      *)
Overtaken(j, d, c) == j.here = j.read /\ d.revision = c.revision

Progress(m) ==
    IF job[m] = None THEN work[m] = None
    ELSE /\ JobFits(job[m])
         /\ IF work[m] = None THEN job[m].here = job[m].read /\ job[m].done = 0
            ELSE IF job[m].read = db.revision THEN OnCourse(job[m], work[m], db)
            ELSE Overtaken(job[m], work[m], db)

OneStager == \A m, n \in Migrators : work[m] # None /\ work[n] # None => m = n

IInv ==
    /\ job \in [Migrators -> Jobs \cup {None}]
    /\ work \in [Migrators -> Databases \cup {None}]
    /\ Sound(db)
    /\ SchemaOf(db) = SchemaAt(db.revision)
    /\ OneStager
    /\ \A m \in Migrators : work[m] # None => Sound(work[m])
    /\ \A m \in Migrators : Progress(m)

-----------------------------------------------------------------------------
(* Which script is which.                                                  *)
LEMMA Scripts ==
    /\ Upgrade(1) = Upgrade001 /\ Downgrade(1) = Downgrade001
    /\ Upgrade(2) = Upgrade002 /\ Downgrade(2) = Downgrade002
    /\ Upgrade(3) = Upgrade003 /\ Downgrade(3) = Downgrade003
    /\ Upgrade(4) = Upgrade004 /\ Downgrade(4) = Downgrade004
    /\ Upgrade(5) = Upgrade005 /\ Downgrade(5) = Downgrade005
    /\ Upgrade(6) = Upgrade006 /\ Downgrade(6) = Downgrade006
BY DEF Upgrade, Downgrade

LEMMA Lengths ==
    /\ Len(Upgrade001) = 4 /\ Len(Downgrade001) = 4
    /\ Len(Upgrade002) = 1 /\ Len(Downgrade002) = 1
    /\ Len(Upgrade003) = 5 /\ Len(Downgrade003) = 3
    /\ Len(Upgrade004) = 1 /\ Len(Downgrade004) = 1
    /\ Len(Upgrade005) = 7 /\ Len(Downgrade005) = 5
    /\ Len(Upgrade006) = 5 /\ Len(Downgrade006) = 5
BY DEF Upgrade001, Downgrade001, Upgrade002, Downgrade002, Upgrade003, Downgrade003,
       Upgrade004, Downgrade004, Upgrade005, Downgrade005, Upgrade006, Downgrade006

(* Every operation of a script is one of Ops.                              *)
LEMMA OpsHave ==
    /\ \A t \in Types, S \in SUBSET Labels : CreateType(t, S) \in Ops
    /\ \A t \in Types : DropType(t) \in Ops /\ DropTypeIf(t) \in Ops
    /\ \A t, u \in RoleTypes : RenameType(t, u) \in Ops
    /\ \A t \in Tables, I \in SUBSET Indexes : Create(t, I) \in Ops /\ Drop(t, I) \in Ops
    /\ \A c \in DeclaredColumns : DropDefault(c) \in Ops /\ DropColumn(c) \in Ops
    /\ AddNullable("phone_number") \in Ops /\ AddColumn("email_verified", TRUE) \in Ops
    /\ AddColumn("session_version", 0) \in Ops /\ AddColumn("is_instructor", FALSE) \in Ops
    /\ FlagInstructors \in Ops
    /\ ConvertRole("user_role_new") \in Ops /\ ConvertRole("user_role_old") \in Ops
BY DEF Ops, CreateType, DropType, DropTypeIf, RenameType, Create, Drop, DropDefault, DropColumn

LEMMA TypeNames ==
    /\ "user_role" \in RoleTypes /\ "user_role_new" \in RoleTypes
    /\ "user_role_old" \in RoleTypes
    /\ "teaching_experience" \in ProfileTypes /\ "video_experience" \in ProfileTypes
    /\ "audience_size" \in ProfileTypes /\ "teaching_topic" \in ProfileTypes
    /\ \A t \in RoleTypes \cup ProfileTypes : t \in Types
BY DEF Types, RoleTypes, ProfileTypes

LEMMA TableNames ==
    /\ "users" \in Tables /\ "refresh_tokens" \in Tables /\ "password_reset_tokens" \in Tables
    /\ "email_verification_tokens" \in Tables /\ "email_otps" \in Tables
    /\ "instructors" \in Tables /\ "users" \notin OwnedTables
BY DEF Tables, OwnedTables

LEMMA ColumnNames ==
    /\ "phone_number" \in DeclaredColumns /\ "email_verified" \in DeclaredColumns
    /\ "session_version" \in DeclaredColumns /\ "is_instructor" \in DeclaredColumns
BY DEF DeclaredColumns

LEMMA RoleLabels == OldRoles \in SUBSET Labels /\ NewRoles \in SUBSET Labels
BY DEF Labels, Roles

LEMMA ProfileLabels == \A t \in ProfileTypes : DeclaredLabels[t] \in SUBSET Labels
BY DEF Labels

LEMMA Declared ==
    /\ DeclaredLabels["teaching_experience"] =
           {"IN_PERSON_INFORMAL", "IN_PERSON_PROFESSIONAL", "ONLINE", "OTHER"}
    /\ DeclaredLabels["video_experience"] =
           {"BEGINNER", "SOME_KNOWLEDGE", "EXPERIENCED", "VIDEOS_READY"}
    /\ DeclaredLabels["audience_size"] = {"NONE", "SMALL", "SUFFICIENT", "LARGE"}
    /\ DeclaredLabels["teaching_topic"] =
           {"TECHNOLOGY", "DESIGN", "BUSINESS", "MARKETING", "PERSONAL_DEVELOPMENT",
            "MUSIC", "HEALTH_FITNESS", "LIFESTYLE", "EDUCATION", "OTHER"}
BY DEF DeclaredLabels

LEMMA UpgradeOps ==
    ASSUME NEW n \in 1..Newest, NEW i \in 1..Len(Upgrade(n))
    PROVE  Upgrade(n)[i] \in Ops
<1> USE Lengths, Scripts, OpsHave, TypeNames, TableNames, ColumnNames, RoleLabels
<1>1. CASE n = 1 BY <1>1 DEF Upgrade001, Indexes
<1>2. CASE n = 2 BY <1>2 DEF Upgrade002
<1>3. CASE n = 3
  <2> USE <1>3 DEF Upgrade003, Indexes
  <2>1. CASE i = 1 BY <2>1 DEF AddColumn, Ops
  <2>2. CASE i = 2 BY <2>2
  <2>3. CASE i = 3 BY <2>3
  <2>4. CASE i = 4 BY <2>4
  <2>5. CASE i = 5 BY <2>5
  <2> QED BY <2>1, <2>2, <2>3, <2>4, <2>5
<1>4. CASE n = 4 BY <1>4 DEF Upgrade004, Indexes
<1>5. CASE n = 5
  <2> USE <1>5 DEF Upgrade005
  <2>1. CASE i = 1 BY <2>1 DEF AddColumn, Ops
  <2>2. CASE i = 2 BY <2>2
  <2>3. CASE i = 3 BY <2>3
  <2>4. CASE i = 4 BY <2>4
  <2>5. CASE i = 5 BY <2>5
  <2>6. CASE i = 6 BY <2>6
  <2>7. CASE i = 7 BY <2>7
  <2> QED BY <2>1, <2>2, <2>3, <2>4, <2>5, <2>6, <2>7
<1>6. CASE n = 6
  <2> USE <1>6 DEF Upgrade006
  <2>1. CASE i = 1 BY <2>1, Declared, ProfileLabels
  <2>2. CASE i = 2 BY <2>2, Declared, ProfileLabels
  <2>3. CASE i = 3 BY <2>3, Declared, ProfileLabels
  <2>4. CASE i = 4 BY <2>4, Declared, ProfileLabels
  <2>5. CASE i = 5 BY <2>5, Declared, ProfileLabels
  <2> QED BY <2>1, <2>2, <2>3, <2>4, <2>5
<1> QED BY <1>1, <1>2, <1>3, <1>4, <1>5, <1>6 DEF Newest

LEMMA DowngradeOps ==
    ASSUME NEW n \in 1..Newest, NEW i \in 1..Len(Downgrade(n))
    PROVE  Downgrade(n)[i] \in Ops
<1> USE Lengths, Scripts, OpsHave, TypeNames, TableNames, ColumnNames, RoleLabels
<1>1. CASE n = 1 BY <1>1 DEF Downgrade001, Indexes
<1>2. CASE n = 2 BY <1>2 DEF Downgrade002
<1>3. CASE n = 3 BY <1>3 DEF Downgrade003, Indexes
<1>4. CASE n = 4 BY <1>4 DEF Downgrade004, Indexes
<1>5. CASE n = 5 BY <1>5 DEF Downgrade005
<1>6. CASE n = 6 BY <1>6 DEF Downgrade006
<1> QED BY <1>1, <1>2, <1>3, <1>4, <1>5, <1>6 DEF Newest

LEMMA RanStep ==
    ASSUME NEW s, NEW d, NEW k \in 0..6
    PROVE  Ran(s, d, k + 1) = Apply(s[k + 1], Ran(s, d, k))
BY DEF Ran, Ran1, Ran2, Ran3, Ran4, Ran5, Ran6, Ran7

-----------------------------------------------------------------------------
(* A database without rows, and what each kind of operation does to it.    *)
Schema(n, R, C, F, T, r) ==
    [revision |-> n, relations |-> R, columns |-> C, defaults |-> F, types |-> T,
     roleType |-> r, rows |-> [u \in Users |-> None], profiles |-> {}]

LEMMA Emptied ==
    ASSUME NEW n, NEW R, NEW C, NEW F, NEW T, NEW r
    PROVE  Accounts(Schema(n, R, C, F, T, r)) = {}
BY DEF Accounts, Schema

LEMMA SchemaAtIs ==
    ASSUME NEW n
    PROVE  SchemaAt(n) = Schema(n, RelationsAt(n), ColumnsAt(n), {},
               [t \in Types |-> LabelsAt(n, t)], IF n = 0 THEN None ELSE "user_role")
<1> DEFINE T == [t \in Types |-> LabelsAt(n, t)]
           r == IF n = 0 THEN None ELSE "user_role"
           N == [t \in RoleTypes \cup ProfileTypes |-> {}]
<1>1. SchemaAt(n) = [Empty EXCEPT !.revision = n, !.relations = RelationsAt(n),
                         !.columns = ColumnsAt(n), !.types = T, !.roleType = r]
  BY DEF SchemaAt
<1>2. Empty = Schema(0, {}, {}, {}, N, None)
  BY DEF Empty, Schema
<1> HIDE DEF T, r, N
<1>3. SchemaAt(n) = Schema(n, RelationsAt(n), ColumnsAt(n), {}, T, r)
  BY <1>1, <1>2 DEF Schema
<1> QED BY <1>3 DEF T, r

(* What each kind of operation needs of a database without rows.           *)
LEMMA CanCreate ==
    ASSUME NEW n, NEW R, NEW C, NEW F, NEW T, NEW r, NEW t, NEW I,
           t \notin R, \A x \in I : x \notin R, t = "users" => T["user_role"] # {},
           t \in OwnedTables => "users" \in R,
           t = "instructors" => \A p \in ProfileTypes : T[p] # {}
    PROVE  Ready(Create(t, I), Schema(n, R, C, F, T, r))
BY DEF Ready, Possible, Create, Schema

LEMMA CanDrop ==
    ASSUME NEW n, NEW R, NEW C, NEW F, NEW T, NEW r, NEW t, NEW I,
           t \in R, \A x \in I : x \in R, t = "users" => \A x \in OwnedTables : x \notin R
    PROVE  Ready(Drop(t, I), Schema(n, R, C, F, T, r))
BY DEF Ready, Possible, Drop, Schema

LEMMA CanCreateType ==
    ASSUME NEW n, NEW R, NEW C, NEW F, NEW T, NEW r, NEW t, NEW L
    PROVE  Ready(CreateType(t, L), Schema(n, R, C, F, T, r))
BY DEF Ready, Possible, CreateType, Schema

LEMMA CanDropType ==
    ASSUME NEW n, NEW R, NEW C, NEW F, NEW T, NEW r, NEW t,
           r # t, t \in ProfileTypes => "instructors" \notin R
    PROVE  /\ T[t] # {} => Ready(DropType(t), Schema(n, R, C, F, T, r))
           /\ Ready(DropTypeIf(t), Schema(n, R, C, F, T, r))
BY DEF Ready, Possible, InUse, DropType, DropTypeIf, Schema

LEMMA CanRenameType ==
    ASSUME NEW n, NEW R, NEW C, NEW F, NEW T, NEW r, NEW t, NEW u, T[t] # {}, T[u] = {}
    PROVE  Ready(RenameType(t, u), Schema(n, R, C, F, T, r))
BY DEF Ready, Possible, RenameType, Schema

LEMMA CanAddColumn ==
    ASSUME NEW n, NEW R, NEW C, NEW F, NEW T, NEW r, NEW c, "users" \in R, c \notin C
    PROVE  /\ \A v : Ready(AddColumn(c, v), Schema(n, R, C, F, T, r))
           /\ Ready(AddNullable(c), Schema(n, R, C, F, T, r))
BY Emptied DEF Ready, Possible, AddColumn, AddNullable, Schema

LEMMA CanChangeColumn ==
    ASSUME NEW n, NEW R, NEW C, NEW F, NEW T, NEW r, NEW c, c \in C
    PROVE  /\ Ready(DropDefault(c), Schema(n, R, C, F, T, r))
           /\ (c = "is_instructor" => T[r] = OldRoles)
                  => Ready(DropColumn(c), Schema(n, R, C, F, T, r))
BY DEF Ready, Possible, DropDefault, DropColumn, Schema

LEMMA CanFlagInstructors ==
    ASSUME NEW n, NEW R, NEW C, NEW F, NEW T, NEW r,
           "is_instructor" \in C, "INSTRUCTOR" \in T[r]
    PROVE  Ready(FlagInstructors, Schema(n, R, C, F, T, r))
BY DEF Ready, Possible, FlagInstructors, Schema

LEMMA CanConvertRole ==
    ASSUME NEW n, NEW R, NEW C, NEW F, NEW T, NEW r, "is_instructor" \in C
    PROVE  /\ T[r] = OldRoles /\ T["user_role_new"] = NewRoles
                  => Ready(ConvertRole("user_role_new"), Schema(n, R, C, F, T, r))
           /\ T[r] = NewRoles /\ T["user_role_old"] = OldRoles
                  => Ready(ConvertRole("user_role_old"), Schema(n, R, C, F, T, r))
BY Emptied DEF Ready, Possible, ConvertRole, Schema

-----------------------------------------------------------------------------
(* Each script, operation by operation.                                    *)
TypesAt(n) == [t \in Types |-> LabelsAt(n, t)]

LEMMA LabelsOf ==
    ASSUME NEW n \in 0..Newest
    PROVE  /\ DOMAIN TypesAt(n) = Types
           /\ n = 0 => TypesAt(n)["user_role"] = {}
           /\ n \in 1..4 => TypesAt(n)["user_role"] = OldRoles
           /\ n \in 5..6 => TypesAt(n)["user_role"] = NewRoles
           /\ TypesAt(n)["user_role_new"] = {} /\ TypesAt(n)["user_role_old"] = {}
           /\ n # 6 => \A t \in ProfileTypes : TypesAt(n)[t] = {}
           /\ n = 6 => \A t \in ProfileTypes : TypesAt(n)[t] = DeclaredLabels[t]
<1>1. \A t \in Types : TypesAt(n)[t] = LabelsAt(n, t)
  BY DEF TypesAt
<1>2. TypesAt(n)["user_role"] = LabelsAt(n, "user_role")
  BY <1>1, TypeNames
<1>3. /\ n = 0 => LabelsAt(n, "user_role") = {}
      /\ n \in 1..4 => LabelsAt(n, "user_role") = OldRoles
      /\ n \in 5..6 => LabelsAt(n, "user_role") = NewRoles
  BY DEF LabelsAt, Since, ProfileTypes, Newest
<1>4. TypesAt(n)["user_role_new"] = {} /\ TypesAt(n)["user_role_old"] = {}
  BY <1>1, TypeNames DEF LabelsAt, Since, ProfileTypes
<1>5. ASSUME NEW t \in ProfileTypes
      PROVE  /\ n # 6 => LabelsAt(n, t) = {}
             /\ n = 6 => LabelsAt(n, t) = DeclaredLabels[t]
  BY DEF LabelsAt, Since, ProfileTypes, Newest
<1>6. \A t \in ProfileTypes : TypesAt(n)[t] = LabelsAt(n, t)
  BY <1>1 DEF Types
<1>7. DOMAIN TypesAt(n) = Types
  BY DEF TypesAt
<1> QED BY <1>2, <1>3, <1>4, <1>5, <1>6, <1>7

LEMMA SomeLabels ==
    /\ OldRoles # {} /\ NewRoles # {} /\ "INSTRUCTOR" \in OldRoles
    /\ \A t \in ProfileTypes : DeclaredLabels[t] # {}
<1>1. "STUDENT" \in OldRoles /\ "INSTRUCTOR" \in OldRoles /\ "ADMIN" \in NewRoles
  BY DEF OldRoles, NewRoles
<1>2. /\ "OTHER" \in DeclaredLabels["teaching_experience"]
      /\ "OTHER" \in DeclaredLabels["teaching_topic"]
      /\ "BEGINNER" \in DeclaredLabels["video_experience"]
      /\ "NONE" \in DeclaredLabels["audience_size"]
  BY Declared
<1> QED BY <1>1, <1>2 DEF ProfileTypes

LEMMA SchemaIs ==
    /\ SchemaAt(0) = Schema(0, RelationsAt(0), ColumnsAt(0), {}, TypesAt(0), None)
    /\ \A n \in 1..Newest :
           SchemaAt(n) = Schema(n, RelationsAt(n), ColumnsAt(n), {}, TypesAt(n), "user_role")
BY SchemaAtIs DEF TypesAt, Newest

(* A script runs through when each of its stages is reached and ready.     *)
LEMMA Restamped ==
    ASSUME NEW n, NEW p, NEW R, NEW C, NEW F, NEW T, NEW r
    PROVE  /\ [Schema(n, R, C, F, T, r) EXCEPT !.revision = p] = Schema(p, R, C, F, T, r)
           /\ Schema(n, R, C, F, T, r).revision = n
BY DEF Schema

(* One lemma for each script.  R, C, F and T are the relations, columns,   *)
(* defaults and types as the operations change them, d the stages.         *)
LEMMA RunsUpgrade001 == Runs(Upgrade001, SchemaAt(0), SchemaAt(1))
<1> DEFINE s == Upgrade001
           R0 == RelationsAt(0)
           C0 == ColumnsAt(0)
           T0 == TypesAt(0)
           T1 == [T0 EXCEPT !["user_role"] = OldRoles]
           I1 == {"ix_users_email", "ix_users_google_id"}
           R1 == R0 \cup {"users"} \cup I1
           I2 == {"ix_refresh_tokens_user_id", "ix_refresh_tokens_token_hash"}
           R2 == R1 \cup {"refresh_tokens"} \cup I2
           I3 == {"ix_password_reset_tokens_user_id", "ix_password_reset_tokens_token_hash"}
           R3 == R2 \cup {"password_reset_tokens"} \cup I3
           d0 == Schema(0, R0, C0, {}, T0, None)
           d1 == Schema(0, R0, C0, {}, T1, None)
           d2 == Schema(0, R1, C0, {}, T1, "user_role")
           d3 == Schema(0, R2, C0, {}, T1, "user_role")
           d4 == Schema(0, R3, C0, {}, T1, "user_role")
<1>1. R3 = RelationsAt(1) /\ C0 = ColumnsAt(1)
  BY DEF RelationsAt, ColumnsAt, Since
<1>2. T1 = TypesAt(1)
  <2>1. \A t \in Types : T1[t] = TypesAt(1)[t]
    <3>1. \A t \in RoleTypes : T1[t] = TypesAt(1)[t]
      BY LabelsOf, TypeNames DEF RoleTypes, ProfileTypes, Newest
    <3>2. \A t \in ProfileTypes : T1[t] = TypesAt(1)[t]
      BY LabelsOf, TypeNames DEF RoleTypes, ProfileTypes, Newest
    <3> QED BY <3>1, <3>2 DEF Types
  <2> QED BY <2>1 DEF TypesAt
<1>3. /\ s[1] = CreateType("user_role", OldRoles) /\ s[2] = Create("users", I1)
      /\ s[3] = Create("refresh_tokens", I2)
      /\ s[4] = Create("password_reset_tokens", I3)
  BY DEF Upgrade001
<1>4. /\ "users" \notin R0
      /\ \A x \in I1 : x \notin R0
      /\ "refresh_tokens" \notin R1
      /\ \A x \in I2 : x \notin R1
      /\ "users" \in R1 /\ "password_reset_tokens" \notin R2
      /\ \A x \in I3 : x \notin R2
      /\ "users" \in R2
  BY DEF RelationsAt, ColumnsAt, Since
<1>5. /\ T1 = [T0 EXCEPT !["user_role"] = OldRoles] /\ R1 = R0 \cup {"users"} \cup I1
      /\ R2 = R1 \cup {"refresh_tokens"} \cup I2
      /\ R3 = R2 \cup {"password_reset_tokens"} \cup I3
  OBVIOUS
<1>6. /\ Len(s) = 4 /\ SchemaAt(1).revision = 1
  BY Lengths, Restamped, SchemaIs DEF Newest
<1> HIDE DEF s, R0, C0, T0, T1, I1, R1, I2, R2, I3, R3
<1>7. /\ T0["user_role"] = {} /\ T1["user_role"] # {}
  BY <1>2, <1>5, LabelsOf, SomeLabels, TypeNames DEF T0, Newest, ProfileTypes
<1>8. /\ Ready(s[1], d0) /\ Ready(s[2], d1) /\ Ready(s[3], d2) /\ Ready(s[4], d3)
  <2>1. Ready(CreateType("user_role", OldRoles), d0)
    BY CanCreateType
  <2>2. Ready(Create("users", I1), d1)
    BY <1>4, <1>7, TableNames, CanCreate
  <2>3. Ready(Create("refresh_tokens", I2), d2)
    BY <1>4, TableNames, CanCreate
  <2>4. Ready(Create("password_reset_tokens", I3), d3)
    BY <1>4, TableNames, CanCreate
  <2> QED BY <1>3, <2>1, <2>2, <2>3, <2>4
<1>9. /\ Apply(s[1], d0) = d1 /\ Apply(s[2], d1) = d2 /\ Apply(s[3], d2) = d3
      /\ Apply(s[4], d3) = d4
  <2>1. Apply(CreateType("user_role", OldRoles), d0) = d1
    BY <1>5, <1>7 DEF Apply, Schema, CreateType
  <2>2. Apply(Create("users", I1), d1) = d2
    BY <1>5 DEF Apply, Schema, Created, Create
  <2>3. Apply(Create("refresh_tokens", I2), d2) = d3
    BY <1>5 DEF Apply, Schema, Created, Create
  <2>4. Apply(Create("password_reset_tokens", I3), d3) = d4
    BY <1>5 DEF Apply, Schema, Created, Create
  <2> QED BY <1>3, <2>1, <2>2, <2>3, <2>4
<1>10. [d4 EXCEPT !.revision = 1] = SchemaAt(1) /\ SchemaAt(0) = d0
  BY <1>1, <1>2, Restamped, SchemaIs DEF Newest, R0, C0, T0
<1> HIDE DEF d0, d1, d2, d3, d4
<1> QED
  BY <1>6, <1>8, <1>9, <1>10
     DEF Runs, Ran, Ran1, Ran2, Ran3, Ran4, s

LEMMA RunsDowngrade001 == Runs(Downgrade001, SchemaAt(1), SchemaAt(0))
<1> DEFINE s == Downgrade001
           R0 == RelationsAt(1)
           C0 == ColumnsAt(1)
           T0 == TypesAt(1)
           I1 == {"ix_password_reset_tokens_user_id", "ix_password_reset_tokens_token_hash"}
           R1 == R0 \ ({"password_reset_tokens"} \cup I1)
           I2 == {"ix_refresh_tokens_user_id", "ix_refresh_tokens_token_hash"}
           R2 == R1 \ ({"refresh_tokens"} \cup I2)
           I3 == {"ix_users_email", "ix_users_google_id"}
           R3 == R2 \ ({"users"} \cup I3)
           T1 == [T0 EXCEPT !["user_role"] = {}]
           d0 == Schema(1, R0, C0, {}, T0, "user_role")
           d1 == Schema(1, R1, C0, {}, T0, "user_role")
           d2 == Schema(1, R2, C0, {}, T0, "user_role")
           d3 == Schema(1, R3, C0, {}, T0, None)
           d4 == Schema(1, R3, C0, {}, T1, None)
<1>1. R3 = RelationsAt(0) /\ C0 = ColumnsAt(0)
  BY DEF RelationsAt, ColumnsAt, Since
<1>2. T1 = TypesAt(0)
  <2>1. \A t \in Types : T1[t] = TypesAt(0)[t]
    <3>1. \A t \in RoleTypes : T1[t] = TypesAt(0)[t]
      BY LabelsOf, TypeNames DEF RoleTypes, ProfileTypes, Newest
    <3>2. \A t \in ProfileTypes : T1[t] = TypesAt(0)[t]
      BY LabelsOf, TypeNames DEF RoleTypes, ProfileTypes, Newest
    <3> QED BY <3>1, <3>2 DEF Types
  <2> QED BY <2>1 DEF TypesAt
<1>3. /\ s[1] = Drop("password_reset_tokens", I1) /\ s[2] = Drop("refresh_tokens", I2)
      /\ s[3] = Drop("users", I3) /\ s[4] = DropTypeIf("user_role")
  BY DEF Downgrade001
<1>4. /\ "password_reset_tokens" \in R0
      /\ \A x \in I1 : x \in R0
      /\ "refresh_tokens" \in R1
      /\ \A x \in I2 : x \in R1
      /\ "users" \in R2
      /\ \A x \in I3 : x \in R2
      /\ \A x \in OwnedTables : x \notin R2
  BY DEF RelationsAt, ColumnsAt, Since, OwnedTables
<1>5. /\ R1 = R0 \ ({"password_reset_tokens"} \cup I1)
      /\ R2 = R1 \ ({"refresh_tokens"} \cup I2) /\ R3 = R2 \ ({"users"} \cup I3)
      /\ T1 = [T0 EXCEPT !["user_role"] = {}]
  OBVIOUS
<1>6. /\ Len(s) = 4 /\ SchemaAt(0).revision = 0
  BY Lengths, Restamped, SchemaIs DEF Newest
<1> HIDE DEF s, R0, C0, T0, I1, R1, I2, R2, I3, R3, T1
<1>7. /\ Ready(s[1], d0) /\ Ready(s[2], d1) /\ Ready(s[3], d2) /\ Ready(s[4], d3)
  <2>1. Ready(Drop("password_reset_tokens", I1), d0)
    BY <1>4, TableNames, CanDrop
  <2>2. Ready(Drop("refresh_tokens", I2), d1)
    BY <1>4, TableNames, CanDrop
  <2>3. Ready(Drop("users", I3), d2)
    BY <1>4, TableNames, CanDrop
  <2>4. Ready(DropTypeIf("user_role"), d3)
    BY <1>4, ConstantsOK, TypeNames, CanDropType DEF ProfileTypes
  <2> QED BY <1>3, <2>1, <2>2, <2>3, <2>4
<1>8. /\ Apply(s[1], d0) = d1 /\ Apply(s[2], d1) = d2 /\ Apply(s[3], d2) = d3
      /\ Apply(s[4], d3) = d4
  <2>1. Apply(Drop("password_reset_tokens", I1), d0) = d1
    BY <1>5 DEF Apply, Schema, Dropped, Drop
  <2>2. Apply(Drop("refresh_tokens", I2), d1) = d2
    BY <1>5 DEF Apply, Schema, Dropped, Drop
  <2>3. Apply(Drop("users", I3), d2) = d3
    BY <1>5 DEF Apply, Schema, Dropped, Drop
  <2>4. Apply(DropTypeIf("user_role"), d3) = d4
    BY <1>5 DEF Apply, Schema, DropTypeIf
  <2> QED BY <1>3, <2>1, <2>2, <2>3, <2>4
<1>9. [d4 EXCEPT !.revision = 0] = SchemaAt(0) /\ SchemaAt(1) = d0
  BY <1>1, <1>2, Restamped, SchemaIs DEF Newest, R0, C0, T0
<1> HIDE DEF d0, d1, d2, d3, d4
<1> QED
  BY <1>6, <1>7, <1>8, <1>9
     DEF Runs, Ran, Ran1, Ran2, Ran3, Ran4, s

LEMMA RunsUpgrade002 == Runs(Upgrade002, SchemaAt(1), SchemaAt(2))
<1> DEFINE s == Upgrade002
           R0 == RelationsAt(1)
           C0 == ColumnsAt(1)
           T0 == TypesAt(1)
           C1 == C0 \cup {"phone_number"}
           d0 == Schema(1, R0, C0, {}, T0, "user_role")
           d1 == Schema(1, R0, C1, {}, T0, "user_role")
<1>1. R0 = RelationsAt(2) /\ C1 = ColumnsAt(2)
  BY DEF RelationsAt, ColumnsAt, Since
<1>2. T0 = TypesAt(2)
  BY DEF TypesAt, LabelsAt, Since
<1>3. s[1] = AddNullable("phone_number")
  BY DEF Upgrade002
<1>4. /\ "phone_number" \notin C0 /\ "users" \in R0
  BY DEF RelationsAt, ColumnsAt, Since
<1>5. C1 = C0 \cup {"phone_number"}
  OBVIOUS
<1>6. /\ Len(s) = 1 /\ SchemaAt(2).revision = 2
  BY Lengths, Restamped, SchemaIs DEF Newest
<1> HIDE DEF s, R0, C0, T0, C1
<1>7. Ready(s[1], d0)
  <2>1. Ready(AddNullable("phone_number"), d0)
    BY <1>4, CanAddColumn
  <2> QED BY <1>3, <2>1
<1>8. Apply(s[1], d0) = d1
  <2>1. Apply(AddNullable("phone_number"), d0) = d1
    BY <1>5 DEF Apply, Schema, Added, WithColumn, AddNullable
  <2> QED BY <1>3, <2>1
<1>9. [d1 EXCEPT !.revision = 2] = SchemaAt(2) /\ SchemaAt(1) = d0
  BY <1>1, <1>2, Restamped, SchemaIs DEF Newest, R0, C0, T0
<1> HIDE DEF d0, d1
<1> QED
  BY <1>6, <1>7, <1>8, <1>9
     DEF Runs, Ran, Ran1, s

LEMMA RunsDowngrade002 == Runs(Downgrade002, SchemaAt(2), SchemaAt(1))
<1> DEFINE s == Downgrade002
           R0 == RelationsAt(2)
           C0 == ColumnsAt(2)
           T0 == TypesAt(2)
           C1 == C0 \ {"phone_number"}
           d0 == Schema(2, R0, C0, {}, T0, "user_role")
           d1 == Schema(2, R0, C1, {}, T0, "user_role")
<1>1. R0 = RelationsAt(1) /\ C1 = ColumnsAt(1)
  BY DEF RelationsAt, ColumnsAt, Since
<1>2. T0 = TypesAt(1)
  BY DEF TypesAt, LabelsAt, Since
<1>3. s[1] = DropColumn("phone_number")
  BY DEF Downgrade002
<1>4. "phone_number" \in C0
  BY DEF RelationsAt, ColumnsAt, Since
<1>5. C1 = C0 \ {"phone_number"}
  OBVIOUS
<1>6. /\ Len(s) = 1 /\ SchemaAt(1).revision = 1
  BY Lengths, Restamped, SchemaIs DEF Newest
<1> HIDE DEF s, R0, C0, T0, C1
<1>7. Ready(s[1], d0)
  <2>1. Ready(DropColumn("phone_number"), d0)
    BY <1>4, CanChangeColumn
  <2> QED BY <1>3, <2>1
<1>8. Apply(s[1], d0) = d1
  <2>1. Apply(DropColumn("phone_number"), d0) = d1
    BY <1>5 DEF Apply, Schema, DropColumn, WithColumn
  <2> QED BY <1>3, <2>1
<1>9. [d1 EXCEPT !.revision = 1] = SchemaAt(1) /\ SchemaAt(2) = d0
  BY <1>1, <1>2, Restamped, SchemaIs DEF Newest, R0, C0, T0
<1> HIDE DEF d0, d1
<1> QED
  BY <1>6, <1>7, <1>8, <1>9
     DEF Runs, Ran, Ran1, s

LEMMA RunsUpgrade003 == Runs(Upgrade003, SchemaAt(2), SchemaAt(3))
<1> DEFINE s == Upgrade003
           R0 == RelationsAt(2)
           C0 == ColumnsAt(2)
           T0 == TypesAt(2)
           C1 == C0 \cup {"email_verified"}
           F1 == {} \cup {"email_verified"}
           C2 == C1 \cup {"session_version"}
           F2 == F1 \cup {"session_version"}
           F3 == F2 \ {"email_verified"}
           F4 == F3 \ {"session_version"}
           I1 == {"ix_email_verification_tokens_user_id", "ix_email_verification_tokens_token_hash"}
           R1 == R0 \cup {"email_verification_tokens"} \cup I1
           d0 == Schema(2, R0, C0, {}, T0, "user_role")
           d1 == Schema(2, R0, C1, F1, T0, "user_role")
           d2 == Schema(2, R0, C2, F2, T0, "user_role")
           d3 == Schema(2, R0, C2, F3, T0, "user_role")
           d4 == Schema(2, R0, C2, F4, T0, "user_role")
           d5 == Schema(2, R1, C2, F4, T0, "user_role")
<1>1. R1 = RelationsAt(3) /\ C2 = ColumnsAt(3)
  BY DEF RelationsAt, ColumnsAt, Since
<1>2. T0 = TypesAt(3)
  BY DEF TypesAt, LabelsAt, Since
<1>3. F4 = {}
  OBVIOUS
<1>4. /\ s[1] = AddColumn("email_verified", TRUE)
      /\ s[2] = AddColumn("session_version", 0) /\ s[3] = DropDefault("email_verified")
      /\ s[4] = DropDefault("session_version")
      /\ s[5] = Create("email_verification_tokens", I1)
  BY DEF Upgrade003
<1>5. /\ "email_verified" \notin C0 /\ "users" \in R0 /\ "session_version" \notin C1
      /\ "email_verified" \in C2 /\ "session_version" \in C2
      /\ "email_verification_tokens" \notin R0
      /\ \A x \in I1 : x \notin R0
  BY DEF RelationsAt, ColumnsAt, Since
<1>6. /\ C1 = C0 \cup {"email_verified"} /\ F1 = {} \cup {"email_verified"}
      /\ C2 = C1 \cup {"session_version"} /\ F2 = F1 \cup {"session_version"}
      /\ F3 = F2 \ {"email_verified"} /\ F4 = F3 \ {"session_version"}
      /\ R1 = R0 \cup {"email_verification_tokens"} \cup I1
  OBVIOUS
<1>7. /\ Len(s) = 5 /\ SchemaAt(3).revision = 3
  BY Lengths, Restamped, SchemaIs DEF Newest
<1> HIDE DEF s, R0, C0, T0, C1, F1, C2, F2, F3, F4, I1, R1
<1>8. /\ Ready(s[1], d0) /\ Ready(s[2], d1) /\ Ready(s[3], d2) /\ Ready(s[4], d3)
      /\ Ready(s[5], d4)
  <2>1. Ready(AddColumn("email_verified", TRUE), d0)
    BY <1>5, CanAddColumn
  <2>2. Ready(AddColumn("session_version", 0), d1)
    BY <1>5, CanAddColumn
  <2>3. Ready(DropDefault("email_verified"), d2)
    BY <1>5, CanChangeColumn
  <2>4. Ready(DropDefault("session_version"), d3)
    BY <1>5, CanChangeColumn
  <2>5. Ready(Create("email_verification_tokens", I1), d4)
    BY <1>5, TableNames, CanCreate
  <2> QED BY <1>4, <2>1, <2>2, <2>3, <2>4, <2>5
<1>9. /\ Apply(s[1], d0) = d1 /\ Apply(s[2], d1) = d2 /\ Apply(s[3], d2) = d3
      /\ Apply(s[4], d3) = d4 /\ Apply(s[5], d4) = d5
  <2>1. Apply(AddColumn("email_verified", TRUE), d0) = d1
    BY <1>6, ConstantsOK DEF Apply, Schema, Added, WithColumn, AddColumn
  <2>2. Apply(AddColumn("session_version", 0), d1) = d2
    BY <1>6, ConstantsOK DEF Apply, Schema, Added, WithColumn, AddColumn
  <2>3. Apply(DropDefault("email_verified"), d2) = d3
    BY <1>6 DEF Apply, Schema, DropDefault
  <2>4. Apply(DropDefault("session_version"), d3) = d4
    BY <1>6 DEF Apply, Schema, DropDefault
  <2>5. Apply(Create("email_verification_tokens", I1), d4) = d5
    BY <1>6 DEF Apply, Schema, Created, Create
  <2> QED BY <1>4, <2>1, <2>2, <2>3, <2>4, <2>5
<1>10. [d5 EXCEPT !.revision = 3] = SchemaAt(3) /\ SchemaAt(2) = d0
  BY <1>1, <1>2, <1>3, Restamped, SchemaIs DEF Newest, R0, C0, T0
<1> HIDE DEF d0, d1, d2, d3, d4, d5
<1> QED
  BY <1>7, <1>8, <1>9, <1>10
     DEF Runs, Ran, Ran1, Ran2, Ran3, Ran4, Ran5, s

LEMMA RunsDowngrade003 == Runs(Downgrade003, SchemaAt(3), SchemaAt(2))
<1> DEFINE s == Downgrade003
           R0 == RelationsAt(3)
           C0 == ColumnsAt(3)
           T0 == TypesAt(3)
           I1 == {"ix_email_verification_tokens_user_id", "ix_email_verification_tokens_token_hash"}
           R1 == R0 \ ({"email_verification_tokens"} \cup I1)
           C1 == C0 \ {"session_version"}
           C2 == C1 \ {"email_verified"}
           d0 == Schema(3, R0, C0, {}, T0, "user_role")
           d1 == Schema(3, R1, C0, {}, T0, "user_role")
           d2 == Schema(3, R1, C1, {}, T0, "user_role")
           d3 == Schema(3, R1, C2, {}, T0, "user_role")
<1>1. R1 = RelationsAt(2) /\ C2 = ColumnsAt(2)
  BY DEF RelationsAt, ColumnsAt, Since
<1>2. T0 = TypesAt(2)
  BY DEF TypesAt, LabelsAt, Since
<1>3. /\ s[1] = Drop("email_verification_tokens", I1)
      /\ s[2] = DropColumn("session_version") /\ s[3] = DropColumn("email_verified")
  BY DEF Downgrade003
<1>4. /\ "email_verification_tokens" \in R0
      /\ \A x \in I1 : x \in R0
      /\ "session_version" \in C0 /\ "email_verified" \in C1
  BY DEF RelationsAt, ColumnsAt, Since
<1>5. /\ R1 = R0 \ ({"email_verification_tokens"} \cup I1)
      /\ C1 = C0 \ {"session_version"} /\ C2 = C1 \ {"email_verified"}
  OBVIOUS
<1>6. /\ Len(s) = 3 /\ SchemaAt(2).revision = 2
  BY Lengths, Restamped, SchemaIs DEF Newest
<1> HIDE DEF s, R0, C0, T0, I1, R1, C1, C2
<1>7. /\ Ready(s[1], d0) /\ Ready(s[2], d1) /\ Ready(s[3], d2)
  <2>1. Ready(Drop("email_verification_tokens", I1), d0)
    BY <1>4, TableNames, CanDrop
  <2>2. Ready(DropColumn("session_version"), d1)
    BY <1>4, CanChangeColumn
  <2>3. Ready(DropColumn("email_verified"), d2)
    BY <1>4, CanChangeColumn
  <2> QED BY <1>3, <2>1, <2>2, <2>3
<1>8. /\ Apply(s[1], d0) = d1 /\ Apply(s[2], d1) = d2 /\ Apply(s[3], d2) = d3
  <2>1. Apply(Drop("email_verification_tokens", I1), d0) = d1
    BY <1>5 DEF Apply, Schema, Dropped, Drop
  <2>2. Apply(DropColumn("session_version"), d1) = d2
    BY <1>5 DEF Apply, Schema, DropColumn, WithColumn
  <2>3. Apply(DropColumn("email_verified"), d2) = d3
    BY <1>5 DEF Apply, Schema, DropColumn, WithColumn
  <2> QED BY <1>3, <2>1, <2>2, <2>3
<1>9. [d3 EXCEPT !.revision = 2] = SchemaAt(2) /\ SchemaAt(3) = d0
  BY <1>1, <1>2, Restamped, SchemaIs DEF Newest, R0, C0, T0
<1> HIDE DEF d0, d1, d2, d3
<1> QED
  BY <1>6, <1>7, <1>8, <1>9
     DEF Runs, Ran, Ran1, Ran2, Ran3, s

LEMMA RunsUpgrade004 == Runs(Upgrade004, SchemaAt(3), SchemaAt(4))
<1> DEFINE s == Upgrade004
           R0 == RelationsAt(3)
           C0 == ColumnsAt(3)
           T0 == TypesAt(3)
           I1 == {"ix_email_otps_user_id", "ix_email_otps_code_hash"}
           R1 == R0 \cup {"email_otps"} \cup I1
           d0 == Schema(3, R0, C0, {}, T0, "user_role")
           d1 == Schema(3, R1, C0, {}, T0, "user_role")
<1>1. R1 = RelationsAt(4) /\ C0 = ColumnsAt(4)
  BY DEF RelationsAt, ColumnsAt, Since
<1>2. T0 = TypesAt(4)
  BY DEF TypesAt, LabelsAt, Since
<1>3. s[1] = Create("email_otps", I1)
  BY DEF Upgrade004
<1>4. /\ "email_otps" \notin R0
      /\ \A x \in I1 : x \notin R0
      /\ "users" \in R0
  BY DEF RelationsAt, ColumnsAt, Since
<1>5. R1 = R0 \cup {"email_otps"} \cup I1
  OBVIOUS
<1>6. /\ Len(s) = 1 /\ SchemaAt(4).revision = 4
  BY Lengths, Restamped, SchemaIs DEF Newest
<1> HIDE DEF s, R0, C0, T0, I1, R1
<1>7. Ready(s[1], d0)
  <2>1. Ready(Create("email_otps", I1), d0)
    BY <1>4, TableNames, CanCreate
  <2> QED BY <1>3, <2>1
<1>8. Apply(s[1], d0) = d1
  <2>1. Apply(Create("email_otps", I1), d0) = d1
    BY <1>5 DEF Apply, Schema, Created, Create
  <2> QED BY <1>3, <2>1
<1>9. [d1 EXCEPT !.revision = 4] = SchemaAt(4) /\ SchemaAt(3) = d0
  BY <1>1, <1>2, Restamped, SchemaIs DEF Newest, R0, C0, T0
<1> HIDE DEF d0, d1
<1> QED
  BY <1>6, <1>7, <1>8, <1>9
     DEF Runs, Ran, Ran1, s

LEMMA RunsDowngrade004 == Runs(Downgrade004, SchemaAt(4), SchemaAt(3))
<1> DEFINE s == Downgrade004
           R0 == RelationsAt(4)
           C0 == ColumnsAt(4)
           T0 == TypesAt(4)
           I1 == {"ix_email_otps_user_id", "ix_email_otps_code_hash"}
           R1 == R0 \ ({"email_otps"} \cup I1)
           d0 == Schema(4, R0, C0, {}, T0, "user_role")
           d1 == Schema(4, R1, C0, {}, T0, "user_role")
<1>1. R1 = RelationsAt(3) /\ C0 = ColumnsAt(3)
  BY DEF RelationsAt, ColumnsAt, Since
<1>2. T0 = TypesAt(3)
  BY DEF TypesAt, LabelsAt, Since
<1>3. s[1] = Drop("email_otps", I1)
  BY DEF Downgrade004
<1>4. /\ "email_otps" \in R0
      /\ \A x \in I1 : x \in R0
  BY DEF RelationsAt, ColumnsAt, Since
<1>5. R1 = R0 \ ({"email_otps"} \cup I1)
  OBVIOUS
<1>6. /\ Len(s) = 1 /\ SchemaAt(3).revision = 3
  BY Lengths, Restamped, SchemaIs DEF Newest
<1> HIDE DEF s, R0, C0, T0, I1, R1
<1>7. Ready(s[1], d0)
  <2>1. Ready(Drop("email_otps", I1), d0)
    BY <1>4, TableNames, CanDrop
  <2> QED BY <1>3, <2>1
<1>8. Apply(s[1], d0) = d1
  <2>1. Apply(Drop("email_otps", I1), d0) = d1
    BY <1>5 DEF Apply, Schema, Dropped, Drop
  <2> QED BY <1>3, <2>1
<1>9. [d1 EXCEPT !.revision = 3] = SchemaAt(3) /\ SchemaAt(4) = d0
  BY <1>1, <1>2, Restamped, SchemaIs DEF Newest, R0, C0, T0
<1> HIDE DEF d0, d1
<1> QED
  BY <1>6, <1>7, <1>8, <1>9
     DEF Runs, Ran, Ran1, s

LEMMA RunsUpgrade005 == Runs(Upgrade005, SchemaAt(4), SchemaAt(5))
<1> DEFINE s == Upgrade005
           R0 == RelationsAt(4)
           C0 == ColumnsAt(4)
           T0 == TypesAt(4)
           C1 == C0 \cup {"is_instructor"}
           F1 == {} \cup {"is_instructor"}
           F2 == F1 \ {"is_instructor"}
           T1 == [T0 EXCEPT !["user_role_new"] = NewRoles]
           T2 == [T1 EXCEPT !["user_role"] = {}]
           T3 == [T2 EXCEPT !["user_role"] = T2["user_role_new"], !["user_role_new"] = {}]
           d0 == Schema(4, R0, C0, {}, T0, "user_role")
           d1 == Schema(4, R0, C1, F1, T0, "user_role")
           d2 == Schema(4, R0, C1, F1, T0, "user_role")
           d3 == Schema(4, R0, C1, F2, T0, "user_role")
           d4 == Schema(4, R0, C1, F2, T1, "user_role")
           d5 == Schema(4, R0, C1, F2, T1, "user_role_new")
           d6 == Schema(4, R0, C1, F2, T2, "user_role_new")
           d7 == Schema(4, R0, C1, F2, T3, "user_role")
<1>1. R0 = RelationsAt(5) /\ C1 = ColumnsAt(5)
  BY DEF RelationsAt, ColumnsAt, Since
<1>2. T3 = TypesAt(5)
  <2>1. \A t \in Types : T3[t] = TypesAt(5)[t]
    <3>1. \A t \in RoleTypes : T3[t] = TypesAt(5)[t]
      BY LabelsOf, TypeNames DEF RoleTypes, ProfileTypes, Newest
    <3>2. \A t \in ProfileTypes : T3[t] = TypesAt(5)[t]
      BY LabelsOf, TypeNames DEF RoleTypes, ProfileTypes, Newest
    <3> QED BY <3>1, <3>2 DEF Types
  <2> QED BY <2>1 DEF TypesAt
<1>3. F2 = {}
  OBVIOUS
<1>4. /\ s[1] = AddColumn("is_instructor", FALSE) /\ s[2] = FlagInstructors
      /\ s[3] = DropDefault("is_instructor")
      /\ s[4] = CreateType("user_role_new", NewRoles)
      /\ s[5] = ConvertRole("user_role_new") /\ s[6] = DropType("user_role")
      /\ s[7] = RenameType("user_role_new", "user_role")
  BY DEF Upgrade005
<1>5. /\ "is_instructor" \notin C0 /\ "users" \in R0 /\ "is_instructor" \in C1
  BY DEF RelationsAt, ColumnsAt, Since
<1>6. /\ C1 = C0 \cup {"is_instructor"} /\ F1 = {} \cup {"is_instructor"}
      /\ F2 = F1 \ {"is_instructor"} /\ T1 = [T0 EXCEPT !["user_role_new"] = NewRoles]
      /\ T2 = [T1 EXCEPT !["user_role"] = {}]
      /\ T3 = [T2 EXCEPT !["user_role"] = T2["user_role_new"], !["user_role_new"] = {}]
  OBVIOUS
<1>7. /\ Len(s) = 7 /\ SchemaAt(5).revision = 5
  BY Lengths, Restamped, SchemaIs DEF Newest
<1> HIDE DEF s, R0, C0, T0, C1, F1, F2, T1, T2, T3
<1>8. /\ T0["user_role"] = OldRoles /\ T0["user_role_new"] = {}
      /\ T1["user_role"] = OldRoles /\ T1["user_role_new"] = NewRoles
      /\ T1["user_role"] # {} /\ T2["user_role_new"] # {} /\ T2["user_role"] = {}
  BY <1>2, <1>6, LabelsOf, SomeLabels, TypeNames DEF T0, Newest, ProfileTypes
<1>9. /\ Ready(s[1], d0) /\ Ready(s[2], d1) /\ Ready(s[3], d2) /\ Ready(s[4], d3)
      /\ Ready(s[5], d4) /\ Ready(s[6], d5) /\ Ready(s[7], d6)
  <2>1. Ready(AddColumn("is_instructor", FALSE), d0)
    BY <1>5, CanAddColumn
  <2>2. Ready(FlagInstructors, d1)
    BY <1>5, <1>8, SomeLabels, CanFlagInstructors
  <2>3. Ready(DropDefault("is_instructor"), d2)
    BY <1>5, CanChangeColumn
  <2>4. Ready(CreateType("user_role_new", NewRoles), d3)
    BY CanCreateType
  <2>5. Ready(ConvertRole("user_role_new"), d4)
    BY <1>5, <1>8, CanConvertRole
  <2>6. Ready(DropType("user_role"), d5)
    BY <1>5, <1>8, CanDropType DEF ProfileTypes
  <2>7. Ready(RenameType("user_role_new", "user_role"), d6)
    BY <1>8, CanRenameType
  <2> QED BY <1>4, <2>1, <2>2, <2>3, <2>4, <2>5, <2>6, <2>7
<1>10. /\ Apply(s[1], d0) = d1 /\ Apply(s[2], d1) = d2 /\ Apply(s[3], d2) = d3
      /\ Apply(s[4], d3) = d4 /\ Apply(s[5], d4) = d5 /\ Apply(s[6], d5) = d6
      /\ Apply(s[7], d6) = d7
  <2>1. Apply(AddColumn("is_instructor", FALSE), d0) = d1
    BY <1>6, ConstantsOK DEF Apply, Schema, Added, WithColumn, AddColumn
  <2>2. Apply(FlagInstructors, d1) = d2
    BY <1>6 DEF Apply, Schema, FlagInstructors
  <2>3. Apply(DropDefault("is_instructor"), d2) = d3
    BY <1>6 DEF Apply, Schema, DropDefault
  <2>4. Apply(CreateType("user_role_new", NewRoles), d3) = d4
    BY <1>6, <1>8 DEF Apply, Schema, CreateType
  <2>5. Apply(ConvertRole("user_role_new"), d4) = d5
    BY <1>6 DEF Apply, Schema, ConvertRole
  <2>6. Apply(DropType("user_role"), d5) = d6
    BY <1>6 DEF Apply, Schema, DropType
  <2>7. Apply(RenameType("user_role_new", "user_role"), d6) = d7
    BY <1>6 DEF Apply, Schema, RenameType
  <2> QED BY <1>4, <2>1, <2>2, <2>3, <2>4, <2>5, <2>6, <2>7
<1>11. [d7 EXCEPT !.revision = 5] = SchemaAt(5) /\ SchemaAt(4) = d0
  BY <1>1, <1>2, <1>3, Restamped, SchemaIs DEF Newest, R0, C0, T0
<1> HIDE DEF d0, d1, d2, d3, d4, d5, d6, d7
<1> QED
  BY <1>7, <1>9, <1>10, <1>11
     DEF Runs, Ran, Ran1, Ran2, Ran3, Ran4, Ran5, Ran6, Ran7, s

LEMMA RunsDowngrade005 == Runs(Downgrade005, SchemaAt(5), SchemaAt(4))
<1> DEFINE s == Downgrade005
           R0 == RelationsAt(5)
           C0 == ColumnsAt(5)
           T0 == TypesAt(5)
           T1 == [T0 EXCEPT !["user_role_old"] = OldRoles]
           T2 == [T1 EXCEPT !["user_role"] = {}]
           T3 == [T2 EXCEPT !["user_role"] = T2["user_role_old"], !["user_role_old"] = {}]
           C1 == C0 \ {"is_instructor"}
           d0 == Schema(5, R0, C0, {}, T0, "user_role")
           d1 == Schema(5, R0, C0, {}, T1, "user_role")
           d2 == Schema(5, R0, C0, {}, T1, "user_role_old")
           d3 == Schema(5, R0, C0, {}, T2, "user_role_old")
           d4 == Schema(5, R0, C0, {}, T3, "user_role")
           d5 == Schema(5, R0, C1, {}, T3, "user_role")
<1>1. R0 = RelationsAt(4) /\ C1 = ColumnsAt(4)
  BY DEF RelationsAt, ColumnsAt, Since
<1>2. T3 = TypesAt(4)
  <2>1. \A t \in Types : T3[t] = TypesAt(4)[t]
    <3>1. \A t \in RoleTypes : T3[t] = TypesAt(4)[t]
      BY LabelsOf, TypeNames DEF RoleTypes, ProfileTypes, Newest
    <3>2. \A t \in ProfileTypes : T3[t] = TypesAt(4)[t]
      BY LabelsOf, TypeNames DEF RoleTypes, ProfileTypes, Newest
    <3> QED BY <3>1, <3>2 DEF Types
  <2> QED BY <2>1 DEF TypesAt
<1>3. /\ s[1] = CreateType("user_role_old", OldRoles)
      /\ s[2] = ConvertRole("user_role_old") /\ s[3] = DropType("user_role")
      /\ s[4] = RenameType("user_role_old", "user_role")
      /\ s[5] = DropColumn("is_instructor")
  BY DEF Downgrade005
<1>4. "is_instructor" \in C0
  BY DEF RelationsAt, ColumnsAt, Since
<1>5. /\ T1 = [T0 EXCEPT !["user_role_old"] = OldRoles]
      /\ T2 = [T1 EXCEPT !["user_role"] = {}]
      /\ T3 = [T2 EXCEPT !["user_role"] = T2["user_role_old"], !["user_role_old"] = {}]
      /\ C1 = C0 \ {"is_instructor"}
  OBVIOUS
<1>6. /\ Len(s) = 5 /\ SchemaAt(4).revision = 4
  BY Lengths, Restamped, SchemaIs DEF Newest
<1> HIDE DEF s, R0, C0, T0, T1, T2, T3, C1
<1>7. /\ T0["user_role_old"] = {} /\ T1["user_role"] = NewRoles
      /\ T1["user_role_old"] = OldRoles /\ T1["user_role"] # {}
      /\ T2["user_role_old"] # {} /\ T2["user_role"] = {} /\ T3["user_role"] = OldRoles
  BY <1>2, <1>5, LabelsOf, SomeLabels, TypeNames DEF T0, Newest, ProfileTypes
<1>8. /\ Ready(s[1], d0) /\ Ready(s[2], d1) /\ Ready(s[3], d2) /\ Ready(s[4], d3)
      /\ Ready(s[5], d4)
  <2>1. Ready(CreateType("user_role_old", OldRoles), d0)
    BY CanCreateType
  <2>2. Ready(ConvertRole("user_role_old"), d1)
    BY <1>4, <1>7, CanConvertRole
  <2>3. Ready(DropType("user_role"), d2)
    BY <1>4, <1>7, CanDropType DEF ProfileTypes
  <2>4. Ready(RenameType("user_role_old", "user_role"), d3)
    BY <1>7, CanRenameType
  <2>5. Ready(DropColumn("is_instructor"), d4)
    BY <1>4, <1>7, CanChangeColumn
  <2> QED BY <1>3, <2>1, <2>2, <2>3, <2>4, <2>5
<1>9. /\ Apply(s[1], d0) = d1 /\ Apply(s[2], d1) = d2 /\ Apply(s[3], d2) = d3
      /\ Apply(s[4], d3) = d4 /\ Apply(s[5], d4) = d5
  <2>1. Apply(CreateType("user_role_old", OldRoles), d0) = d1
    BY <1>5, <1>7 DEF Apply, Schema, CreateType
  <2>2. Apply(ConvertRole("user_role_old"), d1) = d2
    BY <1>5 DEF Apply, Schema, ConvertRole
  <2>3. Apply(DropType("user_role"), d2) = d3
    BY <1>5 DEF Apply, Schema, DropType
  <2>4. Apply(RenameType("user_role_old", "user_role"), d3) = d4
    BY <1>5 DEF Apply, Schema, RenameType
  <2>5. Apply(DropColumn("is_instructor"), d4) = d5
    BY <1>5 DEF Apply, Schema, DropColumn, WithColumn
  <2> QED BY <1>3, <2>1, <2>2, <2>3, <2>4, <2>5
<1>10. [d5 EXCEPT !.revision = 4] = SchemaAt(4) /\ SchemaAt(5) = d0
  BY <1>1, <1>2, Restamped, SchemaIs DEF Newest, R0, C0, T0
<1> HIDE DEF d0, d1, d2, d3, d4, d5
<1> QED
  BY <1>6, <1>8, <1>9, <1>10
     DEF Runs, Ran, Ran1, Ran2, Ran3, Ran4, Ran5, s

LEMMA RunsUpgrade006 == Runs(Upgrade006, SchemaAt(5), SchemaAt(6))
<1> DEFINE s == Upgrade006
           R0 == RelationsAt(5)
           C0 == ColumnsAt(5)
           T0 == TypesAt(5)
           T1 == [T0 EXCEPT !["teaching_experience"] = DeclaredLabels["teaching_experience"]]
           T2 == [T1 EXCEPT !["video_experience"] = DeclaredLabels["video_experience"]]
           T3 == [T2 EXCEPT !["audience_size"] = DeclaredLabels["audience_size"]]
           T4 == [T3 EXCEPT !["teaching_topic"] = DeclaredLabels["teaching_topic"]]
           R1 == R0 \cup {"instructors"}
           d0 == Schema(5, R0, C0, {}, T0, "user_role")
           d1 == Schema(5, R0, C0, {}, T1, "user_role")
           d2 == Schema(5, R0, C0, {}, T2, "user_role")
           d3 == Schema(5, R0, C0, {}, T3, "user_role")
           d4 == Schema(5, R0, C0, {}, T4, "user_role")
           d5 == Schema(5, R1, C0, {}, T4, "user_role")
<1>1. R1 = RelationsAt(6) /\ C0 = ColumnsAt(6)
  BY DEF RelationsAt, ColumnsAt, Since
<1>2. T4 = TypesAt(6)
  <2>1. \A t \in Types : T4[t] = TypesAt(6)[t]
    <3>1. \A t \in RoleTypes : T4[t] = TypesAt(6)[t]
      BY LabelsOf, TypeNames DEF RoleTypes, ProfileTypes, Newest
    <3>2. \A t \in ProfileTypes : T4[t] = TypesAt(6)[t]
      BY LabelsOf, TypeNames DEF RoleTypes, ProfileTypes, Newest
    <3> QED BY <3>1, <3>2 DEF Types
  <2> QED BY <2>1 DEF TypesAt
<1>3. /\ s[1] = CreateType("teaching_experience", DeclaredLabels["teaching_experience"])
      /\ s[2] = CreateType("video_experience", DeclaredLabels["video_experience"])
      /\ s[3] = CreateType("audience_size", DeclaredLabels["audience_size"])
      /\ s[4] = CreateType("teaching_topic", DeclaredLabels["teaching_topic"])
      /\ s[5] = Create("instructors", {})
  BY Declared DEF Upgrade006
<1>4. /\ "instructors" \notin R0 /\ "users" \in R0
  BY DEF RelationsAt, ColumnsAt, Since
<1>5. /\ T1 = [T0 EXCEPT !["teaching_experience"] = DeclaredLabels["teaching_experience"]]
      /\ T2 = [T1 EXCEPT !["video_experience"] = DeclaredLabels["video_experience"]]
      /\ T3 = [T2 EXCEPT !["audience_size"] = DeclaredLabels["audience_size"]]
      /\ T4 = [T3 EXCEPT !["teaching_topic"] = DeclaredLabels["teaching_topic"]]
      /\ R1 = R0 \cup {"instructors"}
  OBVIOUS
<1>6. /\ Len(s) = 5 /\ SchemaAt(6).revision = 6
  BY Lengths, Restamped, SchemaIs DEF Newest
<1> HIDE DEF s, R0, C0, T0, T1, T2, T3, T4, R1
<1>7. /\ T0["teaching_experience"] = {} /\ T1["video_experience"] = {}
      /\ T2["audience_size"] = {} /\ T3["teaching_topic"] = {}
      /\ \A p \in ProfileTypes : T4[p] # {}
  BY <1>2, <1>5, LabelsOf, SomeLabels, TypeNames DEF T0, Newest, ProfileTypes
<1>8. /\ Ready(s[1], d0) /\ Ready(s[2], d1) /\ Ready(s[3], d2) /\ Ready(s[4], d3)
      /\ Ready(s[5], d4)
  <2>1. Ready(CreateType("teaching_experience", DeclaredLabels["teaching_experience"]), d0)
    BY CanCreateType
  <2>2. Ready(CreateType("video_experience", DeclaredLabels["video_experience"]), d1)
    BY CanCreateType
  <2>3. Ready(CreateType("audience_size", DeclaredLabels["audience_size"]), d2)
    BY CanCreateType
  <2>4. Ready(CreateType("teaching_topic", DeclaredLabels["teaching_topic"]), d3)
    BY CanCreateType
  <2>5. Ready(Create("instructors", {}), d4)
    BY <1>4, <1>7, TableNames, CanCreate
  <2> QED BY <1>3, <2>1, <2>2, <2>3, <2>4, <2>5
<1>9. /\ Apply(s[1], d0) = d1 /\ Apply(s[2], d1) = d2 /\ Apply(s[3], d2) = d3
      /\ Apply(s[4], d3) = d4 /\ Apply(s[5], d4) = d5
  <2>1. Apply(CreateType("teaching_experience", DeclaredLabels["teaching_experience"]), d0) = d1
    BY <1>5, <1>7 DEF Apply, Schema, CreateType
  <2>2. Apply(CreateType("video_experience", DeclaredLabels["video_experience"]), d1) = d2
    BY <1>5, <1>7 DEF Apply, Schema, CreateType
  <2>3. Apply(CreateType("audience_size", DeclaredLabels["audience_size"]), d2) = d3
    BY <1>5, <1>7 DEF Apply, Schema, CreateType
  <2>4. Apply(CreateType("teaching_topic", DeclaredLabels["teaching_topic"]), d3) = d4
    BY <1>5, <1>7 DEF Apply, Schema, CreateType
  <2>5. Apply(Create("instructors", {}), d4) = d5
    BY <1>5 DEF Apply, Schema, Created, Create
  <2> QED BY <1>3, <2>1, <2>2, <2>3, <2>4, <2>5
<1>10. [d5 EXCEPT !.revision = 6] = SchemaAt(6) /\ SchemaAt(5) = d0
  BY <1>1, <1>2, Restamped, SchemaIs DEF Newest, R0, C0, T0
<1> HIDE DEF d0, d1, d2, d3, d4, d5
<1> QED
  BY <1>6, <1>8, <1>9, <1>10
     DEF Runs, Ran, Ran1, Ran2, Ran3, Ran4, Ran5, s

LEMMA RunsDowngrade006 == Runs(Downgrade006, SchemaAt(6), SchemaAt(5))
<1> DEFINE s == Downgrade006
           R0 == RelationsAt(6)
           C0 == ColumnsAt(6)
           T0 == TypesAt(6)
           R1 == R0 \ {"instructors"}
           T1 == [T0 EXCEPT !["teaching_topic"] = {}]
           T2 == [T1 EXCEPT !["audience_size"] = {}]
           T3 == [T2 EXCEPT !["video_experience"] = {}]
           T4 == [T3 EXCEPT !["teaching_experience"] = {}]
           d0 == Schema(6, R0, C0, {}, T0, "user_role")
           d1 == Schema(6, R1, C0, {}, T0, "user_role")
           d2 == Schema(6, R1, C0, {}, T1, "user_role")
           d3 == Schema(6, R1, C0, {}, T2, "user_role")
           d4 == Schema(6, R1, C0, {}, T3, "user_role")
           d5 == Schema(6, R1, C0, {}, T4, "user_role")
<1>1. R1 = RelationsAt(5) /\ C0 = ColumnsAt(5)
  BY DEF RelationsAt, ColumnsAt, Since
<1>2. T4 = TypesAt(5)
  <2>1. \A t \in Types : T4[t] = TypesAt(5)[t]
    <3>1. \A t \in RoleTypes : T4[t] = TypesAt(5)[t]
      BY LabelsOf, TypeNames DEF RoleTypes, ProfileTypes, Newest
    <3>2. \A t \in ProfileTypes : T4[t] = TypesAt(5)[t]
      BY LabelsOf, TypeNames DEF RoleTypes, ProfileTypes, Newest
    <3> QED BY <3>1, <3>2 DEF Types
  <2> QED BY <2>1 DEF TypesAt
<1>3. /\ s[1] = Drop("instructors", {}) /\ s[2] = DropTypeIf("teaching_topic")
      /\ s[3] = DropTypeIf("audience_size") /\ s[4] = DropTypeIf("video_experience")
      /\ s[5] = DropTypeIf("teaching_experience")
  BY DEF Downgrade006
<1>4. /\ "instructors" \in R0 /\ "instructors" \notin R1
  BY DEF RelationsAt, ColumnsAt, Since
<1>5. /\ R1 = R0 \ {"instructors"} /\ T1 = [T0 EXCEPT !["teaching_topic"] = {}]
      /\ T2 = [T1 EXCEPT !["audience_size"] = {}]
      /\ T3 = [T2 EXCEPT !["video_experience"] = {}]
      /\ T4 = [T3 EXCEPT !["teaching_experience"] = {}]
  OBVIOUS
<1>6. /\ Len(s) = 5 /\ SchemaAt(5).revision = 5
  BY Lengths, Restamped, SchemaIs DEF Newest
<1> HIDE DEF s, R0, C0, T0, R1, T1, T2, T3, T4
<1>7. /\ Ready(s[1], d0) /\ Ready(s[2], d1) /\ Ready(s[3], d2) /\ Ready(s[4], d3)
      /\ Ready(s[5], d4)
  <2>1. Ready(Drop("instructors", {}), d0)
    BY <1>4, TableNames, CanDrop
  <2>2. Ready(DropTypeIf("teaching_topic"), d1)
    BY <1>4, CanDropType DEF ProfileTypes
  <2>3. Ready(DropTypeIf("audience_size"), d2)
    BY <1>4, CanDropType DEF ProfileTypes
  <2>4. Ready(DropTypeIf("video_experience"), d3)
    BY <1>4, CanDropType DEF ProfileTypes
  <2>5. Ready(DropTypeIf("teaching_experience"), d4)
    BY <1>4, CanDropType DEF ProfileTypes
  <2> QED BY <1>3, <2>1, <2>2, <2>3, <2>4, <2>5
<1>8. /\ Apply(s[1], d0) = d1 /\ Apply(s[2], d1) = d2 /\ Apply(s[3], d2) = d3
      /\ Apply(s[4], d3) = d4 /\ Apply(s[5], d4) = d5
  <2>1. Apply(Drop("instructors", {}), d0) = d1
    BY <1>5 DEF Apply, Schema, Dropped, Drop
  <2>2. Apply(DropTypeIf("teaching_topic"), d1) = d2
    BY <1>5 DEF Apply, Schema, DropTypeIf
  <2>3. Apply(DropTypeIf("audience_size"), d2) = d3
    BY <1>5 DEF Apply, Schema, DropTypeIf
  <2>4. Apply(DropTypeIf("video_experience"), d3) = d4
    BY <1>5 DEF Apply, Schema, DropTypeIf
  <2>5. Apply(DropTypeIf("teaching_experience"), d4) = d5
    BY <1>5 DEF Apply, Schema, DropTypeIf
  <2> QED BY <1>3, <2>1, <2>2, <2>3, <2>4, <2>5
<1>9. [d5 EXCEPT !.revision = 5] = SchemaAt(5) /\ SchemaAt(6) = d0
  BY <1>1, <1>2, Restamped, SchemaIs DEF Newest, R0, C0, T0
<1> HIDE DEF d0, d1, d2, d3, d4, d5
<1> QED
  BY <1>6, <1>7, <1>8, <1>9
     DEF Runs, Ran, Ran1, Ran2, Ran3, Ran4, Ran5, s

-----------------------------------------------------------------------------
(* Operations on databases with rows.                                      *)
Kinds == {"create_type", "drop_type", "rename_type", "create", "drop", "add_column",
          "drop_default", "drop_column", "flag_instructors", "convert_role"}

LEMMA OpKinds == ASSUME NEW o \in Ops PROVE o.op \in Kinds
BY DEF Ops, Kinds, AddNullable, AddColumn, FlagInstructors, ConvertRole

(* Forgetting the rows commutes with every operation.                      *)
LEMMA ApplySchema ==
    ASSUME NEW o \in Ops, NEW d \in Databases
    PROVE  SchemaOf(Apply(o, d)) = Apply(o, SchemaOf(d))
<1>1. CASE o.op = "create"
  <2>1. SchemaOf(Created(o, d)) = Created(o, SchemaOf(d))
    BY DEF Databases, SchemaOf, Empty, Created
  <2> QED BY <1>1, <2>1 DEF Apply
<1>2. CASE o.op = "drop"
  <2>1. SchemaOf(Dropped(o, d)) = Dropped(o, SchemaOf(d))
    BY DEF Databases, SchemaOf, Empty, Dropped
  <2> QED BY <1>2, <2>1 DEF Apply
<1>3. CASE o.op = "add_column"
  <2>1. SchemaOf(Added(o, d)) = Added(o, SchemaOf(d))
    BY DEF Databases, SchemaOf, Empty, Added, WithColumn
  <2> QED BY <1>3, <2>1 DEF Apply
<1> USE DEF Databases, SchemaOf, Empty, Apply
<1>4. CASE o.op = "create_type" BY <1>4
<1>5. CASE o.op = "drop_type" BY <1>5
<1>6. CASE o.op = "rename_type" BY <1>6
<1>7. CASE o.op = "drop_default" BY <1>7
<1>8. CASE o.op = "drop_column" BY <1>8 DEF WithColumn
<1>9. CASE o.op = "flag_instructors" BY <1>9
<1>10. CASE o.op = "convert_role" BY <1>10
<1> QED
  BY <1>1, <1>2, <1>3, <1>4, <1>5, <1>6, <1>7, <1>8, <1>9, <1>10, OpKinds DEF Kinds

LEMMA OpFields ==
    ASSUME NEW o \in Ops
    PROVE  /\ o.op = "create_type" => o.name \in Types /\ o.labels \in SUBSET Labels
           /\ o.op = "drop_type" => o.name \in Types
           /\ o.op = "rename_type" => o.name \in RoleTypes /\ o.to \in RoleTypes
           /\ o.op \in {"create", "drop"} => o.table \in Tables /\ o.indexes \in SUBSET Indexes
           /\ o.op = "add_column" => /\ o.column \in DeclaredColumns
                                     /\ o.nullable \/ o.value # None
                                     /\ o.column = "is_instructor" => o.value = FALSE
           /\ o.op \in {"drop_default", "drop_column"} => o.column \in DeclaredColumns
           /\ o.op = "convert_role" => o.to \in {"user_role_new", "user_role_old"}
<1>1. \/ o \in [op : {"create_type"}, name : Types, labels : SUBSET Labels]
      \/ o \in [op : {"drop_type"}, name : Types, checkfirst : BOOLEAN]
      \/ o \in [op : {"rename_type"}, name : RoleTypes, to : RoleTypes]
      \/ o \in [op : {"create", "drop"}, table : Tables, indexes : SUBSET Indexes]
      \/ o \in {AddNullable("phone_number"), AddColumn("email_verified", TRUE),
                AddColumn("session_version", 0), AddColumn("is_instructor", FALSE)}
      \/ o \in [op : {"drop_default", "drop_column"}, column : DeclaredColumns]
      \/ o \in {FlagInstructors, ConvertRole("user_role_new"), ConvertRole("user_role_old")}
  BY DEF Ops
<1>2. CASE o \in {AddNullable("phone_number"), AddColumn("email_verified", TRUE),
                  AddColumn("session_version", 0), AddColumn("is_instructor", FALSE)}
  <2>1. o.op = "add_column" /\ o.column \in DeclaredColumns
    BY <1>2, ColumnNames DEF AddNullable, AddColumn
  <2>2. o.column = "is_instructor" => o.value = FALSE
    BY <1>2 DEF AddNullable, AddColumn
  <2>3. o.nullable \/ o.value # None
    <3>1. None # TRUE /\ None # FALSE /\ None # 0
      BY ConstantsOK
    <3>2. \/ o.nullable = TRUE \/ o.value = TRUE \/ o.value = 0 \/ o.value = FALSE
      BY <1>2 DEF AddNullable, AddColumn
    <3> QED BY <3>1, <3>2
  <2> QED BY <2>1, <2>2, <2>3
<1>3. CASE o \in {FlagInstructors, ConvertRole("user_role_new"), ConvertRole("user_role_old")}
  BY <1>3 DEF FlagInstructors, ConvertRole
<1>4. CASE o \in [op : {"create_type"}, name : Types, labels : SUBSET Labels] BY <1>4
<1>5. CASE o \in [op : {"drop_type"}, name : Types, checkfirst : BOOLEAN] BY <1>5
<1>6. CASE o \in [op : {"rename_type"}, name : RoleTypes, to : RoleTypes] BY <1>6
<1>7. CASE o \in [op : {"create", "drop"}, table : Tables, indexes : SUBSET Indexes] BY <1>7
<1>8. CASE o \in [op : {"drop_default", "drop_column"}, column : DeclaredColumns] BY <1>8
<1> QED BY <1>1, <1>2, <1>3, <1>4, <1>5, <1>6, <1>7, <1>8

(* Every operation keeps a database well-typed.                            *)
LEMMA ApplyType ==
    ASSUME NEW o \in Ops, NEW d \in Databases
    PROVE  Apply(o, d) \in Databases
<1>1. CASE o.op = "create_type" BY <1>1, OpFields DEF Databases, Apply
<1>2. CASE o.op = "drop_type" BY <1>2, OpFields DEF Databases, Apply
<1>3. CASE o.op = "rename_type" BY <1>3, OpFields DEF Databases, Apply, Types
<1>4. CASE o.op = "create"
  <2>1. Created(o, d) \in Databases
    BY <1>4, OpFields, TypeNames DEF Databases, Created
  <2> QED BY <1>4, <2>1 DEF Apply
<1>5. CASE o.op = "drop"
  <2>1. Dropped(o, d) \in Databases
    BY <1>5, OpFields DEF Databases, Dropped
  <2> QED BY <1>5, <2>1 DEF Apply
<1>6. CASE o.op = "add_column"
  <2>1. WithColumn(o, d, o.value) \in [Users -> Row \cup {None}]
    BY <1>6, OpFields DEF Databases, WithColumn, Row
  <2>2. Added(o, d) \in Databases
    BY <1>6, <2>1, OpFields DEF Databases, Added
  <2> QED BY <1>6, <2>2 DEF Apply
<1>7. CASE o.op = "drop_default" BY <1>7, OpFields DEF Databases, Apply
<1>8. CASE o.op = "drop_column"
  <2>1. WithColumn(o, d, None) \in [Users -> Row \cup {None}]
    BY <1>8, OpFields DEF Databases, WithColumn, Row
  <2> QED BY <1>8, <2>1, OpFields DEF Databases, Apply
<1>9. CASE o.op = "flag_instructors" BY <1>9 DEF Databases, Apply, Row
<1>10. CASE o.op = "convert_role"
  <2>1. ASSUME NEW u \in Users, d.rows[u] # None
        PROVE  [d.rows[u] EXCEPT !.role = Converted(d.rows[u], o.to)] \in Row
    BY <2>1 DEF Databases, Row, Converted, Roles, OldRoles, NewRoles
  <2> QED BY <1>10, <2>1, OpFields, TypeNames DEF Databases, Apply
<1> QED
  BY <1>1, <1>2, <1>3, <1>4, <1>5, <1>6, <1>7, <1>8, <1>9, <1>10, OpKinds DEF Kinds

(* What the operations that rewrite rows make of them.                     *)
LEMMA ColumnRows ==
    ASSUME NEW o \in Ops, NEW d \in Databases, NEW u \in Users,
           o.op \in {"add_column", "drop_column"}, o.column = "is_instructor"
    PROVE  LET e == Apply(o, d)
           IN  /\ d.rows[u] = None => e.rows[u] = None
               /\ d.rows[u] # None =>
                      /\ e.rows[u] # None /\ e.rows[u].role = d.rows[u].role
                      /\ e.rows[u].is_instructor =
                             IF o.op = "add_column" THEN o.value ELSE None
<1> DEFINE e == Apply(o, d)
           v == IF o.op = "add_column" THEN o.value ELSE None
<1>1. v \in BOOLEAN \cup {None}
  BY OpFields
<1>2. e.rows = WithColumn(o, d, v)
  BY DEF Databases, Apply, Added
<1> HIDE DEF v
<1>3. e.rows[u] = IF d.rows[u] = None THEN None
                  ELSE [d.rows[u] EXCEPT !.is_instructor = v]
  BY <1>2 DEF WithColumn
<1>4. ASSUME d.rows[u] # None
      PROVE  d.rows[u] \in Row /\ [d.rows[u] EXCEPT !.is_instructor = v] \in Row
  BY <1>1, <1>4 DEF Databases, Row
<1> QED BY <1>3, <1>4, ConstantsOK DEF v, Row

LEMMA FlaggedRows ==
    ASSUME NEW o, o.op = "flag_instructors", NEW d \in Databases, NEW u \in Users
    PROVE  LET e == Apply(o, d)
           IN  /\ d.rows[u] = None => e.rows[u] = None
               /\ d.rows[u] # None =>
                      /\ e.rows[u] # None /\ e.rows[u].role = d.rows[u].role
                      /\ IF d.rows[u].role = "INSTRUCTOR" THEN e.rows[u].is_instructor = TRUE
                         ELSE e.rows[u].is_instructor = d.rows[u].is_instructor
<1> DEFINE e == Apply(o, d)
<1>1. e.rows[u] = IF d.rows[u] # None /\ d.rows[u].role = "INSTRUCTOR"
                  THEN [d.rows[u] EXCEPT !.is_instructor = TRUE] ELSE d.rows[u]
  BY DEF Databases, Apply
<1>2. d.rows[u] # None => d.rows[u] \in Row
  BY DEF Databases
<1>3. d.rows[u] # None => [d.rows[u] EXCEPT !.is_instructor = TRUE] \in Row
  BY <1>2 DEF Row
<1> QED BY <1>1, <1>2, <1>3, ConstantsOK DEF Row

LEMMA ConvertedRows ==
    ASSUME NEW o, o.op = "convert_role", NEW d \in Databases, NEW u \in Users
    PROVE  LET e == Apply(o, d)
           IN  /\ d.rows[u] = None => e.rows[u] = None
               /\ d.rows[u] # None =>
                      /\ e.rows[u] # None /\ e.rows[u].role = Converted(d.rows[u], o.to)
                      /\ e.rows[u].is_instructor = d.rows[u].is_instructor
<1> DEFINE e == Apply(o, d)
<1>1. e.rows[u] = IF d.rows[u] = None THEN None
                  ELSE [d.rows[u] EXCEPT !.role = Converted(d.rows[u], o.to)]
  BY DEF Databases, Apply
<1>2. d.rows[u] # None => d.rows[u] \in Row
  BY DEF Databases
<1>3. d.rows[u] # None => [d.rows[u] EXCEPT !.role = Converted(d.rows[u], o.to)] \in Row
  BY <1>2 DEF Row, Converted, Roles, OldRoles, NewRoles
<1> QED BY <1>1, <1>2, <1>3, ConstantsOK DEF Row

LEMMA Apart ==
    /\ "users" \in Tables /\ "instructors" \in OwnedTables /\ "users" \notin OwnedTables
    /\ "users" \notin Indexes /\ "instructors" \notin Indexes
BY DEF Tables, OwnedTables, Indexes

(* An operation that PostgreSQL accepts keeps rows that fit the schema.    *)
LEMMA ApplySound ==
    ASSUME NEW o \in Ops, NEW d, Sound(d), Possible(o, d)
    PROVE  Sound(Apply(o, d))
<1> DEFINE e == Apply(o, d)
<1>1. e \in Databases /\ d \in Databases
  BY ApplyType DEF Sound
<1>2. CASE o.op = "create_type"
  <2>1. /\ e.rows = d.rows /\ e.relations = d.relations /\ e.columns = d.columns
        /\ e.roleType = d.roleType /\ e.profiles = d.profiles
        /\ \A t \in Types : d.types[t] # {} => e.types[t] = d.types[t]
    BY <1>1, <1>2 DEF Databases, Apply
  <2>2. ASSUME NEW u \in Accounts(d) PROVE RowFits(d.rows[u], e)
    BY <2>1, TypeNames DEF Sound, RowFits
  <2> QED BY <1>1, <2>1, <2>2 DEF Sound, Accounts
<1>3. CASE o.op = "drop_type"
  <2>1. /\ e.rows = d.rows /\ e.relations = d.relations /\ e.columns = d.columns
        /\ e.roleType = d.roleType /\ e.profiles = d.profiles
        /\ \A t \in Types : t # o.name => e.types[t] = d.types[t]
        /\ d.roleType # o.name
    BY <1>1, <1>3 DEF Databases, Apply, Possible, InUse
  <2>2. ASSUME NEW u \in Accounts(d) PROVE RowFits(d.rows[u], e)
    BY <2>1, TypeNames DEF Sound, RowFits
  <2> QED BY <1>1, <2>1, <2>2 DEF Sound, Accounts
<1>4. CASE o.op = "rename_type"
  <2>1. /\ e.rows = d.rows /\ e.relations = d.relations /\ e.columns = d.columns
        /\ e.profiles = d.profiles
        /\ e.roleType = IF d.roleType = o.name THEN o.to ELSE d.roleType
        /\ d.types[o.to] = {} /\ d.types[o.name] # {}
    BY <1>1, <1>4 DEF Databases, Apply, Possible
  <2>2. /\ e.types[o.to] = d.types[o.name]
        /\ \A t \in Types : t # o.name /\ t # o.to => e.types[t] = d.types[t]
    BY <1>1, <1>4, <2>1, OpFields, TypeNames DEF Databases, Apply
  <2>3. ASSUME NEW u \in Accounts(d) PROVE RowFits(d.rows[u], e)
    BY <1>4, <2>1, <2>2, OpFields, TypeNames DEF Sound, RowFits
  <2> QED BY <1>1, <2>1, <2>3 DEF Sound, Accounts
<1>5. CASE o.op = "create"
  <2>1. /\ e.rows = d.rows /\ e.columns = d.columns /\ e.profiles = d.profiles
        /\ e.types = d.types /\ e.relations = d.relations \cup {o.table} \cup o.indexes
        /\ o.table # "users" => e.roleType = d.roleType
        /\ o.table \notin d.relations
    BY <1>1, <1>5 DEF Databases, Apply, Created, Possible
  <2>2. ASSUME NEW u \in Accounts(d) PROVE RowFits(d.rows[u], e)
    BY <2>1 DEF Sound, RowFits
  <2> QED BY <1>1, <2>1, <2>2 DEF Sound, Accounts
<1>6. CASE o.op = "drop"
  <2>1. /\ e.columns = d.columns /\ e.types = d.types
        /\ e.relations = d.relations \ ({o.table} \cup o.indexes)
        /\ o.table # "users" => e.roleType = d.roleType /\ e.rows = d.rows
        /\ o.table = "users" => Accounts(e) = {} /\ "instructors" \notin d.relations
        /\ e.profiles = IF o.table = "instructors" THEN {} ELSE d.profiles
    BY <1>1, <1>6, Apart DEF Databases, Apply, Dropped, Possible, Accounts
  <2>2. "users" \in d.relations \ e.relations => o.table = "users"
    BY <1>6, <2>1, OpFields, Apart
  <2>3. "instructors" \in d.relations \ e.relations => o.table = "instructors"
    BY <1>6, <2>1, OpFields, Apart
  <2>4. CASE o.table = "users"
    BY <1>1, <2>1, <2>2, <2>3, <2>4 DEF Sound
  <2>5. CASE o.table # "users"
    <3>1. ASSUME NEW u \in Accounts(d) PROVE RowFits(d.rows[u], e)
      BY <2>1, <2>5 DEF Sound, RowFits
    <3> QED BY <1>1, <2>1, <2>2, <2>3, <2>5, <3>1 DEF Sound, Accounts
  <2> QED BY <2>4, <2>5
<1>7. CASE o.op \in {"add_column", "drop_column"} /\ o.column = "is_instructor"
  <2> DEFINE v == IF o.op = "add_column" THEN o.value ELSE None
  <2>1. /\ e.types = d.types /\ e.roleType = d.roleType /\ e.relations = d.relations
        /\ e.profiles = d.profiles /\ e.rows = WithColumn(o, d, v)
        /\ o.op = "add_column" => e.columns = d.columns \cup {"is_instructor"}
        /\ o.op = "drop_column" => e.columns = d.columns \ {"is_instructor"}
    BY <1>1, <1>7 DEF Databases, Apply, Added
  <2>2. o.op = "add_column" => v = FALSE
    BY <1>7, OpFields
  <2>3. v = None <=> "is_instructor" \notin e.columns
    <3>1. None # FALSE
      BY ConstantsOK
    <3> QED BY <1>7, <2>1, <2>2, <3>1
  <2>4. v # TRUE
    <3>1. None # TRUE
      BY ConstantsOK
    <3> QED BY <1>7, <2>2, <3>1
  <2>5. \A u \in Users :
            /\ d.rows[u] = None => e.rows[u] = None
            /\ d.rows[u] # None =>
                   /\ e.rows[u] # None /\ e.rows[u].role = d.rows[u].role
                   /\ e.rows[u].is_instructor = v
    BY <1>1, <1>7, ColumnRows
  <2> HIDE DEF v
  <2>6. Accounts(e) = Accounts(d)
    BY <2>5 DEF Accounts
  <2>7. ASSUME NEW u \in Accounts(e) PROVE RowFits(e.rows[u], e)
    BY <2>1, <2>3, <2>4, <2>5, <2>6, <2>7 DEF Sound, RowFits, Accounts
  <2> QED BY <1>1, <2>1, <2>6, <2>7 DEF Sound
<1>8. CASE o.op \in {"add_column", "drop_column", "drop_default"}
           /\ (o.op = "drop_default" \/ o.column # "is_instructor")
  <2>1. /\ e.types = d.types /\ e.roleType = d.roleType /\ e.relations = d.relations
        /\ e.profiles = d.profiles /\ e.rows = d.rows
        /\ "is_instructor" \in e.columns <=> "is_instructor" \in d.columns
    BY <1>1, <1>8 DEF Databases, Apply, Added, WithColumn
  <2>2. ASSUME NEW u \in Accounts(d) PROVE RowFits(d.rows[u], e)
    BY <2>1 DEF Sound, RowFits
  <2> QED BY <1>1, <2>1, <2>2 DEF Sound, Accounts
<1>9. CASE o.op = "flag_instructors"
  <2>1. /\ e.types = d.types /\ e.roleType = d.roleType /\ e.relations = d.relations
        /\ e.profiles = d.profiles /\ e.columns = d.columns
        /\ "is_instructor" \in d.columns
    BY <1>1, <1>9 DEF Databases, Apply, Possible
  <2>2. \A u \in Users :
            /\ d.rows[u] = None => e.rows[u] = None
            /\ d.rows[u] # None =>
                   /\ e.rows[u] # None /\ e.rows[u].role = d.rows[u].role
                   /\ IF d.rows[u].role = "INSTRUCTOR" THEN e.rows[u].is_instructor = TRUE
                      ELSE e.rows[u].is_instructor = d.rows[u].is_instructor
    BY <1>1, <1>9, FlaggedRows
  <2>3. Accounts(e) = Accounts(d)
    BY <2>2 DEF Accounts
  <2>4. ASSUME NEW u \in Accounts(e) PROVE RowFits(e.rows[u], e)
    <3>1. RowFits(d.rows[u], d)
      BY <2>3, <2>4 DEF Sound
    <3>2. None # TRUE
      BY ConstantsOK
    <3> QED BY <2>1, <2>2, <2>3, <2>4, <3>1, <3>2 DEF RowFits, Accounts
  <2> QED BY <1>1, <2>1, <2>3, <2>4 DEF Sound
<1>10. CASE o.op = "convert_role"
  <2>1. /\ e.types = d.types /\ e.roleType = o.to /\ e.relations = d.relations
        /\ e.profiles = d.profiles /\ e.columns = d.columns
        /\ o.to = "user_role_old" => "is_instructor" \in d.columns
        /\ \A u \in Accounts(d) : Converted(d.rows[u], o.to) \in d.types[o.to]
    BY <1>1, <1>10 DEF Databases, Apply, Possible
  <2>2. \A u \in Users :
            /\ d.rows[u] = None => e.rows[u] = None
            /\ d.rows[u] # None =>
                   /\ e.rows[u] # None /\ e.rows[u].role = Converted(d.rows[u], o.to)
                   /\ e.rows[u].is_instructor = d.rows[u].is_instructor
    BY <1>1, <1>10, ConvertedRows
  <2>3. Accounts(e) = Accounts(d)
    BY <2>2 DEF Accounts
  <2>4. ASSUME NEW u \in Accounts(e) PROVE RowFits(e.rows[u], e)
    <3>1. RowFits(d.rows[u], d) /\ d.rows[u] \in Row
      BY <1>1, <2>3, <2>4 DEF Sound, Accounts, Databases
    <3>2. e.rows[u].role \in e.types[e.roleType] /\ e.roleType \in RoleTypes
      BY <1>10, <2>1, <2>2, <2>3, <2>4, OpFields, TypeNames DEF Accounts
    <3>3. e.rows[u].is_instructor = None <=> "is_instructor" \notin e.columns
      BY <2>1, <2>2, <2>3, <2>4, <3>1 DEF RowFits, Accounts
    <3>4. ASSUME e.rows[u].role = "STUDENT" PROVE e.rows[u].is_instructor # TRUE
      <4>1. Converted(d.rows[u], o.to) = "STUDENT" /\ u \in Users /\ d.rows[u] # None
        BY <2>2, <2>3, <2>4, <3>4 DEF Accounts
      <4>2. \/ d.rows[u].role = "STUDENT"
            \/ /\ o.to = "user_role_old" /\ d.rows[u].role = "USER"
               /\ ~d.rows[u].is_instructor
        BY <1>10, <4>1, OpFields DEF Converted
      <4>3. d.rows[u].is_instructor # TRUE
        BY <3>1, <4>2 DEF RowFits
      <4> QED BY <2>2, <4>1, <4>3
    <3> QED BY <3>2, <3>3, <3>4 DEF RowFits
  <2> QED BY <1>1, <2>1, <2>3, <2>4 DEF Sound
<1> QED
  BY <1>2, <1>3, <1>4, <1>5, <1>6, <1>7, <1>8, <1>9, <1>10, OpKinds DEF Kinds

LEMMA SchemaFields ==
    ASSUME NEW d \in Databases
    PROVE  LET e == SchemaOf(d)
           IN  /\ e.revision = d.revision /\ e.relations = d.relations
               /\ e.columns = d.columns /\ e.defaults = d.defaults
               /\ e.types = d.types /\ e.roleType = d.roleType
               /\ Accounts(e) = {}
BY DEF Databases, SchemaOf, Empty, Accounts

(* What is ready without rows is possible with rows that fit.              *)
LEMMA ReadyPossible ==
    ASSUME NEW o \in Ops, NEW d, Sound(d), Ready(o, SchemaOf(d))
    PROVE  Possible(o, d)
<1> DEFINE e == SchemaOf(d)
<1>1. /\ e.relations = d.relations /\ e.columns = d.columns /\ e.types = d.types
      /\ e.roleType = d.roleType /\ d \in Databases
  BY SchemaFields DEF Sound
<1>2. Possible(o, e)
  BY DEF Ready
<1> HIDE DEF e
<1>3. CASE o.op \in {"create_type", "drop_type", "rename_type"}
  BY <1>1, <1>2, <1>3 DEF Possible, InUse
<1>4. CASE o.op \in {"create", "drop"}
  BY <1>1, <1>2, <1>4 DEF Possible
<1>5. CASE o.op = "add_column"
  BY <1>1, <1>2, <1>5, OpFields DEF Possible
<1>6. CASE o.op \in {"drop_default", "drop_column", "flag_instructors"}
  BY <1>1, <1>2, <1>6 DEF Possible
<1>7. CASE o.op = "convert_role"
  <2>1. o.to = "user_role_old" => "is_instructor" \in d.columns
    BY <1>1, <1>2, <1>7 DEF Possible
  <2>2. /\ d.types[d.roleType] = IF o.to = "user_role_new" THEN OldRoles ELSE NewRoles
        /\ d.types[o.to] = IF o.to = "user_role_new" THEN NewRoles ELSE OldRoles
    BY <1>1, <1>7 DEF Ready, e
  <2>3. ASSUME NEW u \in Accounts(d) PROVE Converted(d.rows[u], o.to) \in d.types[o.to]
    <3>1. d.rows[u].role \in d.types[d.roleType]
      BY DEF Sound, RowFits
    <3>2. CASE o.to = "user_role_new"
      BY <2>2, <3>1, <3>2 DEF Converted, OldRoles, NewRoles
    <3>3. CASE o.to = "user_role_old"
      BY <2>2, <3>1, <3>3 DEF Converted, OldRoles, NewRoles
    <3> QED BY <1>7, <3>2, <3>3, OpFields
  <2> QED BY <1>7, <2>1, <2>3 DEF Possible
<1> QED BY <1>3, <1>4, <1>5, <1>6, <1>7, OpKinds DEF Kinds

(* An operation leaves everybody's standing as it is, or drops all users.  *)
LEMMA SameStanding ==
    ASSUME NEW a, NEW b, a # None, b # None, a.role = b.role,
           \/ a.role \in {"ADMIN", "SUPER_ADMIN", "INSTRUCTOR"}
           \/ a.is_instructor = TRUE <=> b.is_instructor = TRUE
    PROVE  StandingOf(a) = StandingOf(b)
<1>1. CASE a.role \in {"ADMIN", "SUPER_ADMIN"}
  BY <1>1 DEF StandingOf
<1>2. CASE a.role = "INSTRUCTOR"
  BY <1>2 DEF StandingOf
<1>3. CASE a.role \notin {"ADMIN", "SUPER_ADMIN", "INSTRUCTOR"} /\ a.is_instructor = TRUE
  BY <1>3 DEF StandingOf
<1>4. CASE a.role \notin {"ADMIN", "SUPER_ADMIN", "INSTRUCTOR"} /\ a.is_instructor # TRUE
  BY <1>4 DEF StandingOf
<1> QED BY <1>1, <1>2, <1>3, <1>4

LEMMA ApplyStandings ==
    ASSUME NEW o \in Ops, NEW d, Sound(d), Ready(o, SchemaOf(d)),
           o.op = "convert_role" /\ o.to = "user_role_new" => InstructorsFlagged(d)
    PROVE  /\ Accounts(d) = {} => Accounts(Apply(o, d)) = {}
           /\ SameStandings(Apply(o, d), d)
<1> DEFINE e == Apply(o, d)
<1>1. d \in Databases /\ e \in Databases /\ Possible(o, d)
  BY ApplyType, ReadyPossible DEF Sound
<1>2. CASE o.op \in {"create_type", "drop_type", "rename_type", "create", "drop_default"}
  <2>1. e.rows = d.rows
    BY <1>1, <1>2 DEF Databases, Apply, Created
  <2> QED BY <2>1 DEF Accounts, SameStandings
<1>3. CASE o.op = "drop"
  <2>1. o.table # "users" => e.rows = d.rows
    BY <1>1, <1>3 DEF Databases, Apply, Dropped
  <2>2. o.table = "users" => Accounts(e) = {}
    BY <1>1, <1>3 DEF Databases, Apply, Dropped, Accounts
  <2> QED BY <2>1, <2>2 DEF Accounts, SameStandings
<1>4. CASE o.op \in {"add_column", "drop_column"} /\ o.column # "is_instructor"
  <2>1. e.rows = d.rows
    BY <1>1, <1>4 DEF Databases, Apply, Added, WithColumn
  <2> QED BY <2>1 DEF Accounts, SameStandings
<1>5. CASE o.op \in {"add_column", "drop_column"} /\ o.column = "is_instructor"
  <2>1. None # TRUE /\ FALSE # TRUE
    BY ConstantsOK
  <2>2. o.op = "add_column" => "is_instructor" \notin d.columns
    BY <1>1, <1>5 DEF Possible
  <2>3. o.op = "drop_column" => d.types[d.roleType] = OldRoles
    BY <1>1, <1>5, SchemaFields DEF Ready
  <2>4. ASSUME NEW u \in Users, d.rows[u] # None
        PROVE  StandingOf(e.rows[u]) = StandingOf(d.rows[u])
    <3>1. /\ e.rows[u] # None /\ e.rows[u].role = d.rows[u].role
          /\ e.rows[u].is_instructor = IF o.op = "add_column" THEN o.value ELSE None
      BY <1>1, <1>5, <2>4, ColumnRows
    <3>2. e.rows[u].is_instructor # TRUE
      BY <1>5, <2>1, <3>1, OpFields
    <3>3. RowFits(d.rows[u], d)
      BY <2>4 DEF Sound, Accounts
    <3>4. CASE o.op = "add_column"
      <4>1. d.rows[u].is_instructor # TRUE
        BY <2>1, <2>2, <3>3, <3>4 DEF RowFits
      <4> QED BY <2>4, <3>1, <3>2, <4>1, SameStanding
    <3>5. CASE o.op = "drop_column"
      <4>1. d.rows[u].role \in OldRoles
        BY <2>3, <3>3, <3>5 DEF RowFits
      <4>2. d.rows[u].role = "STUDENT" => d.rows[u].is_instructor # TRUE
        BY <3>3 DEF RowFits
      <4> QED BY <2>4, <3>1, <3>2, <4>1, <4>2, SameStanding DEF OldRoles
    <3> QED BY <1>5, <3>4, <3>5
  <2>5. ASSUME NEW u \in Users, d.rows[u] = None PROVE e.rows[u] = None
    BY <1>1, <1>5, <2>5, ColumnRows
  <2> QED BY <2>4, <2>5 DEF Accounts, SameStandings
<1>6. CASE o.op = "flag_instructors"
  <2>1. ASSUME NEW u \in Users, d.rows[u] # None
        PROVE  StandingOf(e.rows[u]) = StandingOf(d.rows[u])
    <3>1. /\ e.rows[u] # None /\ e.rows[u].role = d.rows[u].role
          /\ d.rows[u].role # "INSTRUCTOR" => e.rows[u].is_instructor = d.rows[u].is_instructor
      BY <1>1, <1>6, <2>1, FlaggedRows
    <3> QED BY <2>1, <3>1, SameStanding
  <2>2. ASSUME NEW u \in Users, d.rows[u] = None PROVE e.rows[u] = None
    BY <1>1, <1>6, <2>2, FlaggedRows
  <2> QED BY <2>1, <2>2 DEF Accounts, SameStandings
<1>7. CASE o.op = "convert_role"
  <2>1. /\ d.types[d.roleType] = IF o.to = "user_role_new" THEN OldRoles ELSE NewRoles
        /\ o.to = "user_role_old" => "is_instructor" \in d.columns
    BY <1>1, <1>7, SchemaFields DEF Ready, Possible
  <2>2. ASSUME NEW u \in Users, d.rows[u] # None
        PROVE  StandingOf(e.rows[u]) = StandingOf(d.rows[u])
    <3>1. /\ e.rows[u] # None /\ e.rows[u].role = Converted(d.rows[u], o.to)
          /\ e.rows[u].is_instructor = d.rows[u].is_instructor
      BY <1>1, <1>7, <2>2, ConvertedRows
    <3>2. RowFits(d.rows[u], d)
      BY <2>2 DEF Sound, Accounts
    <3>3. CASE o.to = "user_role_new"
      <4>1. d.rows[u].role \in OldRoles
        BY <2>1, <3>2, <3>3 DEF RowFits
      <4>2. d.rows[u].role = "INSTRUCTOR" => d.rows[u].is_instructor = TRUE
        BY <1>7, <2>2, <3>3 DEF InstructorsFlagged, Accounts
      <4>3. d.rows[u].role = "STUDENT" => d.rows[u].is_instructor # TRUE
        BY <3>2 DEF RowFits
      <4> QED BY <2>2, <3>1, <3>3, <4>1, <4>2, <4>3 DEF StandingOf, Converted, OldRoles
    <3>4. CASE o.to = "user_role_old"
      <4>1. d.rows[u].role \in NewRoles
        BY <2>1, <3>2, <3>4 DEF RowFits
      <4>2. d.rows[u].is_instructor \in BOOLEAN
        BY <1>1, <2>1, <2>2, <3>2, <3>4 DEF RowFits, Databases, Row
      <4> QED BY <2>2, <3>1, <3>4, <4>1, <4>2 DEF StandingOf, Converted, NewRoles
    <3> QED BY <1>7, <3>3, <3>4, OpFields
  <2>3. ASSUME NEW u \in Users, d.rows[u] = None PROVE e.rows[u] = None
    BY <1>1, <1>7, <2>3, ConvertedRows
  <2> QED BY <2>2, <2>3 DEF Accounts, SameStandings
<1> QED BY <1>2, <1>3, <1>4, <1>5, <1>6, <1>7, OpKinds DEF Kinds

LEMMA ApplyRevision ==
    ASSUME NEW o \in Ops, NEW d \in Databases
    PROVE  Apply(o, d).revision = d.revision
<1>1. CASE o.op = "create" BY <1>1 DEF Databases, Apply, Created
<1>2. CASE o.op = "drop" BY <1>2 DEF Databases, Apply, Dropped
<1>3. CASE o.op = "add_column" BY <1>3 DEF Databases, Apply, Added
<1>4. CASE o.op \notin {"create", "drop", "add_column"}
  BY <1>4, OpKinds DEF Databases, Apply, Kinds
<1> QED BY <1>1, <1>2, <1>3, <1>4

(* Instructors stay flagged in the rest of 005.                            *)
LEMMA ApplyFlagged ==
    ASSUME NEW o \in Ops, NEW d \in Databases,
           \/ o.op = "flag_instructors"
           \/ /\ InstructorsFlagged(d)
              /\ \/ o.op \in {"create_type", "drop_type", "rename_type", "drop_default"}
                 \/ o.op = "convert_role" /\ o.to = "user_role_new"
    PROVE  InstructorsFlagged(Apply(o, d))
<1> DEFINE e == Apply(o, d)
<1>1. CASE o.op \in {"create_type", "drop_type", "rename_type", "drop_default"}
  <2>1. e.rows = d.rows
    BY <1>1 DEF Databases, Apply
  <2> QED BY <1>1, <2>1 DEF InstructorsFlagged, Accounts
<1>2. CASE o.op = "flag_instructors"
  BY <1>2, FlaggedRows DEF InstructorsFlagged, Accounts
<1>3. CASE o.op = "convert_role"
  <2>1. ASSUME NEW u \in Users, d.rows[u] # None
        PROVE  e.rows[u].role # "INSTRUCTOR"
    BY <1>3, <2>1, ConvertedRows DEF Converted
  <2>2. ASSUME NEW u \in Users, d.rows[u] = None PROVE e.rows[u] = None
    BY <1>3, <2>2, ConvertedRows
  <2> QED BY <2>1, <2>2 DEF InstructorsFlagged, Accounts
<1> QED BY <1>1, <1>2, <1>3

-----------------------------------------------------------------------------
(* Where a migrator is, and what its script does next.                     *)
LEMMA EveryScriptRuns ==
    ASSUME NEW n \in 1..Newest
    PROVE  /\ Runs(Upgrade(n), SchemaAt(n - 1), SchemaAt(n)) /\ Len(Upgrade(n)) \in 1..7
           /\ Runs(Downgrade(n), SchemaAt(n), SchemaAt(n - 1)) /\ Len(Downgrade(n)) \in 1..7
<1> USE Scripts, Lengths
<1>1. CASE n = 1 BY <1>1, RunsUpgrade001, RunsDowngrade001
<1>2. CASE n = 2 BY <1>2, RunsUpgrade002, RunsDowngrade002
<1>3. CASE n = 3 BY <1>3, RunsUpgrade003, RunsDowngrade003
<1>4. CASE n = 4 BY <1>4, RunsUpgrade004, RunsDowngrade004
<1>5. CASE n = 5 BY <1>5, RunsUpgrade005, RunsDowngrade005
<1>6. CASE n = 6 BY <1>6, RunsUpgrade006, RunsDowngrade006
<1> QED BY <1>1, <1>2, <1>3, <1>4, <1>5, <1>6 DEF Newest

LEMMA PlanLength == ASSUME NEW j \in Jobs PROVE Len(Plan(j)) \in 0..7
<1>1. j.here \in 0..Newest /\ j.goal \in 0..Newest
  BY DEF Jobs
<1>2. CASE j.here = j.goal
  BY <1>2 DEF Plan
<1>3. CASE j.goal > j.here
  <2>1. Plan(j) = Upgrade(j.here + 1) /\ j.here + 1 \in 1..Newest
    BY <1>1, <1>3 DEF Plan, Script, Newest
  <2> QED BY <2>1, EveryScriptRuns
<1>4. CASE j.goal < j.here
  <2>1. Plan(j) = Downgrade(j.here) /\ j.here \in 1..Newest
    BY <1>1, <1>4 DEF Plan, Script, Newest
  <2> QED BY <2>1, EveryScriptRuns
<1> QED BY <1>1, <1>2, <1>3, <1>4 DEF Newest

LEMMA PlanRuns ==
    ASSUME NEW j, JobFits(j), j.here # j.goal
    PROVE  LET n == Toward(j.here, j.goal)
           IN  /\ n \in 0..Newest
               /\ Runs(Plan(j), SchemaAt(j.here), SchemaAt(n))
               /\ Len(Plan(j)) \in 1..7
               /\ \A i \in 1..Len(Plan(j)) : Plan(j)[i] \in Ops
<1>1. j.here \in 0..Newest /\ j.goal \in 0..Newest
  BY DEF JobFits, Jobs
<1>2. CASE j.goal > j.here
  <2>1. j.here + 1 \in 1..Newest /\ (j.here + 1) - 1 = j.here
    BY <1>1, <1>2 DEF Newest
  <2>2. Plan(j) = Upgrade(j.here + 1) /\ Toward(j.here, j.goal) = j.here + 1
    BY <1>2 DEF Plan, Script, Toward
  <2>3. /\ Runs(Upgrade(j.here + 1), SchemaAt(j.here), SchemaAt(j.here + 1))
        /\ Len(Upgrade(j.here + 1)) \in 1..7
    BY <2>1, EveryScriptRuns
  <2> QED BY <2>1, <2>2, <2>3, UpgradeOps DEF Newest
<1>3. CASE j.goal < j.here
  <2>1. j.here \in 1..Newest
    BY <1>1, <1>3 DEF Newest
  <2>2. Plan(j) = Downgrade(j.here) /\ Toward(j.here, j.goal) = j.here - 1
    BY <1>1, <1>3 DEF Plan, Script, Toward, Newest
  <2>3. /\ Runs(Downgrade(j.here), SchemaAt(j.here), SchemaAt(j.here - 1))
        /\ Len(Downgrade(j.here)) \in 1..7
    BY <2>1, EveryScriptRuns
  <2> QED BY <2>1, <2>2, <2>3, DowngradeOps DEF Newest
<1> QED BY <1>1, <1>2, <1>3 DEF Newest

LEMMA OpNames ==
    /\ \A t, S : CreateType(t, S).op = "create_type"
    /\ \A t : DropType(t).op = "drop_type" /\ DropTypeIf(t).op = "drop_type"
    /\ \A t, u : RenameType(t, u).op = "rename_type"
    /\ \A t, I : Create(t, I).op = "create" /\ Drop(t, I).op = "drop"
    /\ \A c, v : AddColumn(c, v).op = "add_column"
    /\ AddColumn("email_verified", TRUE).op = "add_column"
    /\ AddColumn("is_instructor", FALSE).op = "add_column"
    /\ \A c : AddNullable(c).op = "add_column"
    /\ \A c : DropDefault(c).op = "drop_default" /\ DropColumn(c).op = "drop_column"
    /\ FlagInstructors.op = "flag_instructors"
    /\ \A t : ConvertRole(t).op = "convert_role" /\ ConvertRole(t).to = t
BY DEF CreateType, Create, Drop, DropType, DropTypeIf, RenameType, AddColumn, AddNullable,
       DropDefault, DropColumn, FlagInstructors, ConvertRole

(* Only 005 converts roles, upwards only to the new ones.                  *)
LEMMA Conversions ==
    ASSUME NEW n \in 1..Newest
    PROVE  /\ \A i \in 1..Len(Upgrade(n)) :
                  Upgrade(n)[i].op = "convert_role" => n = 5 /\ i = 5
           /\ \A i \in 1..Len(Downgrade(n)) :
                  Downgrade(n)[i].op = "convert_role" => Downgrade(n)[i].to = "user_role_old"
<1> USE Scripts, Lengths, OpNames
<1>1. CASE n = 1
  <2>1. /\ Upgrade001[1].op # "convert_role" /\ Upgrade001[2].op # "convert_role"
        /\ Upgrade001[3].op # "convert_role" /\ Upgrade001[4].op # "convert_role"
    BY DEF Upgrade001
  <2>2. /\ Downgrade001[1].op # "convert_role" /\ Downgrade001[2].op # "convert_role"
        /\ Downgrade001[3].op # "convert_role" /\ Downgrade001[4].op # "convert_role"
    BY DEF Downgrade001
  <2>3. ASSUME NEW i \in 1..Len(Upgrade(n)), Upgrade(n)[i].op = "convert_role"
        PROVE  n = 5 /\ i = 5
    BY <1>1, <2>1, <2>3
  <2>4. ASSUME NEW i \in 1..Len(Downgrade(n)), Downgrade(n)[i].op = "convert_role"
        PROVE  Downgrade(n)[i].to = "user_role_old"
    BY <1>1, <2>2, <2>4
  <2> QED BY <2>3, <2>4
<1>2. CASE n = 2 BY <1>2 DEF Upgrade002, Downgrade002
<1>3. CASE n = 3
  <2>1. /\ Upgrade003[1].op # "convert_role" /\ Upgrade003[2].op # "convert_role"
        /\ Upgrade003[3].op # "convert_role" /\ Upgrade003[4].op # "convert_role"
        /\ Upgrade003[5].op # "convert_role"
    BY DEF Upgrade003
  <2>2. /\ Downgrade003[1].op # "convert_role" /\ Downgrade003[2].op # "convert_role"
        /\ Downgrade003[3].op # "convert_role"
    BY DEF Downgrade003
  <2>3. ASSUME NEW i \in 1..Len(Upgrade(n)), Upgrade(n)[i].op = "convert_role"
        PROVE  n = 5 /\ i = 5
    <3> HIDE OpNames
    <3>1. i = 1 \/ i = 2 \/ i = 3 \/ i = 4 \/ i = 5
      <4>1. Len(Upgrade(n)) = 5
        BY <1>3
      <4> QED BY <4>1
    <3>2. Upgrade003[i].op = "convert_role"
      BY <1>3, <2>3
    <3> QED BY <2>1, <3>1, <3>2
  <2>4. ASSUME NEW i \in 1..Len(Downgrade(n)), Downgrade(n)[i].op = "convert_role"
        PROVE  Downgrade(n)[i].to = "user_role_old"
    BY <1>3, <2>2, <2>4
  <2> QED BY <2>3, <2>4
<1>4. CASE n = 4 BY <1>4 DEF Upgrade004, Downgrade004
<1>5. CASE n = 5
  <2>1. /\ Upgrade005[1].op # "convert_role" /\ Upgrade005[2].op # "convert_role"
        /\ Upgrade005[3].op # "convert_role" /\ Upgrade005[4].op # "convert_role"
        /\ Upgrade005[6].op # "convert_role" /\ Upgrade005[7].op # "convert_role"
    BY DEF Upgrade005
  <2>2. /\ Downgrade005[1].op # "convert_role" /\ Downgrade005[2].to = "user_role_old"
        /\ Downgrade005[3].op # "convert_role" /\ Downgrade005[4].op # "convert_role"
        /\ Downgrade005[5].op # "convert_role"
    BY DEF Downgrade005
  <2>3. ASSUME NEW i \in 1..Len(Upgrade(n)), Upgrade(n)[i].op = "convert_role"
        PROVE  n = 5 /\ i = 5
    BY <1>5, <2>1, <2>3
  <2>4. ASSUME NEW i \in 1..Len(Downgrade(n)), Downgrade(n)[i].op = "convert_role"
        PROVE  Downgrade(n)[i].to = "user_role_old"
    BY <1>5, <2>2, <2>4
  <2> QED BY <2>3, <2>4
<1>6. CASE n = 6
  <2>1. /\ Upgrade006[1].op # "convert_role" /\ Upgrade006[2].op # "convert_role"
        /\ Upgrade006[3].op # "convert_role" /\ Upgrade006[4].op # "convert_role"
        /\ Upgrade006[5].op # "convert_role"
    BY DEF Upgrade006
  <2>2. /\ Downgrade006[1].op # "convert_role" /\ Downgrade006[2].op # "convert_role"
        /\ Downgrade006[3].op # "convert_role" /\ Downgrade006[4].op # "convert_role"
        /\ Downgrade006[5].op # "convert_role"
    BY DEF Downgrade006
  <2>3. ASSUME NEW i \in 1..Len(Upgrade(n)), Upgrade(n)[i].op = "convert_role"
        PROVE  n = 5 /\ i = 5
    <3> HIDE OpNames
    <3>1. i = 1 \/ i = 2 \/ i = 3 \/ i = 4 \/ i = 5
      <4>1. Len(Upgrade(n)) = 5
        BY <1>6
      <4> QED BY <4>1
    <3>2. Upgrade006[i].op = "convert_role"
      BY <1>6, <2>3
    <3> QED BY <2>1, <3>1, <3>2
  <2>4. ASSUME NEW i \in 1..Len(Downgrade(n)), Downgrade(n)[i].op = "convert_role"
        PROVE  Downgrade(n)[i].to = "user_role_old"
    BY <1>6, <2>2, <2>4
  <2> QED BY <2>3, <2>4
<1> QED BY <1>1, <1>2, <1>3, <1>4, <1>5, <1>6 DEF Newest

LEMMA Flagging ==
    /\ Upgrade005[2].op = "flag_instructors"
    /\ \A i \in {3, 4, 6, 7} :
           Upgrade005[i].op \in {"create_type", "drop_type", "rename_type", "drop_default"}
    /\ Upgrade005[5].op = "convert_role" /\ Upgrade005[5].to = "user_role_new"
BY DEF Upgrade005, CreateType, DropType, RenameType, DropDefault, FlagInstructors, ConvertRole

(* The conversion of 005 comes after its UPDATE.                           *)
LEMMA ConvertsAfterFlagging ==
    ASSUME NEW j, JobFits(j), HasOp(j),
           NextOp(j).op = "convert_role", NextOp(j).to = "user_role_new"
    PROVE  AfterFlagging(j)
<1>1. j.here \in 0..Newest /\ j.goal \in 0..Newest /\ j.done \in Nat
  BY DEF JobFits, Jobs
<1>2. j.here # j.goal /\ j.done + 1 \in 1..Len(Plan(j))
  <2>1. j.here # j.goal
    BY <1>1 DEF HasOp, Plan
  <2> QED BY <1>1, <2>1, PlanRuns DEF HasOp
<1>3. CASE j.goal > j.here
  <2>1. Plan(j) = Upgrade(j.here + 1) /\ j.here + 1 \in 1..Newest
    BY <1>1, <1>3 DEF Plan, Script, Newest
  <2>2. j.here + 1 = 5 /\ j.done + 1 = 5
    BY <1>2, <2>1, Conversions DEF NextOp
  <2> QED BY <1>1, <1>3, <2>2 DEF AfterFlagging
<1>4. CASE j.goal < j.here
  <2>1. Plan(j) = Downgrade(j.here) /\ j.here \in 1..Newest
    BY <1>1, <1>4 DEF Plan, Script, Newest
  <2> QED BY <1>2, <2>1, Conversions DEF NextOp
<1> QED BY <1>1, <1>2, <1>3, <1>4 DEF Newest

(* One operation further a job is still on course.                         *)
LEMMA OnCourseStep ==
    ASSUME NEW j, JobFits(j), HasOp(j), NEW d, Sound(d),
           NEW c, OnCourse(j, d, c)
    PROVE  /\ Ready(NextOp(j), SchemaOf(d))
           /\ NextOp(j) \in Ops
           /\ JobFits([j EXCEPT !.done = @ + 1])
           /\ OnCourse([j EXCEPT !.done = @ + 1], Apply(NextOp(j), d), c)
<1> DEFINE k == j.done
           p == Plan(j)
           o == NextOp(j)
           i == [j EXCEPT !.done = @ + 1]
           e == Apply(o, d)
<1>1. j \in Jobs /\ d \in Databases
  BY DEF JobFits, Sound
<1>2. j.here # j.goal
  BY <1>1 DEF HasOp, Plan, Jobs
<1>3. k \in 0..Len(p) - 1 /\ k \in 0..6 /\ o = p[k + 1] /\ o \in Ops
  <2>1. k \in Nat /\ k < Len(p) /\ Len(p) \in 1..7 /\ o = p[k + 1]
    BY <1>1, <1>2, PlanRuns DEF HasOp, NextOp, Jobs
  <2>2. k + 1 \in 1..Len(p) /\ k \in 0..Len(p) - 1 /\ k \in 0..6
    BY <2>1
  <2> QED BY <1>2, <2>1, <2>2, PlanRuns
<1>4. Ready(o, SchemaOf(d))
  BY <1>2, <1>3, PlanRuns DEF Runs, OnCourse
<1>5. /\ i \in Jobs /\ i.goal = j.goal /\ i.read = j.read /\ i.here = j.here
      /\ i.done = k + 1 /\ Plan(i) = p
  BY <1>1 DEF Jobs, Plan
<1>6. JobFits(i)
  BY <1>3, <1>5 DEF JobFits
<1>7. SchemaOf(e) = Ran(p, SchemaAt(j.here), k + 1)
  BY <1>1, <1>3, ApplySchema, RanStep DEF OnCourse
<1>8. e.revision = j.here
  BY <1>1, <1>3, ApplyRevision DEF OnCourse
<1>9. SameStandings(e, c)
  <2>1. o.op = "convert_role" /\ o.to = "user_role_new" => InstructorsFlagged(d)
    BY ConvertsAfterFlagging DEF OnCourse
  <2>2. (Accounts(d) = {} => Accounts(e) = {}) /\ SameStandings(e, d)
    BY <1>3, <1>4, <2>1, ApplyStandings
  <2>3. SameStandings(d, c)
    BY DEF OnCourse
  <2> HIDE DEF e
  <2> QED BY <2>2, <2>3 DEF SameStandings
<1>10. ASSUME AfterFlagging(i) PROVE InstructorsFlagged(e)
  <2>1. p = Upgrade005 /\ k + 1 >= 2 /\ Len(p) = 7
    BY <1>2, <1>5, <1>10, Scripts, Lengths DEF AfterFlagging, Plan, Script
  <2>2. k >= 2 => InstructorsFlagged(d)
    BY <1>5, <1>10 DEF AfterFlagging, OnCourse
  <2>3. CASE k + 1 = 2
    BY <1>1, <1>3, <2>1, <2>3, Flagging, ApplyFlagged
  <2>4. CASE k + 1 \in {3, 4, 6, 7}
    <3>1. o.op \in {"create_type", "drop_type", "rename_type", "drop_default"}
      BY <1>3, <2>1, <2>4, Flagging
    <3> QED BY <1>1, <1>3, <2>2, <2>4, <3>1, ApplyFlagged
  <2>5. CASE k + 1 = 5
    <3>1. o.op = "convert_role" /\ o.to = "user_role_new"
      BY <1>3, <2>1, <2>5, Flagging
    <3> QED BY <1>1, <1>3, <2>2, <2>5, <3>1, ApplyFlagged
  <2> QED BY <1>3, <2>1, <2>3, <2>4, <2>5
<1>11. OnCourse(i, e, c)
  BY <1>5, <1>7, <1>8, <1>9, <1>10 DEF OnCourse
<1> QED BY <1>3, <1>4, <1>6, <1>11

-----------------------------------------------------------------------------
(* The invariant, action by action.                                        *)
LEMMA InitInv == Init => IInv
<1> SUFFICES ASSUME Init PROVE IInv
  OBVIOUS
<1>1. /\ db = Empty /\ Accounts(db) = {} /\ db.revision = 0
      /\ work = [m \in Migrators |-> None] /\ job = [m \in Migrators |-> None]
  BY DEF Init, Empty, Accounts
<1>2. Empty \in Databases
  BY DEF Empty, Databases, Types, Newest
<1>3. Sound(db)
  <2>1. db.profiles = {}
    BY <1>1 DEF Empty
  <2> QED BY <1>1, <1>2, <2>1 DEF Sound
<1>4. SchemaOf(db) = SchemaAt(db.revision)
  <2>1. SchemaOf(Empty) = Empty
    <3>1. Empty = Schema(0, {}, {}, {}, [t \in RoleTypes \cup ProfileTypes |-> {}], None)
      BY DEF Empty, Schema
    <3>2. SchemaOf(Empty) = [Empty EXCEPT !.rows = [u \in Users |-> None], !.profiles = {}]
      BY DEF SchemaOf, Empty
    <3> QED BY <3>1, <3>2 DEF Schema
  <2>2. RelationsAt(0) = {} /\ ColumnsAt(0) = {}
    BY DEF RelationsAt, ColumnsAt, Since
  <2>3. Empty.types = TypesAt(0)
    <3>1. \A t \in Types : LabelsAt(0, t) = {}
      BY DEF LabelsAt, Since, Types, RoleTypes, ProfileTypes
    <3> QED BY <3>1 DEF Empty, TypesAt, Types
  <2>4. SchemaAt(0) = [Empty EXCEPT !.revision = 0, !.relations = {}, !.columns = {},
                           !.types = TypesAt(0), !.roleType = None]
    BY <2>2 DEF SchemaAt, TypesAt
  <2>5. SchemaAt(0) = Empty
    BY <2>3, <2>4 DEF Empty
  <2> QED BY <1>1, <2>1, <2>5
<1> QED BY <1>1, <1>3, <1>4 DEF IInv, OneStager, Progress

LEMMA BeginInv ==
    ASSUME IInv, NEW m \in Migrators, NEW goal \in 0..Newest, Begin(m, goal)
    PROVE  IInv'
<1> DEFINE j == [goal |-> goal, read |-> db.revision, here |-> db.revision, done |-> 0]
<1>1. /\ db' = db /\ work' = work /\ job' = [job EXCEPT ![m] = j] /\ job[m] = None
      /\ goal # db.revision /\ (goal = Newest \/ goal < db.revision)
      /\ db.revision \in 0..Newest /\ work[m] = None
  BY DEF Begin, IInv, Sound, Databases, Progress
<1>2. j \in Jobs
  BY <1>1 DEF Jobs
<1>3. JobFits(j)
  BY <1>1, <1>2, PlanLength DEF JobFits, Newest
<1>4. ASSUME NEW n \in Migrators PROVE Progress(n)'
  <2>1. CASE n = m
    <3>1. job'[m] = j /\ work'[m] = None /\ j # None
      BY <1>1, <1>2, ConstantsOK DEF IInv
    <3> QED BY <1>3, <2>1, <3>1 DEF Progress
  <2>2. CASE n # m
    <3>1. job'[n] = job[n]
      BY <1>1, <2>2 DEF IInv
    <3> QED BY <1>1, <3>1 DEF IInv, Progress, OnCourse, Overtaken
  <2> QED BY <2>1, <2>2
<1> QED BY <1>1, <1>2, <1>4 DEF IInv, OneStager

(* What a migrator sees is sound, and on course unless it is overtaken.    *)
LEMMA ViewFits ==
    ASSUME IInv, NEW m \in Migrators, job[m] # None
    PROVE  /\ JobFits(job[m]) /\ job[m] \in Jobs /\ Sound(View(m))
           /\ job[m].read = db.revision => OnCourse(job[m], View(m), db)
           /\ job[m].read # db.revision => Overtaken(job[m], View(m), db)
<1>1. JobFits(job[m]) /\ job[m] \in Jobs /\ Sound(View(m))
  BY DEF IInv, Progress, JobFits, View
<1>2. CASE work[m] # None
  BY <1>1, <1>2 DEF IInv, Progress, View
<1>3. CASE work[m] = None
  <2>1. View(m) = db /\ job[m].here = job[m].read /\ job[m].done = 0
    BY <1>3 DEF View, IInv, Progress
  <2>2. ASSUME job[m].read = db.revision PROVE OnCourse(job[m], db, db)
    <3>1. SchemaOf(db) = Ran(Plan(job[m]), SchemaAt(job[m].here), job[m].done)
      BY <2>1, <2>2 DEF IInv, Ran
    <3>2. ~AfterFlagging(job[m])
      BY <2>1 DEF AfterFlagging
    <3> QED BY <2>1, <2>2, <3>1, <3>2 DEF OnCourse, SameStandings
  <2> QED BY <1>1, <2>1, <2>2 DEF Overtaken
<1> QED BY <1>2, <1>3

LEMMA StepInv ==
    ASSUME IInv, NEW m \in Migrators, Step(m)
    PROVE  IInv'
<1> DEFINE j == job[m]
           d == View(m)
           i == [j EXCEPT !.done = @ + 1]
           e == Apply(NextOp(j), d)
<1>1. /\ j # None /\ HasOp(j) /\ Possible(NextOp(j), d) /\ db' = db
      /\ work' = [work EXCEPT ![m] = e] /\ job' = [job EXCEPT ![m].done = @ + 1]
      /\ \A n \in Migrators \ {m} : work[n] = None
  BY DEF Step, NothingStaged
<1>2. /\ JobFits(j) /\ j \in Jobs /\ Sound(d)
      /\ j.read = db.revision => OnCourse(j, d, db)
      /\ j.read # db.revision => Overtaken(j, d, db)
  BY <1>1, ViewFits
<1>3. j.here # j.goal /\ j.done + 1 \in 1..Len(Plan(j)) /\ NextOp(j) \in Ops
  <2>1. j.here # j.goal
    BY <1>1, <1>2 DEF HasOp, Plan, Jobs
  <2>2. j.done \in Nat /\ j.done < Len(Plan(j)) /\ Len(Plan(j)) \in 1..7
    BY <1>1, <1>2, <2>1, PlanRuns DEF HasOp, Jobs
  <2>3. j.done + 1 \in 1..Len(Plan(j))
    BY <2>2
  <2> QED BY <1>2, <2>1, <2>3, PlanRuns DEF NextOp
<1>4. Sound(e) /\ e \in Databases
  BY <1>1, <1>2, <1>3, ApplySound DEF Sound
<1>5. /\ i \in Jobs /\ i.goal = j.goal /\ i.read = j.read /\ i.here = j.here
      /\ i.done = j.done + 1 /\ Plan(i) = Plan(j)
  BY <1>2 DEF Jobs, Plan
<1>6. JobFits(i)
  BY <1>2, <1>3, <1>5 DEF JobFits
<1>7. e.revision = d.revision
  BY <1>2, <1>3, ApplyRevision DEF Sound
<1>8. job'[m] = i /\ work'[m] = e /\ i # None /\ e # None
  BY <1>1, <1>4, <1>5, ConstantsOK DEF IInv
<1> HIDE DEF e, i, d
<1>9. ASSUME NEW n \in Migrators PROVE Progress(n)'
  <2>1. CASE n = m
    <3>1. j.read = db.revision => OnCourse(i, e, db)
      BY <1>1, <1>2, OnCourseStep DEF i, e
    <3>2. j.read # db.revision => Overtaken(i, e, db)
      BY <1>2, <1>5, <1>7 DEF Overtaken
    <3> QED BY <1>1, <1>5, <1>6, <1>8, <2>1, <3>1, <3>2 DEF Progress
  <2>2. CASE n # m
    <3>1. job'[n] = job[n] /\ work'[n] = None /\ work[n] = None
      BY <1>1, <2>2 DEF IInv
    <3> QED BY <3>1 DEF IInv, Progress
  <2> QED BY <2>1, <2>2
<1>10. OneStager'
  BY <1>1 DEF OneStager, IInv
<1>11. /\ job' \in [Migrators -> Jobs \cup {None}]
       /\ work' \in [Migrators -> Databases \cup {None}]
  BY <1>1, <1>4, <1>5, <1>8 DEF IInv
<1>12. \A n \in Migrators : work'[n] # None => Sound(work'[n])
  BY <1>1, <1>4, <1>8 DEF IInv
<1> QED BY <1>1, <1>9, <1>10, <1>11, <1>12 DEF IInv

(* The stamp of a migrator that has been overtaken matches no row.         *)
LEMMA StampInv ==
    ASSUME IInv, NEW m \in Migrators, Stamp(m)
    PROVE  IInv'
<1> DEFINE j == job[m]
           d == work[m]
           n == Toward(j.here, j.goal)
           i == [j EXCEPT !.here = n, !.done = 0]
           e == [d EXCEPT !.revision = n]
<1>1. /\ j # None /\ ~HasOp(j) /\ j.here # j.goal /\ d.revision = j.here /\ db' = db
      /\ work' = [work EXCEPT ![m].revision = n]
      /\ job' = [job EXCEPT ![m].here = n, ![m].done = 0]
  BY DEF Stamp, Stamped
<1>2. JobFits(j) /\ j \in Jobs
  BY <1>1, ViewFits
<1>3. /\ n \in 0..Newest /\ Runs(Plan(j), SchemaAt(j.here), SchemaAt(n))
      /\ Len(Plan(j)) \in 1..7 /\ j.done = Len(Plan(j))
  BY <1>1, <1>2, PlanRuns DEF HasOp, JobFits, Jobs
<1>4. d # None /\ Sound(d) /\ d \in Databases
  BY <1>1, <1>3 DEF IInv, Progress, Sound
<1>5. j.read = db.revision /\ OnCourse(j, d, db)
  BY <1>1, <1>4 DEF IInv, Progress, Overtaken
<1>6. /\ i \in Jobs /\ i.goal = j.goal /\ i.read = j.read /\ i.here = n /\ i.done = 0
      /\ i # None
  <2> HIDE DEF n
  <2>1. i \in Jobs /\ i.goal = j.goal /\ i.read = j.read /\ i.here = n /\ i.done = 0
    BY <1>2, <1>3 DEF Jobs
  <2> HIDE DEF i
  <2> QED BY <2>1, ConstantsOK
<1>7. JobFits(i)
  <2>1. \/ i.goal = Newest /\ i.read < i.goal /\ i.read <= i.here
        \/ i.goal < i.read /\ i.goal <= i.here /\ i.here <= i.read
    BY <1>1, <1>2, <1>6 DEF JobFits, Jobs, Toward, Newest
  <2> QED BY <1>6, <2>1, PlanLength DEF JobFits
<1>8. /\ e \in Databases /\ e.revision = n /\ e.relations = d.relations
      /\ e.columns = d.columns /\ e.types = d.types /\ e.roleType = d.roleType
      /\ e.rows = d.rows /\ e.profiles = d.profiles /\ e # None
  BY <1>3, <1>4, ConstantsOK DEF Databases
<1>9. Sound(e)
  BY <1>4, <1>8 DEF Sound, Accounts, RowFits
<1>10. SchemaOf(e) = SchemaAt(n)
  <2>1. SchemaOf(e) = [SchemaOf(d) EXCEPT !.revision = n]
    BY <1>4 DEF Databases, SchemaOf
  <2>2. SchemaAt(n).revision = n
    BY SchemaAtIs DEF Schema
  <2> QED BY <1>3, <1>5, <2>1, <2>2 DEF OnCourse, Runs
<1>11. job'[m] = i /\ work'[m] = e
  BY <1>1 DEF IInv
<1> HIDE DEF e, i, n
<1>12. OnCourse(i, e, db)
  <2>1. SameStandings(e, db)
    BY <1>5, <1>8 DEF OnCourse, SameStandings, Accounts
  <2>2. SchemaOf(e) = Ran(Plan(i), SchemaAt(i.here), i.done) /\ ~AfterFlagging(i)
    BY <1>6, <1>10 DEF Ran, AfterFlagging
  <2> QED BY <1>6, <1>8, <2>1, <2>2 DEF OnCourse
<1>13. ASSUME NEW q \in Migrators PROVE Progress(q)'
  <2>1. CASE q = m
    BY <1>1, <1>5, <1>6, <1>7, <1>8, <1>11, <1>12, <2>1 DEF Progress
  <2>2. CASE q # m
    <3>1. job'[q] = job[q] /\ work'[q] = work[q]
      BY <1>1, <2>2 DEF IInv
    <3> QED BY <1>1, <3>1 DEF IInv, Progress
  <2> QED BY <2>1, <2>2
<1>14. OneStager'
  BY <1>1, <1>4 DEF OneStager, IInv
<1>15. /\ job' \in [Migrators -> Jobs \cup {None}]
       /\ work' \in [Migrators -> Databases \cup {None}]
  BY <1>1, <1>6, <1>8, <1>11 DEF IInv
<1>16. \A q \in Migrators : work'[q] # None => Sound(work'[q])
  BY <1>1, <1>9, <1>11 DEF IInv
<1> QED BY <1>1, <1>13, <1>14, <1>15, <1>16 DEF IInv

(* What a commit finds staged has reached its goal.                        *)
LEMMA CommitFits ==
    ASSUME IInv, NEW m \in Migrators, job[m] # None, job[m].here = job[m].goal
    PROVE  /\ work[m] # None /\ Sound(work[m])
           /\ SchemaOf(work[m]) = SchemaAt(work[m].revision)
           /\ SameStandings(work[m], db)
<1> DEFINE j == job[m]
<1>1. JobFits(j) /\ j \in Jobs
  BY ViewFits
<1>2. j.here # j.read /\ Plan(j) = <<>>
  BY <1>1 DEF JobFits, Jobs, Plan
<1>3. j.done = 0
  BY <1>1, <1>2 DEF JobFits, Jobs
<1>4. work[m] # None /\ OnCourse(j, work[m], db) /\ Sound(work[m])
  BY <1>2 DEF IInv, Progress, Overtaken
<1> QED BY <1>2, <1>3, <1>4 DEF OnCourse, Ran

LEMMA CommitInv ==
    ASSUME IInv, NEW m \in Migrators, Commit(m)
    PROVE  IInv'
<1>1. /\ job[m] # None /\ db' = work[m]
      /\ work' = [work EXCEPT ![m] = None] /\ job' = [job EXCEPT ![m] = None]
  BY DEF Commit, Finish
<1>2. /\ work[m] # None /\ Sound(work[m])
      /\ SchemaOf(work[m]) = SchemaAt(work[m].revision)
  BY CommitFits DEF Commit
<1>3. \A n \in Migrators : work'[n] = None
  BY <1>1, <1>2 DEF IInv, OneStager
<1>4. ASSUME NEW n \in Migrators PROVE Progress(n)'
  <2>1. CASE n = m
    BY <1>1, <1>3, <2>1 DEF Progress, IInv
  <2>2. CASE n # m
    <3>1. job'[n] = job[n] /\ work[n] = None
      BY <1>1, <1>3, <2>2 DEF IInv
    <3> QED BY <1>3, <3>1 DEF IInv, Progress
  <2> QED BY <2>1, <2>2
<1> QED BY <1>1, <1>2, <1>3, <1>4 DEF IInv, OneStager

LEMMA AbortInv ==
    ASSUME IInv, NEW m \in Migrators, Abort(m)
    PROVE  IInv'
<1>1. /\ db' = db
      /\ work' = [work EXCEPT ![m] = None] /\ job' = [job EXCEPT ![m] = None]
  BY DEF Abort, Finish
<1>2. ASSUME NEW n \in Migrators PROVE Progress(n)'
  <2>1. CASE n = m
    BY <1>1, <2>1 DEF Progress, IInv
  <2>2. CASE n # m
    <3>1. job'[n] = job[n] /\ work'[n] = work[n]
      BY <1>1, <2>2 DEF IInv
    <3> QED BY <1>1, <3>1 DEF IInv, Progress
  <2> QED BY <2>1, <2>2
<1> QED BY <1>1, <1>2 DEF IInv, OneStager

(* Rows change only while nothing is staged.                               *)
LEMMA RowsChange ==
    ASSUME IInv, NothingStaged(Migrators), UNCHANGED <<work, job>>,
           Sound(db'), SchemaOf(db') = SchemaOf(db)
    PROVE  IInv'
<1>1. SchemaOf(db') = SchemaAt(db'.revision)
  <2>1. db'.revision = db.revision
    BY SchemaFields DEF IInv, Sound
  <2> QED BY <2>1 DEF IInv
<1>2. ASSUME NEW n \in Migrators PROVE Progress(n)'
  BY DEF IInv, Progress, NothingStaged
<1> QED BY <1>1, <1>2 DEF IInv, OneStager

(* A database with the schema of a revision has the users table from 001,  *)
(* and the flag and the profiles at the newest one.                        *)
LEMMA SchemaHas ==
    ASSUME NEW d, Sound(d), SchemaOf(d) = SchemaAt(d.revision)
    PROVE  /\ d.revision \in 0..Newest
           /\ d.revision >= 1 =>
                  "users" \in d.relations /\ d.roleType = "user_role"
           /\ d.revision = Newest =>
                  /\ "instructors" \in d.relations /\ "is_instructor" \in d.columns
                  /\ d.types["user_role"] = NewRoles
<1> DEFINE n == d.revision
<1>1. /\ n \in 0..Newest /\ d.relations = RelationsAt(n) /\ d.columns = ColumnsAt(n)
      /\ d.types = TypesAt(n) /\ d.roleType = IF n = 0 THEN None ELSE "user_role"
  <2>1. n \in 0..Newest /\ d \in Databases
    BY DEF Sound, Databases
  <2> QED BY <2>1, SchemaFields, SchemaAtIs DEF Schema, TypesAt
<1>2. n = Newest => d.types["user_role"] = NewRoles
  BY <1>1, LabelsOf DEF Newest
<1> QED BY <1>1, <1>2 DEF RelationsAt, ColumnsAt, Since, Newest

LEMMA EnrollInv ==
    ASSUME IInv, NEW u \in Users, NEW role \in Roles, Enroll(u, role)
    PROVE  IInv'
<1> DEFINE f == IF "is_instructor" \in db.columns THEN FALSE ELSE None
           row == [role |-> role, is_instructor |-> f]
           e == [db EXCEPT !.rows[u] = row]
<1>1. /\ NothingStaged(Migrators) /\ UNCHANGED <<work, job>> /\ db' = e
      /\ db.revision >= 1 /\ db.rows[u] = None /\ role \in db.types[db.roleType]
  BY DEF Enroll
<1>2. Sound(db) /\ db \in Databases /\ "users" \in db.relations /\ db.roleType \in RoleTypes
  BY <1>1, SchemaHas, TypeNames DEF IInv, Sound
<1>3. row \in Row /\ row.role = role /\ row.is_instructor = f /\ row # None
  <2>1. row \in Row /\ row.role = role /\ row.is_instructor = f
    BY DEF Row
  <2> HIDE DEF row
  <2> QED BY <2>1, ConstantsOK
<1>4. f # TRUE /\ (f = None <=> "is_instructor" \notin db.columns)
  BY ConstantsOK
<1> HIDE DEF row, f
<1>5. /\ e.revision = db.revision /\ e.relations = db.relations /\ e.columns = db.columns
      /\ e.defaults = db.defaults /\ e.types = db.types /\ e.roleType = db.roleType
      /\ e.profiles = db.profiles /\ e.rows = [db.rows EXCEPT ![u] = row]
      /\ e \in Databases /\ SchemaOf(e) = SchemaOf(db)
  BY <1>2, <1>3 DEF Databases, SchemaOf
<1>6. e.rows[u] = row /\ \A v \in Users \ {u} : e.rows[v] = db.rows[v]
  BY <1>2, <1>5 DEF Databases
<1> HIDE DEF e
<1>7. Accounts(e) = Accounts(db) \cup {u}
  BY <1>3, <1>6 DEF Accounts
<1>8. ASSUME NEW v \in Accounts(e) PROVE RowFits(e.rows[v], e)
  <2>1. CASE v = u
    BY <1>1, <1>2, <1>3, <1>4, <1>5, <1>6, <2>1 DEF RowFits
  <2>2. CASE v # u
    BY <1>2, <1>5, <1>6, <1>7, <2>2 DEF RowFits, Sound, Accounts
  <2> QED BY <2>1, <2>2
<1>9. Sound(e)
  BY <1>2, <1>5, <1>7, <1>8 DEF Sound
<1> QED BY <1>1, <1>5, <1>9, RowsChange

LEMMA Flagged ==
    ASSUME NEW r, NEW f, NEW x
    PROVE  [[role |-> r, is_instructor |-> f] EXCEPT !.is_instructor = x]
               = [role |-> r, is_instructor |-> x]
OBVIOUS

LEMMA BecomeInstructorInv ==
    ASSUME IInv, NEW u \in Users, BecomeInstructor(u)
    PROVE  IInv'
<1> DEFINE row == [db.rows[u] EXCEPT !.is_instructor = TRUE]
           e == [db EXCEPT !.rows[u].is_instructor = TRUE, !.profiles = @ \cup {u}]
<1>1. /\ NothingStaged(Migrators) /\ UNCHANGED <<work, job>> /\ db' = e
      /\ db.revision = Newest /\ db.rows[u] = [role |-> "USER", is_instructor |-> FALSE]
  BY DEF BecomeInstructor
<1>2. /\ Sound(db) /\ db \in Databases /\ "is_instructor" \in db.columns
      /\ "users" \in db.relations /\ "instructors" \in db.relations
      /\ db.roleType = "user_role" /\ db.types["user_role"] = NewRoles
  <2>1. Sound(db) /\ SchemaOf(db) = SchemaAt(db.revision)
    BY DEF IInv
  <2>2. /\ db.revision >= 1 => "users" \in db.relations /\ db.roleType = "user_role"
        /\ db.revision = Newest =>
               /\ "instructors" \in db.relations /\ "is_instructor" \in db.columns
               /\ db.types["user_role"] = NewRoles
    BY <2>1, SchemaHas
  <2> QED BY <1>1, <2>1, <2>2 DEF Newest, Sound
<1>3. row = [role |-> "USER", is_instructor |-> TRUE] /\ row \in Row /\ row # None
  <2> HIDE DEF e
  <2>1. row = [role |-> "USER", is_instructor |-> TRUE]
    <3>1. [[role |-> "USER", is_instructor |-> FALSE] EXCEPT !.is_instructor = TRUE]
              = [role |-> "USER", is_instructor |-> TRUE]
      BY Flagged
    <3>2. row = [[role |-> "USER", is_instructor |-> FALSE] EXCEPT !.is_instructor = TRUE]
      BY <1>1
    <3> QED BY <3>1, <3>2
  <2>2. row \in Row
    BY <2>1 DEF Row, Roles, NewRoles
  <2> HIDE DEF row
  <2> QED BY <2>1, <2>2, ConstantsOK
<1>4. db.rows[u] # None
  <2>1. [role |-> "USER", is_instructor |-> FALSE] \in Row
    BY DEF Row, Roles, NewRoles
  <2> QED BY <1>1, <2>1, ConstantsOK
<1> HIDE DEF row
<1>5. /\ e.revision = db.revision /\ e.relations = db.relations /\ e.columns = db.columns
      /\ e.defaults = db.defaults /\ e.types = db.types /\ e.roleType = db.roleType
      /\ e.profiles = db.profiles \cup {u} /\ e.rows = [db.rows EXCEPT ![u] = row]
      /\ e \in Databases /\ SchemaOf(e) = SchemaOf(db)
  BY <1>2, <1>3 DEF Databases, SchemaOf, row
<1>6. e.rows[u] = row /\ \A v \in Users \ {u} : e.rows[v] = db.rows[v]
  BY <1>2, <1>5 DEF Databases
<1> HIDE DEF e
<1>7. Accounts(e) = Accounts(db) \cup {u} /\ u \in Accounts(db)
  BY <1>3, <1>4, <1>6 DEF Accounts
<1>8. ASSUME NEW v \in Accounts(e) PROVE RowFits(e.rows[v], e)
  <2>1. CASE v = u
    <3>1. e.rows[v].role = "USER" /\ e.rows[v].is_instructor = TRUE
      BY <1>3, <1>6, <2>1
    <3>2. "USER" \in e.types[e.roleType] /\ e.roleType \in RoleTypes
      BY <1>2, <1>5, TypeNames DEF NewRoles
    <3>3. TRUE # None /\ "is_instructor" \in e.columns
      BY <1>2, <1>5, ConstantsOK
    <3> QED BY <3>1, <3>2, <3>3 DEF RowFits
  <2>2. CASE v # u
    BY <1>2, <1>5, <1>6, <1>7, <2>2 DEF RowFits, Sound, Accounts
  <2> QED BY <2>1, <2>2
<1>9. Sound(e)
  BY <1>2, <1>5, <1>7, <1>8 DEF Sound
<1> QED BY <1>1, <1>5, <1>9, RowsChange

LEMMA Invariance == Spec => []IInv
<1>1. IInv /\ [Next]_vars => IInv'
  <2> SUFFICES ASSUME IInv, [Next]_vars PROVE IInv'
    OBVIOUS
  <2>1. ASSUME NEW m \in Migrators, NEW goal \in 0..Newest, Begin(m, goal) PROVE IInv'
    BY <2>1, BeginInv
  <2>2. ASSUME NEW m \in Migrators, Step(m) PROVE IInv'
    BY <2>2, StepInv
  <2>3. ASSUME NEW m \in Migrators, Stamp(m) PROVE IInv'
    BY <2>3, StampInv
  <2>4. ASSUME NEW m \in Migrators, Commit(m) PROVE IInv'
    BY <2>4, CommitInv
  <2>5. ASSUME NEW m \in Migrators, Abort(m) PROVE IInv'
    BY <2>5, AbortInv
  <2>6. ASSUME NEW u \in Users, NEW role \in Roles, Enroll(u, role) PROVE IInv'
    BY <2>6, EnrollInv
  <2>7. ASSUME NEW u \in Users, BecomeInstructor(u) PROVE IInv'
    BY <2>7, BecomeInstructorInv
  <2>8. CASE UNCHANGED vars
    BY <2>8 DEF vars, IInv, OneStager, Progress
  <2> QED BY <2>1, <2>2, <2>3, <2>4, <2>5, <2>6, <2>7, <2>8 DEF Next
<1> QED BY InitInv, <1>1, PTL DEF Spec

-----------------------------------------------------------------------------
(* Types, the flag exactly where its column is, and no profile without its *)
(* user, in whatever order migrations and enrollments come.                *)
THEOREM TypeCorrect == Spec => []TypeOK
<1>1. IInv => TypeOK
  BY DEF IInv, Sound, RowFits, TypeOK
<1> QED BY Invariance, <1>1, PTL

(* The stamped revision always tells the truth about the schema, also      *)
(* after failures and overlapping deployments, and the newest one is what  *)
(* the models declare.                                                     *)
LEMMA NewestFits ==
    ASSUME NEW d, Sound(d), SchemaOf(d) = SchemaAt(Newest)
    PROVE  FitsModels(d)
<1>1. /\ d.relations = RelationsAt(6) /\ d.columns = ColumnsAt(6) /\ d.defaults = {}
      /\ d.types = TypesAt(6) /\ d.roleType = "user_role"
  <2>1. SchemaAt(6) = Schema(6, RelationsAt(6), ColumnsAt(6), {}, TypesAt(6), "user_role")
    BY SchemaIs DEF Newest
  <2> QED BY <2>1, SchemaFields DEF Schema, Sound, Newest
<1>2. DeclaredTables \subseteq d.relations
  BY <1>1 DEF RelationsAt, Since, DeclaredTables
<1>3. d.columns = DeclaredColumns
  BY <1>1 DEF ColumnsAt, Since, DeclaredColumns
<1>4. ASSUME NEW t \in DOMAIN d.types
      PROVE  d.types[t] = IF t \in DOMAIN DeclaredLabels THEN DeclaredLabels[t] ELSE {}
  <2>1. t \in Types /\ d.types[t] = TypesAt(6)[t]
    BY <1>1, LabelsOf DEF Newest
  <2>2. DOMAIN DeclaredLabels = {"user_role"} \cup ProfileTypes
    BY DEF DeclaredLabels, ProfileTypes
  <2>3. CASE t \in ProfileTypes
    BY <2>1, <2>2, <2>3, LabelsOf DEF Newest
  <2>4. CASE t = "user_role"
    <3>1. TypesAt(6)["user_role"] = NewRoles
      BY LabelsOf DEF Newest
    <3>2. DeclaredLabels["user_role"] = NewRoles
      BY DEF DeclaredLabels, NewRoles
    <3> QED BY <2>1, <2>2, <2>4, <3>1, <3>2
  <2>5. CASE t \in {"user_role_new", "user_role_old"}
    <3>1. t \notin DOMAIN DeclaredLabels
      BY <2>2, <2>5 DEF ProfileTypes
    <3>2. TypesAt(6)[t] = {}
      BY <2>5, LabelsOf DEF Newest
    <3> QED BY <2>1, <3>1, <3>2
  <2> QED BY <2>1, <2>3, <2>4, <2>5 DEF Types, RoleTypes
<1> QED BY <1>1, <1>2, <1>3, <1>4 DEF FitsModels

THEOREM SchemaFollowsRevision == Spec => []SchemaMatchesRevision
<1>1. IInv => SchemaMatchesRevision
  BY NewestFits DEF IInv, SchemaMatchesRevision
<1> QED BY Invariance, <1>1, PTL

(* Whatever rows a script finds, PostgreSQL refuses none of its            *)
(* operations, upgrading or downgrading, unless another migrator committed *)
(* since the revision was read.                                            *)
THEOREM ScriptsNeverStick == Spec => []NoStepFails
<1>1. IInv => NoStepFails
  <2> SUFFICES ASSUME IInv, NEW m \in Migrators,
                      job[m] # None, HasOp(job[m]), job[m].read = db.revision
               PROVE  Possible(NextOp(job[m]), View(m))
    BY DEF NoStepFails
  <2>1. JobFits(job[m]) /\ Sound(View(m)) /\ OnCourse(job[m], View(m), db)
    BY ViewFits
  <2>2. NextOp(job[m]) \in Ops /\ Ready(NextOp(job[m]), SchemaOf(View(m)))
    BY <2>1, OnCourseStep
  <2> QED BY <2>1, <2>2, ReadyPossible
<1> QED BY Invariance, <1>1, PTL

(* Nobody's standing is changed by a migration: the whole system           *)
(* implements Standings.                                                   *)
THEOREM MigrationsKeepStandings == Spec => KeepsStandings
<1> DEFINE S == [u \in Users |-> StandingOf(db.rows[u])]
<1>1. Init => Abstract!Init
  <2> SUFFICES ASSUME Init PROVE Abstract!Init
    OBVIOUS
  <2>1. \A u \in Users : db.rows[u] = None
    BY DEF Init, Empty
  <2> QED BY <2>1 DEF Abstract!Init, StandingOf
<1>2. IInv /\ [Next]_vars => [Abstract!Next]_S
  <2> SUFFICES ASSUME IInv, [Next]_vars PROVE [Abstract!Next]_S
    OBVIOUS
  <2>1. CASE db' = db
    BY <2>1
  <2>2. ASSUME NEW m \in Migrators, Commit(m) PROVE [Abstract!Next]_S
    <3>1. db' = work[m] /\ SameStandings(work[m], db)
      BY <2>2, CommitFits DEF Commit
    <3>2. CASE Accounts(work[m]) = {}
      <4>1. \A u \in Users : StandingOf(db'.rows[u]) = None
        BY <3>1, <3>2 DEF Accounts, StandingOf
      <4> QED BY <4>1 DEF Abstract!Next, Abstract!Clear
    <3>3. CASE \A u \in Users : StandingOf(work[m].rows[u]) = StandingOf(db.rows[u])
      BY <3>1, <3>3
    <3> QED BY <3>1, <3>2, <3>3 DEF SameStandings
  <2>3. ASSUME NEW u \in Users, NEW role \in Roles, Enroll(u, role)
        PROVE  [Abstract!Next]_S
    <3> DEFINE f == IF "is_instructor" \in db.columns THEN FALSE ELSE None
               row == [role |-> role, is_instructor |-> f]
    <3>1. db.rows[u] = None /\ db'.rows = [db.rows EXCEPT ![u] = row]
          /\ db.rows \in [Users -> Row \cup {None}]
      BY <2>3 DEF Enroll, IInv, Sound, Databases
    <3>2. StandingOf(row) \in Abstract!Kinds
      <4>1. row \in Row /\ row.role = role
        BY DEF Row
      <4> HIDE DEF row
      <4> QED BY <4>1, ConstantsOK DEF StandingOf, Abstract!Kinds
    <3> HIDE DEF row
    <3>3. S[u] = None /\ S' = [S EXCEPT ![u] = StandingOf(row)]
      BY <3>1 DEF StandingOf
    <3> QED BY <3>2, <3>3 DEF Abstract!Next, Abstract!Enroll
  <2>4. ASSUME NEW u \in Users, BecomeInstructor(u) PROVE [Abstract!Next]_S
    <3> DEFINE old == [role |-> "USER", is_instructor |-> FALSE]
               new == [role |-> "USER", is_instructor |-> TRUE]
    <3>1. db.rows[u] = old /\ db'.rows = [db.rows EXCEPT ![u] = new]
          /\ db.rows \in [Users -> Row \cup {None}]
      <4>1. db.rows[u] = old /\ db \in Databases
        BY <2>4 DEF BecomeInstructor, IInv, Sound
      <4>2. [old EXCEPT !.is_instructor = TRUE] = new
        BY Flagged
      <4> HIDE DEF old, new
      <4>3. db'.rows = [db.rows EXCEPT ![u] = [old EXCEPT !.is_instructor = TRUE]]
        BY <2>4, <4>1 DEF BecomeInstructor, Databases
      <4> QED BY <4>1, <4>2, <4>3 DEF Databases
    <3>2. StandingOf(old) = "student" /\ StandingOf(new) = "instructor"
      <4>1. old \in Row /\ new \in Row
        BY DEF Row, Roles, NewRoles
      <4>2. old # None /\ new # None
        <5> HIDE DEF old, new
        <5> QED BY <4>1, ConstantsOK
      <4> QED BY <4>2 DEF StandingOf
    <3> HIDE DEF old, new
    <3>3. S[u] = "student" /\ S' = [S EXCEPT ![u] = "instructor"]
      BY <3>1, <3>2
    <3> QED BY <3>3 DEF Abstract!Next, Abstract!Become
  <2> QED
    BY <2>1, <2>2, <2>3, <2>4 DEF Next, vars, Begin, Step, Stamp, Abort
<1> QED BY Invariance, <1>1, <1>2, PTL DEF Spec, KeepsStandings, Abstract!Spec

=============================================================================
