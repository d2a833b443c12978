------------------------------ MODULE Upgrade ------------------------------
(***************************************************************************)
(* Bringing an old installation to this version: init_postgres.py creates  *)
(* the databases, roles, tables and privileges, migrate_db_to_postgresql.py*)
(* copies firmware, files, analyses and comparisons from MongoDB, and      *)
(* migrate_database.py adds a column to the SQLite table of the users.     *)
(* Each is a program that is started by hand, may be killed or fail at any *)
(* point, and is started again.                                            *)
(*                                                                         *)
(* The contents of MongoDB do not change; they are external.               *)
(***************************************************************************)
EXTENDS Integers, Sequences, FiniteSets, SequencesExt, FiniteSetsExt

CONSTANTS
    MongoContents,   \* what MongoDB may hold: records [firmwares, fileObjects,
                     \*    included, analyses, comparisons], see below
    ResultKeys,      \* the names of the entries of results
    Users,           \* the users of the web interface
    UserTables,      \* the states of the user table to start with
    MaxStops         \* bound: how often a program is killed

NoUid == "None"

\* A value of an analysis is [type, in, key, utf8]: "text", "nul" (text with a
\* NUL) or "bytes"; flag is "stored" (the values are references to GridFS),
\* "inline" or "missing".
AnalysisRecords ==
    [plugin : STRING, flag : {"stored", "inline", "missing"}, inGridFs : BOOLEAN,
     complete : BOOLEAN,
     values : SUBSET [type : {"text", "nul", "bytes"}, in : {"list", "dict"},
                      key : ResultKeys, utf8 : BOOLEAN]]

\* The uid of an object is a hash of its contents: nothing contains itself.
ASSUME UpgradeConstants ==
    /\ \A m \in MongoContents :
          LET uids == m.firmwares \cup m.fileObjects
          IN  /\ NoUid \notin uids
              /\ m.included \in [uids -> SUBSET m.fileObjects]
              /\ \A S \in SUBSET uids : S # {} => \E u \in S : m.included[u] \cap S = {}
              /\ m.analyses \in [uids -> SUBSET AnalysisRecords]
              /\ m.comparisons \subseteq SUBSET uids
    /\ "architectures" \in ResultKeys
    /\ "none" \notin Users
    /\ UserTables \subseteq {"old", "nullable", "new"}
    /\ MaxStops \in Nat

Databases == {"fact", "test"}

VARIABLES
    mongo,           \* the contents of MongoDB
    pg,              \* the PostgreSQL server: [admin, databases, roles,
                     \*    connect, usage, tables, privileges]
    initAt,          \* the statement at which init_postgres.py is; 0: not running
    store,           \* the contents of the new database: [files, firmware,
                     \*    parents, roots, analyses, comparisons]
    migration,       \* the run of migrate_db_to_postgresql.py: [pc, stack]
    userDb,          \* the committed SQLite tables: [user, user_tmp]
    userWork,        \* the tables as the open transaction sees them
    userJob,         \* the run of migrate_database.py: [pc, done, open]
    stops

upgradeVars == <<mongo, pg, initAt, store, migration, userDb, userWork, userJob, stops>>

\* The collections firmwares and file_objects, which files an object includes,
\* its analyses and the pairs of objects that were compared.
Firmwares == mongo.firmwares
FileObjects == mongo.fileObjects
Uids == Firmwares \cup FileObjects
FilesIncluded == mongo.included
Analyses == mongo.analyses
CompareResults == mongo.comparisons

-----------------------------------------------------------------------------
(* init_postgres.py                                                        *)

PrivilegesOf(role) ==
    CASE role = "ro"  -> <<"SELECT">>
      [] role = "rw"  -> <<"SELECT", "INSERT", "UPDATE">>
      [] role = "del" -> <<"ALL">>

Stmt(op, a, b) == [op |-> op, a |-> a, b |-> b]

\* main: the statements in the order in which they are sent, each in a session
\* of its own.
init_users(role) ==
    <<Stmt("create_user", role, ""),
      Stmt("grant_connect", "fact", role), Stmt("grant_usage", "fact", role),
      Stmt("grant_connect", "test", role), Stmt("grant_usage", "test", role)>>

set_table_privileges(role) ==
    [i \in DOMAIN PrivilegesOf(role) |-> Stmt("grant_privilege", role, PrivilegesOf(role)[i])]

InitStatements ==
    <<Stmt("create_admin_user", "", ""),
      Stmt("create_database", "fact", ""), Stmt("create_database", "test", "")>>
    \o init_users("ro") \o init_users("rw") \o init_users("del")
    \o <<Stmt("create_tables", "", "")>>
    \o set_table_privileges("ro") \o set_table_privileges("rw")
    \o set_table_privileges("del")

\* A statement that creates something looks first whether it is there; GRANT
\* and create_all may be repeated.  GRANT ... ON ALL TABLES is about the tables
\* there are.
Executed(s) ==
    CASE s.op = "create_admin_user" -> [pg EXCEPT !.admin = TRUE]
      [] s.op = "create_database"   -> [pg EXCEPT !.databases = @ \cup {s.a}]
      [] s.op = "create_user"       -> [pg EXCEPT !.roles = @ \cup {s.a}]
      [] s.op = "grant_connect"     -> [pg EXCEPT !.connect = @ \cup {<<s.a, s.b>>}]
      [] s.op = "grant_usage"       -> [pg EXCEPT !.usage = @ \cup {<<s.a, s.b>>}]
      [] s.op = "create_tables"     -> [pg EXCEPT !.tables = TRUE]
      [] s.op = "grant_privilege"   ->
             IF pg.tables THEN [pg EXCEPT !.privileges = @ \cup {<<s.a, s.b>>}] ELSE pg

\* What PostgreSQL demands of a statement, else it raises.
Possible(s) ==
    CASE s.op = "create_admin_user" -> TRUE
      [] s.op = "create_database"   -> pg.admin
      [] s.op = "create_user"       -> pg.admin
      [] s.op \in {"grant_connect", "grant_usage"} -> s.a \in pg.databases /\ s.b \in pg.roles
      [] s.op = "create_tables"     -> "fact" \in pg.databases
      [] s.op = "grant_privilege"   -> s.a \in pg.roles

NothingElseRuns == initAt = 0 /\ migration.pc # "running" /\ userJob.pc # "running"

StartInit ==
    /\ NothingElseRuns
    /\ initAt' = 1
    /\ UNCHANGED <<mongo, pg, store, migration, userDb, userWork, userJob, stops>>

InitStep ==
    /\ initAt \in DOMAIN InitStatements
    /\ IF Possible(InitStatements[initAt])
       THEN /\ pg' = Executed(InitStatements[initAt])
            /\ initAt' = IF initAt = Len(InitStatements) THEN 0 ELSE initAt + 1
       ELSE pg' = pg /\ initAt' = 0
    /\ UNCHANGED <<mongo, store, migration, userDb, userWork, userJob, stops>>

\* What a connection of a role may do in the tables of FACT.
May(role, privilege) ==
    /\ <<"fact", role>> \in pg.connect /\ <<"fact", role>> \in pg.usage
    /\ {<<role, privilege>>, <<role, "ALL">>} \cap pg.privileges # {}

DatabaseReady == May("rw", "SELECT") /\ May("rw", "INSERT") /\ May("rw", "UPDATE")

-----------------------------------------------------------------------------
(* migrate_db_to_postgresql.py: the conversion of an analysis.             *)

retrieve_analysis(a) ==
    IF a.flag = "stored" /\ ~a.inGridFs
    THEN [a EXCEPT !.values = {[v EXCEPT !.type = "text"] : v \in @}]  \* the references stay
    ELSE a

\* _fix_illegal_dict and _fix_illegal_list: what a value becomes; a value that
\* is not Fixable ends the program.
Fixable(plugin, v) ==
    v.type = "bytes" => IF v.in = "list" THEN v.utf8
                        ELSE \/ v.key \in {"entropy_analysis_graph", "strace"}
                             \/ plugin = "users_and_passwords"

Fixed(v) == [v EXCEPT !.type = "text"]

check_for_missing_fields(a) == [a EXCEPT !.complete = TRUE]

\* The values of cpu_architecture move into a dictionary of their own.
migrate_plugin(a) ==
    IF a.plugin = "cpu_architecture"
    THEN [a EXCEPT !.values = {[v EXCEPT !.key = "architectures"] : v \in @}]
    ELSE a

Convertible(uid) ==
    \A a \in Analyses[uid] :
        \A v \in retrieve_analysis(a).values : Fixable(a.plugin, v)

Converted(uid) ==
    {LET r == retrieve_analysis(a)
     IN  migrate_plugin(check_for_missing_fields(
             [r EXCEPT !.values = {Fixed(v) : v \in r.values}])) :
     a \in Analyses[uid]}

-----------------------------------------------------------------------------
(* The recursion of migrate_fw: a frame holds the entries of a query that  *)
(* are still to be visited and the arguments of the call.                  *)

Frame(todo, root, rootUid, parentUid) ==
    [todo |-> todo, root |-> root, rootUid |-> rootUid, parentUid |-> parentUid]

\* get_object looks into file_objects first.
get_object(uid) == IF uid \in FileObjects THEN "FileObject" ELSE "Firmware"

\* _update_parents: both links, or DbInterfaceError and no change.
ParentsKnown(rootUid, parentUid) == rootUid \in store.files /\ parentUid \in store.files

WithParents(s, uid, rootUid, parentUid) ==
    [s EXCEPT !.roots = @ \cup {<<uid, rootUid>>}, !.parents = @ \cup {<<uid, parentUid>>}]

WithObject(s, uid) ==
    [s EXCEPT !.files = @ \cup {uid},
              !.firmware = IF get_object(uid) = "Firmware" THEN @ \cup {uid} ELSE @,
              !.analyses = @ \cup {[uid |-> uid, analysis |-> a] : a \in Converted(uid)}]

insert_object(uid, rootUid, parentUid) ==
    IF get_object(uid) = "Firmware"
    THEN WithObject(store, uid)
    ELSE WithParents(WithObject(store, uid), uid, rootUid, parentUid)

Top == Head(migration.stack)

\* The call for the files that an object includes.
Call(uid, rootUid) == Frame(FilesIncluded[uid] \cap FileObjects, FALSE, rootUid, uid)

\* The rest of the current query, with the root_uid that the loop goes on with.
Rest(uid, rootUid) == [Top EXCEPT !.todo = @ \ {uid}, !.rootUid = rootUid]

Enter(frames) == [migration EXCEPT !.stack = frames \o Tail(@)]

Abort == migration' = [pc |-> "aborted", stack |-> << >>]

StartMigration ==
    /\ NothingElseRuns
    /\ migration.pc # "done"
    /\ migration' = IF DatabaseReady
                    THEN [pc |-> "running", stack |-> <<Frame(Firmwares, TRUE, NoUid, NoUid)>>]
                    ELSE [pc |-> "aborted", stack |-> << >>]
    /\ UNCHANGED <<mongo, pg, initAt, store, userDb, userWork, userJob, stops>>

Visiting(uid) ==
    /\ migration.pc = "running" /\ migration.stack # << >>
    /\ uid \in Top.todo

RootFor(uid) == IF Top.root THEN uid ELSE Top.rootUid

\* The object is in the database: its parents are added, and the files in it
\* are visited for the sake of their roots.
VisitKnown(uid) ==
    /\ Visiting(uid) /\ uid \in store.files
    /\ IF Top.root
       THEN /\ migration' = Enter(<<Call(uid, RootFor(uid)), Rest(uid, Top.rootUid)>>)
            /\ store' = store
       ELSE IF ParentsKnown(Top.rootUid, Top.parentUid)
       THEN /\ migration' = Enter(<<Call(uid, RootFor(uid)), Rest(uid, Top.rootUid)>>)
            /\ store' = WithParents(store, uid, Top.rootUid, Top.parentUid)
       ELSE Abort /\ store' = store
    /\ UNCHANGED <<mongo, pg, initAt, userDb, userWork, userJob, stops>>

VisitNew(uid) ==
    /\ Visiting(uid) /\ uid \notin store.files
    /\ IF /\ Convertible(uid)
          /\ get_object(uid) = "FileObject" => ParentsKnown(Top.rootUid, Top.parentUid)
       THEN /\ migration' = Enter(<<Call(uid, RootFor(uid)), Rest(uid, RootFor(uid))>>)
            /\ store' = insert_object(uid, Top.rootUid, Top.parentUid)
       ELSE Abort /\ store' = store
    /\ UNCHANGED <<mongo, pg, initAt, userDb, userWork, userJob, stops>>

Return ==
    /\ migration.pc = "running" /\ migration.stack # << >>
    /\ Top.todo = {}
    /\ migration' = [migration EXCEPT !.stack = Tail(@)]
    /\ UNCHANGED <<mongo, pg, initAt, store, userDb, userWork, userJob, stops>>

all_uids_found_in_database(uids) == uids \subseteq store.files

\* One comparison after the other; those of objects that are missing are left.
MigrateComparison(c) ==
    /\ migration.pc = "running" /\ migration.stack = << >>
    /\ c \in CompareResults \ store.comparisons
    /\ all_uids_found_in_database(c)
    /\ store' = [store EXCEPT !.comparisons = @ \cup {c}]
    /\ UNCHANGED <<mongo, pg, initAt, migration, userDb, userWork, userJob, stops>>

EndMigration ==
    /\ migration.pc = "running" /\ migration.stack = << >>
    /\ \A c \in CompareResults \ store.comparisons : ~all_uids_found_in_database(c)
    /\ migration' = [migration EXCEPT !.pc = "done"]
    /\ UNCHANGED <<mongo, pg, initAt, store, userDb, userWork, userJob, stops>>

-----------------------------------------------------------------------------
(* migrate_database.py.  A table is [columns, rows]: columns "absent",     *)
(* "old", "nullable" (fs_uniquifier was added) or "new"; a row is          *)
(* [user, fs].  Statements that define tables commit by themselves until   *)
(* the first UPDATE or INSERT has opened a transaction.                    *)

AbsentTable == [columns |-> "absent", rows |-> {}]

UpgradeStatements   == <<"add_column", "update", "create", "insert", "drop", "rename", "commit">>
DowngradeStatements == <<"create", "insert", "drop", "rename", "commit">>

Script == IF userJob.upgrade THEN UpgradeStatements ELSE DowngradeStatements

\* The column that the new table of this script has.
NewColumns == IF userJob.upgrade THEN "new" ELSE "old"

Named(columns) == columns \in {"nullable", "new"}

Raises(s) ==
    \/ s = "add_column" /\ Named(userWork.user.columns)       \* duplicate column
    \/ s = "create" /\ userWork.user_tmp.columns # "absent"   \* table exists
    \/ s = "insert" /\ userJob.upgrade /\ ~Named(userWork.user.columns)

\* The hexadecimal uuids are all different: the user stands for the number.
UserStatement(s) ==
    CASE s = "add_column" -> [userWork EXCEPT !.user.columns = "nullable"]
      [] s = "update" -> [userWork EXCEPT !.user.rows = {[r EXCEPT !.fs = r.user] : r \in @}]
      [] s = "create" -> [userWork EXCEPT !.user_tmp = [columns |-> NewColumns, rows |-> {}]]
      [] s = "insert" -> [userWork EXCEPT
                             !.user_tmp.rows = IF userJob.upgrade THEN userWork.user.rows
                                               ELSE {[r EXCEPT !.fs = "none"] :
                                                         r \in userWork.user.rows}]
      [] s = "drop"   -> [userWork EXCEPT !.user = AbsentTable]
      [] s = "rename" -> [user |-> userWork.user_tmp, user_tmp |-> AbsentTable]
      [] s = "commit" -> userWork

\* UPDATE opens a transaction only if there is a user.
Opens(s) == s = "insert" \/ (s = "update" /\ userWork.user.rows # {})

IdleUserJob == [pc |-> "idle", upgrade |-> FALSE, at |-> 0, open |-> FALSE]

StartUserMigration(upgrade) ==
    /\ NothingElseRuns
    /\ userJob.pc = "idle"
    /\ userJob' = [pc |-> "running", upgrade |-> upgrade, at |-> 1, open |-> FALSE]
    /\ UNCHANGED <<mongo, pg, initAt, store, migration, userDb, userWork, stops>>

CommitEachStep ==
    /\ userJob.pc = "running"
    /\ LET s == Script[userJob.at]
       IN  IF Raises(s)
           THEN userJob' = IdleUserJob /\ userWork' = userDb /\ userDb' = userDb
           ELSE /\ userWork' = UserStatement(s) /\ userDb' = userWork'
                /\ userJob' = IF s = "commit" THEN IdleUserJob ELSE [userJob EXCEPT !.at = @ + 1]
    /\ UNCHANGED <<mongo, pg, initAt, store, migration, stops>>

UserStep ==
    /\ userJob.pc = "running"
    /\ LET s == Script[userJob.at]
           open == userJob.open \/ Opens(s)
       IN  IF Raises(s)
           THEN /\ userJob' = IdleUserJob          \* the program ends, nothing is committed
                /\ userWork' = userDb
                /\ userDb' = userDb
           ELSE /\ userWork' = UserStatement(s)
                /\ userDb' = IF open /\ s # "commit" THEN userDb ELSE userWork'
                /\ userJob' = IF s = "commit" THEN IdleUserJob
                              ELSE [userJob EXCEPT !.at = @ + 1, !.open = open]
    /\ UNCHANGED <<mongo, pg, initAt, store, migration, stops>>

-----------------------------------------------------------------------------
\* A program is killed.
Kill ==
    /\ ~NothingElseRuns
    /\ stops < MaxStops
    /\ stops' = stops + 1
    /\ initAt' = 0
    /\ migration' = IF migration.pc = "running" THEN [pc |-> "idle", stack |-> << >>]
                    ELSE migration
    /\ userJob' = IdleUserJob
    /\ userWork' = userDb
    /\ UNCHANGED <<mongo, pg, store, userDb>>

UpgradeInit ==
    /\ mongo \in MongoContents
    /\ pg = [admin |-> FALSE, databases |-> {}, roles |-> {}, connect |-> {}, usage |-> {},
             tables |-> FALSE, privileges |-> {}]
    /\ initAt = 0
    /\ store = [files |-> {}, firmware |-> {}, parents |-> {}, roots |-> {}, analyses |-> {},
                comparisons |-> {}]
    /\ migration = [pc |-> "idle", stack |-> << >>]
    /\ \E columns \in UserTables :
           userDb = [user |-> [columns |-> columns,
                               rows |-> {[user |-> u, fs |-> IF columns = "new" THEN u ELSE "none"] :
                                         u \in Users}],
                     user_tmp |-> AbsentTable]
    /\ userWork = userDb
    /\ userJob = IdleUserJob
    /\ stops = 0

UpgradeNext ==
    \/ StartInit \/ InitStep
    \/ StartMigration \/ Return \/ EndMigration
    \/ \E uid \in Uids : VisitKnown(uid) \/ VisitNew(uid)
    \/ \E c \in CompareResults : MigrateComparison(c)
    \/ \E upgrade \in BOOLEAN : StartUserMigration(upgrade)
    \/ UserStep
    \/ Kill

UpgradeSpec == UpgradeInit /\ [][UpgradeNext]_upgradeVars

-----------------------------------------------------------------------------
(* Properties                                                              *)

\* What is in a firmware, at any depth: what every set has in it that has the
\* firmware and the files its members include.
Closed(S) == \A u \in S : FilesIncluded[u] \cap FileObjects \subseteq S
Below(fw) == {u \in Uids : \A S \in SUBSET Uids : fw \in S /\ Closed(S) => u \in S}

\* A migration that reaches its end has copied everything, however often it was
\* killed before: every firmware that is not also a file of another one, every
\* file with exactly the parents and root firmware that MongoDB's inclusions
\* give it, the analyses with nothing in them that PostgreSQL cannot store, and
\* the comparisons of migrated objects (migrate_fw visits again what exists).
MigrationIsComplete ==
    migration.pc = "done" =>
        LET reached == UNION {Below(fw) : fw \in Firmwares}
            plain == Firmwares \ FileObjects
        IN  /\ store.files = reached
            /\ plain \subseteq store.firmware
            /\ store.roots = {l \in reached \X Firmwares :
                                  l[1] # l[2] /\ l[1] \in FileObjects /\ l[1] \in Below(l[2])}
            /\ store.parents = {l \in reached \X reached :
                                    l[1] \in FileObjects \cap FilesIncluded[l[2]]}
            /\ {s.uid : s \in store.analyses} = {u \in reached : Analyses[u] # {}}
            /\ \A s \in store.analyses :
                   s.analysis.complete /\ \A v \in s.analysis.values : v.type = "text"
            /\ store.comparisons = {c \in CompareResults : c \subseteq reached}

\* Whatever the scripts do and wherever they are killed, a table with all users
\* is there, and a table that demands fs_uniquifier has a different one for
\* each of them (migrate_database.py rebuilds the table in a transaction).
UsersSurvive ==
    /\ userDb.user.columns # "absent"
    /\ {r.user : r \in userDb.user.rows} = Users
    /\ userDb.user.columns = "new" =>
           \A r, s \in userDb.user.rows : r.fs # "none" /\ (r.fs = s.fs => r = s)

\* The scripts for MongoDB and for the user database, killed and started again.
DataSurvives == MigrationIsComplete /\ UsersSurvive
=============================================================================
