------------------------------- MODULE Schema -------------------------------
(***************************************************************************)
(* The SQLite schema and its migrations: processes that open one database  *)
(* file, run what migrations its user_version pragma says are missing,     *)
(* and may be cut off between two statements.                              *)
(*                                                                         *)
(* Every statement commits by itself: a migration is no transaction.       *)
(* CREATE INDEX IF NOT EXISTS can neither fail nor matter here and is      *)
(* left out.                                                               *)
(***************************************************************************)
EXTENDS Naturals, Sequences

CONSTANTS
    Openers,        \* processes that open the database file
    Migrating,      \* those of them that call Database::initialize
    MaxOpens, MaxCuts

ASSUME SchemaAssumption ==
    Migrating \subseteq Openers /\ MaxOpens \in Nat /\ MaxCuts \in Nat

-----------------------------------------------------------------------------
(* The migrations.                                                         *)

Tables(names)  == [i \in DOMAIN names |-> <<"create", names[i]>>]
Columns(names) == [i \in DOMAIN names |-> <<"add", names[i]>>]

InitialSchema ==
    Tables(<<"commit_map", "sync_state", "conflicts", "watermarks",
             "audit_log", "sync_records", "kv_state">>)

PrSyncLog      == Tables(<<"pr_sync_log">>)
AuditSuccess   == Columns(<<"audit_log.success">>)
ImportProgress == Tables(<<"import_progress">>)
MultiUser      == Tables(<<"users", "user_credentials", "sessions">>)

RepositoryColumns ==
    Columns(<<"commit_map.repo_id", "sync_records.repo_id",
              "audit_log.repo_id", "conflicts.repo_id">>)

\* SQLite cannot drop a CHECK: the table is rebuilt under another name.
Rebuild ==
    << <<"create", "import_progress_new">>,
       <<"copy", "import_progress">>,
       <<"drop", "import_progress">>,
       <<"rename", "import_progress_new">> >>

MultiRepository == Tables(<<"repositories">>) \o RepositoryColumns \o Rebuild

RepositoryWatermarks ==
    Columns(<<"repositories.last_svn_rev", "repositories.last_git_sha",
              "repositories.last_sync_at", "repositories.sync_status",
              "repositories.total_syncs", "repositories.total_errors">>)

ParentId         == Columns(<<"repositories.parent_id">>)
EncryptedSecrets == Tables(<<"encrypted_secrets">>)
ResolvedContent  == Columns(<<"conflicts.resolved_content">>)

Migrations ==
    << InitialSchema, PrSyncLog, AuditSuccess, ImportProgress, MultiUser,
       MultiRepository, RepositoryWatermarks, ParentId, EncryptedSecrets,
       ResolvedContent >>

Latest == Len(Migrations)

\* The tables and columns migration v leaves behind.
Made(v) ==
    {Migrations[v][i][2] : i \in {j \in DOMAIN Migrations[v] :
         Migrations[v][j][1] \in {"create", "add"}}}
        \ {"import_progress_new"}

MadeBy(v) == UNION {Made(u) : u \in 1..v}

-----------------------------------------------------------------------------
VARIABLES
    version,        \* PRAGMA user_version
    objects,        \* the tables and columns that exist
    progress,       \* the tables that hold the import's progress row
    opener,         \* what each process does with the file
    raced,          \* history: two processes have migrated at once
    opens, cuts     \* bounds

schemaVars ==
    <<version, objects, progress, opener, raced, opens, cuts>>

Closed == [pc |-> "closed", seen |-> 0, at |-> 1, statement |-> 1]

\* A new file, or one an earlier release has left at some version.
SchemaInit ==
    /\ version \in {0, 3, 5, Latest}
    /\ objects = MadeBy(version)
    /\ progress \in {{}, objects \cap {"import_progress"}}
    /\ opener = [p \in Openers |-> Closed]
    /\ raced = FALSE /\ opens = 0 /\ cuts = 0

Does(p, pc) == opener' = [opener EXCEPT ![p].pc = pc]

\* Variant for mutation testing: the last migration applied runs again.
PendingAgain(v, current) == v >= current

Pending(v, current) == v > current

FirstPending(current) ==
    CHOOSE v \in 1..(Latest + 1) :
        /\ v <= Latest => Pending(v, current)
        /\ \A u \in 1..(v - 1) : ~Pending(u, current)

AllApplied(v) == v > Latest

\* Database::new and, for those that call it, initialize.
OpenDatabase(p) ==
    LET first == FirstPending(version) IN
    /\ opener[p].pc = "closed" /\ opens < MaxOpens
    /\ opens' = opens + 1
    /\ opener' = [opener EXCEPT ![p] =
           [pc |-> IF p \notin Migrating \/ AllApplied(first)
                   THEN "ready" ELSE "migrate",
            seen |-> version, at |-> first, statement |-> 1]]
    /\ raced' = \/ raced
                     \/ /\ p \in Migrating /\ ~AllApplied(first)
                        /\ \E q \in Openers : opener[q].pc = "migrate"
    /\ UNCHANGED <<version, objects, progress, cuts>>

Statement(p) == Migrations[opener[p].at][opener[p].statement]

\* What SQLite refuses: a column or a table name that is taken, a table that
\* is not there, a row whose key is taken.
Refused(s) ==
    \/ s[1] = "add" /\ s[2] \in objects
    \/ s[1] = "copy" /\ ( \/ s[2] \notin objects
                               \/ "import_progress_new" \notin objects
                               \/ {s[2], "import_progress_new"} \subseteq progress )
    \/ s[1] = "drop" /\ s[2] \notin objects
    \/ s[1] = "rename" /\ ( \/ s[2] \notin objects
                                  \/ "import_progress" \in objects )

Renamed(S) ==
    {IF x = "import_progress_new" THEN "import_progress" ELSE x : x \in S}

Performed(s) ==
    CASE s[1] \in {"create", "add"} ->
             objects' = objects \cup {s[2]} /\ UNCHANGED progress
      [] s[1] = "copy" ->
             /\ UNCHANGED objects
             /\ progress' = IF s[2] \in progress
                            THEN progress \cup {"import_progress_new"}
                            ELSE progress
      [] s[1] = "drop" ->
             objects' = objects \ {s[2]} /\ progress' = progress \ {s[2]}
      [] s[1] = "rename" ->
             objects' = Renamed(objects) /\ progress' = Renamed(progress)

\* Variant for mutation testing: the last statement is not waited for.
BatchDoneEarly(p) == opener[p].statement >= Len(Migrations[opener[p].at])

BatchDone(p) == opener[p].statement > Len(Migrations[opener[p].at])

ExecuteStatement(p) ==
    /\ opener[p].pc = "migrate" /\ ~BatchDone(p) /\ ~Refused(Statement(p))
    /\ Performed(Statement(p))
    /\ opener' = [opener EXCEPT ![p].statement = @ + 1]
    /\ UNCHANGED <<version, raced, opens, cuts>>

\* MigrationFailed: the process ends with the error.
MigrationFails(p) ==
    /\ opener[p].pc = "migrate" /\ ~BatchDone(p) /\ Refused(Statement(p))
    /\ Does(p, "failed")
    /\ UNCHANGED <<version, objects, progress, raced, opens, cuts>>

NextPending(p) ==
    CHOOSE v \in (opener[p].at + 1)..(Latest + 1) :
        /\ v <= Latest => Pending(v, opener[p].seen)
        /\ \A u \in (opener[p].at + 1)..(v - 1) : ~Pending(u, opener[p].seen)

SetSchemaVersion(p) ==
    /\ opener[p].pc = "migrate" /\ BatchDone(p)
    /\ version' = opener[p].at
    /\ opener' = [opener EXCEPT
           ![p].at = NextPending(p), ![p].statement = 1,
           ![p].pc = IF AllApplied(NextPending(p)) THEN "ready" ELSE @]
    /\ UNCHANGED <<objects, progress, raced, opens, cuts>>

\* The process dies, or the busy timeout of a statement runs out.
CutOff(p) ==
    /\ opener[p].pc = "migrate" /\ cuts < MaxCuts
    /\ cuts' = cuts + 1
    /\ Does(p, "closed")
    /\ UNCHANGED <<version, objects, progress, raced, opens>>

\* A command is through, a daemon has stopped, a failed start is tried again.
CloseDatabase(p) ==
    /\ opener[p].pc \in {"ready", "failed"}
    /\ Does(p, "closed")
    /\ UNCHANGED <<version, objects, progress, raced, opens, cuts>>

SchemaNext ==
    \E p \in Openers :
        \/ OpenDatabase(p) \/ ExecuteStatement(p) \/ MigrationFails(p)
        \/ SetSchemaVersion(p) \/ CutOff(p) \/ CloseDatabase(p)

SchemaSpec == SchemaInit /\ [][SchemaNext]_schemaVars

-----------------------------------------------------------------------------
(* Properties.                                                             *)

\* The version never promises a table or a column that is not there, however
\* many processes migrate at once and wherever one is cut off; only the table
\* being rebuilt may be missing while its copy exists.
VersionMeansApplied ==
    \A x \in MadeBy(version) :
        x \in objects \/ (x = "import_progress"
                          /\ "import_progress_new" \in objects)

\* A database on which every later start fails: the column that this process
\* has to add is already there.
TornFor(p) == Statement(p)[1] = "add" /\ Statement(p)[2] \in objects

\* A migration fails only on a database that a cut has torn, or that two
\* processes have migrated at once: the rebuild of a table never fails, a cut
\* between statements that can be repeated is repaired by the next start, and
\* without a cut every start gets through.
FailsOnlyIfTorn ==
    [][\A p \in Openers :
          opener[p].pc = "migrate" /\ opener'[p].pc = "failed"
              => raced \/ (cuts > 0 /\ TornFor(p))]_schemaVars
=============================================================================
