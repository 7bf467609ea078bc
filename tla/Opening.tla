------------------------------- MODULE Opening -------------------------------
(***************************************************************************)
(* Database::open_local: a process that opens a database file makes the    *)
(* tables that are missing, looks whether groups has the is_admin column,  *)
(* adds it to an older table and then reads or makes the secret            *)
(* (SecretFile).  Each SQL statement commits by itself, and other          *)
(* processes (a server, a Python program) open the same file in between.   *)
(***************************************************************************)
EXTENDS SecretFile

VARIABLES
  phase,    \* how far run_migrations is in each process, "idle" outside
  tables,   \* the tables the database file has
  column,   \* has groups the is_admin column?
  rejected  \* history: the processes whose ALTER TABLE failed

schemaVars == <<phase, tables, column, rejected>>
oVars == <<vars, schemaVars>>

\* In the order of 0001_init.sql.
Tables == {"users", "groups", "user_groups"}

\* A new file, one that an interrupted open left with some of the tables, or
\* one made before groups had is_admin.
OInit ==
  /\ Init
  /\ phase = [p \in Proc |-> "idle"]
  /\ \/ tables = {} /\ column = FALSE
     \/ tables = {"users"} /\ column = FALSE
     \/ tables = Tables /\ column \in BOOLEAN
  /\ rejected = {}

Enter(p, label) == phase' = [phase EXCEPT ![p] = label]

Opening == Starting \cup {p \in Proc : phase[p] # "idle"}

\* Opens of a file without a secret do not overlap unless Overlap says so.
Open(p) ==
  /\ phase[p] = "idle" /\ pc[p] = "down"
  /\ Overlap \/ Opening = {} \/ file \in Secrets
  /\ Enter(p, "users")
  /\ UNCHANGED <<vars, tables, column, rejected>>

\* CREATE TABLE IF NOT EXISTS: a table that is there stays as it is.
CreateTable(p, table, next) ==
  /\ phase[p] = table
  /\ tables' = tables \cup {table}
  /\ column' = (column \/ (table = "groups" /\ "groups" \notin tables))
  /\ Enter(p, next)
  /\ UNCHANGED <<vars, rejected>>

\* No migration at all ...
Bug_TableInfo(p) ==
  /\ phase[p] = "info"
  /\ Enter(p, "migrated")
  /\ UNCHANGED <<vars, tables, column, rejected>>

\* ... or one that does not look first.
Bug_TableInfoSkipped(p) ==
  /\ phase[p] = "info"
  /\ Enter(p, "alter")
  /\ UNCHANGED <<vars, tables, column, rejected>>

TableInfo(p) ==
  /\ phase[p] = "info"
  /\ Enter(p, IF column THEN "migrated" ELSE "alter")
  /\ UNCHANGED <<vars, tables, column, rejected>>

AddColumn(p) ==
  /\ phase[p] = "alter" /\ ~column
  /\ column' = TRUE
  /\ Enter(p, "migrated")
  /\ UNCHANGED <<vars, tables, rejected>>

\* "duplicate column name": another process added it since TableInfo.  The
\* error ends open_local; whether and when to open again is up to the caller.
DuplicateColumn(p) ==
  /\ phase[p] = "alter" /\ column
  /\ rejected' = rejected \cup {p}
  /\ Enter(p, "idle")
  /\ UNCHANGED <<vars, tables, column>>

\* The schema is up to date: TokenManager::from_file is next.
LoadSecret(p) ==
  /\ phase[p] = "migrated"
  /\ Enter(p, "idle")
  /\ Goto(p, "check")
  /\ UNCHANGED <<file, secret, drawn, signed, tables, column, rejected>>

\* The process crashes, or an SQL statement fails and ends open_local.
Quit(p) ==
  /\ phase[p] # "idle"
  /\ Enter(p, "idle")
  /\ UNCHANGED <<vars, tables, column, rejected>>

Migrate(p) ==
  \/ CreateTable(p, "users", "groups")
  \/ CreateTable(p, "groups", "user_groups")
  \/ CreateTable(p, "user_groups", "info")
  \/ TableInfo(p) \/ AddColumn(p) \/ DuplicateColumn(p) \/ LoadSecret(p)

ONext ==
  \E p \in Proc :
    \/ Open(p) \/ Migrate(p) \/ Quit(p)
    \/ (Step(p) \/ Down(p) \/ IssueToken(p)) /\ UNCHANGED schemaVars

OSpec == OInit /\ [][ONext]_oVars

-----------------------------------------------------------------------------

Phases == {"idle", "users", "groups", "user_groups", "info", "alter", "migrated"}

OTypeOK ==
  /\ TypeOK
  /\ phase \in [Proc -> Phases]
  /\ tables \in SUBSET Tables
  /\ column \in BOOLEAN
  /\ rejected \in SUBSET Proc

\* README.md:243 and database.rs:125-126: whatever file was opened, made by an
\* older version or left behind by an open that was interrupted, and whoever
\* opened it at the same time, a process that serves finds all the tables and
\* the is_admin column.
ServedIsMigrated == Serving # {} => tables = Tables /\ column

\* An open that fails because another process migrates at the same time may
\* simply be repeated: nobody who was rejected comes to ALTER TABLE again.
RetrySucceeds == \A p \in rejected : phase[p] # "alter"
=============================================================================
