---------------------------- MODULE OpeningProofs ----------------------------
(***************************************************************************)
(* open_local implements the secret-file protocol: keeping apart the opens *)
(* that make the secret keeps apart its starts.  And whoever serves finds  *)
(* a migrated schema, however many processes open the file at once.        *)
(***************************************************************************)
EXTENDS Opening, SecretFileProofs

\* While a process migrates it has not come to the secret file; the file, once
\* there, stays.
PhaseInv ==
  /\ OTypeOK
  /\ \A p \in Proc : pc[p] = "read" => file # NoFile
  /\ \A p \in Proc : phase[p] # "idle" => pc[p] = "down"

\* Who is opening while there is no secret is alone.
AloneInv == file \notin Secrets => \A p, q \in Opening : p = q

\* Each statement of the migration finds what those before it left.
Migrated == tables = Tables /\ column

SchemaInv ==
  /\ \A p \in Proc : phase[p] = "groups" => "users" \in tables
  /\ \A p \in Proc : phase[p] = "user_groups" => {"users", "groups"} \subseteq tables
  /\ \A p \in Proc : phase[p] \in {"info", "alter"} => tables = Tables
  /\ \A p \in Proc : phase[p] = "migrated" \/ pc[p] # "down" => Migrated
  /\ rejected # {} => Migrated

\* The steps of SecretFile, as taken within an open.
SecretStep(p) == (Step(p) \/ Down(p) \/ IssueToken(p)) /\ UNCHANGED schemaVars

\* Everything starts idle.
LEMMA OInitInv == OInit => PhaseInv /\ AloneInv /\ SchemaInv
BY DEF OInit, Init, PhaseInv, AloneInv, SchemaInv, OTypeOK, TypeOK, Opening, Starting,
       Phases, Tables, Migrated

\* TypeOK and the order of migration and secret survive every step.
LEMMA PhaseStep ==
  ASSUME PhaseInv, [ONext]_oVars
  PROVE  PhaseInv'
<1> USE DEF PhaseInv, OTypeOK, TypeOK, Phases, Tables, Enter, Goto
<1>1. ASSUME NEW p \in Proc, Open(p) PROVE PhaseInv'
  BY <1>1 DEF Open, vars
<1>2. ASSUME NEW p \in Proc, NEW t \in Tables, NEW n \in Phases, CreateTable(p, t, n)
      PROVE  PhaseInv'
  BY <1>2 DEF CreateTable, vars
<1>3. ASSUME NEW p \in Proc, TableInfo(p) \/ AddColumn(p) \/ DuplicateColumn(p) \/ Quit(p)
      PROVE  PhaseInv'
  BY <1>3 DEF TableInfo, AddColumn, DuplicateColumn, Quit, vars
<1>4. ASSUME NEW p \in Proc, LoadSecret(p) PROVE PhaseInv'
  BY <1>4 DEF LoadSecret
<1>5. ASSUME NEW p \in Proc, SecretStep(p) PROVE PhaseInv'
  <2>1. CASE Check(p) \/ Read(p) \/ Generate(p)
    BY <1>5, <2>1 DEF SecretStep, schemaVars, Check, Read, Generate
  <2>2. CASE Create(p) \/ Write(p) \/ Down(p) \/ IssueToken(p)
    BY <1>5, <2>2, SecretFileAssumption
    DEF SecretStep, schemaVars, Create, Write, Down, IssueToken
  <2> QED BY <1>5, <2>1, <2>2 DEF SecretStep, Step
<1>6. CASE UNCHANGED oVars
  BY <1>6 DEF oVars, vars, schemaVars
<1> QED
  BY <1>1, <1>2, <1>3, <1>4, <1>5, <1>6 DEF ONext, Migrate, SecretStep

\* Every step of open_local is one of SecretFile or leaves it alone: where the
\* secret is looked for, SecretFile's rule for starts is met.
LEMMA StepImplements ==
  ASSUME PhaseInv, Overlap \/ AloneInv, [ONext]_oVars
  PROVE  [Next]_vars
<1>1. ASSUME NEW p \in Proc, LoadSecret(p) PROVE Start(p)
  <2>1. pc[p] = "down" /\ p \in Opening
    BY <1>1 DEF LoadSecret, PhaseInv, Opening
  <2>2. Overlap \/ Starting = {} \/ file \in Secrets
    BY <2>1 DEF AloneInv, Opening, Starting
  <2> QED BY <1>1, <2>1, <2>2 DEF LoadSecret, Start
<1>2. ASSUME NEW p \in Proc, Open(p) \/ Quit(p) \/ TableInfo(p) \/ AddColumn(p) \/ DuplicateColumn(p)
      PROVE  UNCHANGED vars
  BY <1>2 DEF Open, Quit, TableInfo, AddColumn, DuplicateColumn
<1>3. ASSUME NEW p \in Proc, NEW t, NEW n, CreateTable(p, t, n) PROVE UNCHANGED vars
  BY <1>3 DEF CreateTable
<1> QED
  BY <1>1, <1>2, <1>3 DEF ONext, Migrate, Next, oVars

\* Unless opens overlap, the one that finds no secret stays alone until the
\* secret is there.
LEMMA AloneStep ==
  ASSUME ~Overlap, PhaseInv, IInv, AloneInv, [ONext]_oVars
  PROVE  AloneInv'
<1> USE DEF AloneInv, Opening, Starting, PhaseInv, OTypeOK, TypeOK
<1>1. ASSUME NEW p \in Proc, Open(p) PROVE AloneInv'
  BY <1>1 DEF Open, Enter, vars
<1>2. ASSUME NEW p \in Proc, NEW t \in Tables, NEW n \in Phases, CreateTable(p, t, n)
      PROVE  AloneInv'
  BY <1>2 DEF CreateTable, Enter, vars, Tables
<1>3. ASSUME NEW p \in Proc, TableInfo(p) \/ AddColumn(p) \/ DuplicateColumn(p) \/ Quit(p)
      PROVE  AloneInv'
  BY <1>3 DEF TableInfo, AddColumn, DuplicateColumn, Quit, Enter, vars
<1>4. ASSUME NEW p \in Proc, LoadSecret(p) PROVE AloneInv'
  BY <1>4 DEF LoadSecret, Enter, Goto
<1>5. ASSUME NEW p \in Proc, SecretStep(p) PROVE AloneInv'
  <2> USE <1>5 DEF SecretStep, schemaVars, Goto
  <2>1. CASE Check(p) \/ Read(p) \/ Generate(p)
    BY <2>1 DEF Check, Read, Generate
  <2>2. CASE Create(p)
    BY <2>2, SecretFileAssumption DEF Create, IInv, Agreement
  <2>3. CASE Write(p)
    BY <2>3 DEF Write, IInv, Agreement
  <2>4. CASE Down(p) \/ IssueToken(p)
    BY <2>4 DEF Down, IssueToken
  <2> QED BY <2>1, <2>2, <2>3, <2>4 DEF Step
<1>6. CASE UNCHANGED oVars
  BY <1>6 DEF oVars, vars, schemaVars
<1> QED
  BY <1>1, <1>2, <1>3, <1>4, <1>5, <1>6 DEF ONext, Migrate, SecretStep, Tables, Phases

\* Tables and columns are only ever added, so each statement finds what those
\* before it made, whoever runs in between.
LEMMA SchemaStep ==
  ASSUME PhaseInv, SchemaInv, [ONext]_oVars
  PROVE  SchemaInv'
<1> USE DEF SchemaInv, PhaseInv, OTypeOK, TypeOK, Migrated
<1>1. ASSUME NEW p \in Proc, Open(p) \/ Quit(p) PROVE SchemaInv'
  BY <1>1 DEF Open, Quit, Enter, vars
<1>2. ASSUME NEW p \in Proc, CreateTable(p, "users", "groups") PROVE SchemaInv'
  BY <1>2 DEF CreateTable, Enter, vars, Tables
<1>3. ASSUME NEW p \in Proc, CreateTable(p, "groups", "user_groups") PROVE SchemaInv'
  BY <1>3 DEF CreateTable, Enter, vars, Tables
<1>4. ASSUME NEW p \in Proc, CreateTable(p, "user_groups", "info") PROVE SchemaInv'
  BY <1>4 DEF CreateTable, Enter, vars, Tables
<1>5. ASSUME NEW p \in Proc, TableInfo(p) PROVE SchemaInv'
  BY <1>5 DEF TableInfo, Enter, vars
<1>6. ASSUME NEW p \in Proc, AddColumn(p) PROVE SchemaInv'
  BY <1>6 DEF AddColumn, Enter, vars
<1>7. ASSUME NEW p \in Proc, DuplicateColumn(p) PROVE SchemaInv'
  BY <1>7 DEF DuplicateColumn, Enter, vars
<1>8. ASSUME NEW p \in Proc, LoadSecret(p) PROVE SchemaInv'
  BY <1>8 DEF LoadSecret, Enter, Goto
<1>9. ASSUME NEW p \in Proc, SecretStep(p) PROVE SchemaInv'
  <2> USE <1>9 DEF SecretStep, schemaVars, Goto
  <2>1. CASE Check(p) \/ Read(p) \/ Generate(p)
    BY <2>1 DEF Check, Read, Generate
  <2>2. CASE Create(p) \/ Write(p) \/ Down(p) \/ IssueToken(p)
    BY <2>2 DEF Create, Write, Down, IssueToken
  <2> QED BY <2>1, <2>2 DEF Step
<1>10. CASE UNCHANGED oVars
  BY <1>10 DEF oVars, vars, schemaVars
<1> QED
  BY <1>1, <1>2, <1>3, <1>4, <1>5, <1>6, <1>7, <1>8, <1>9, <1>10 DEF ONext, Migrate, SecretStep

-----------------------------------------------------------------------------

\* open_local implements the protocol of the secret file, for any number of
\* processes: the exclusion its callers keep is all that SecretFile asks for.
THEOREM OpeningImplementsSecretFile == OSpec => Spec
<1>1. OInit => Init
  BY DEF OInit
<1>2. CASE Overlap
  <2>1. PhaseInv /\ [ONext]_oVars => PhaseInv' /\ [Next]_vars
    BY <1>2, PhaseStep, StepImplements
  <2> QED BY <1>1, <2>1, OInitInv, PTL DEF OSpec, Spec
<1>3. CASE ~Overlap
  <2> DEFINE Inv == PhaseInv /\ AloneInv /\ IInv
  <2>1. OInit => Inv
    BY OInitInv, InitIInv DEF OInit
  <2>2. Inv /\ [ONext]_oVars => Inv' /\ [Next]_vars
    BY <1>3, PhaseStep, AloneStep, StepImplements, StepIInv
  <2> QED BY <1>1, <2>1, <2>2, PTL DEF OSpec, Spec
<1> QED BY <1>2, <1>3

\* So whatever is proved of SecretFile holds of processes that migrate first:
\* every token stays valid with every process that serves.
THEOREM OpenedTokensStayValid ==
  ASSUME ~Overlap PROVE OSpec => []TokensStayValid
BY OpeningImplementsSecretFile, TokensStayValidHolds, PTL

\* Nor does the migration open another way to an empty secret.
THEOREM OpenedSecretIsWhole ==
  ASSUME ~Overlap, ~Interrupted PROVE OSpec => []ServedIsWhole
BY OpeningImplementsSecretFile, ServedIsWholeHolds, PTL

\* Every reachable state of processes that open the file is well typed.
THEOREM OpeningTypeCorrect == OSpec => []OTypeOK
<1>1. PhaseInv => OTypeOK
  BY DEF PhaseInv
<1>2. PhaseInv /\ [ONext]_oVars => PhaseInv'
  BY PhaseStep
<1> QED BY <1>1, <1>2, OInitInv, PTL DEF OSpec

\* However many processes open the file at once, at whatever stage an earlier
\* open left it: whoever serves finds all tables and the column.
THEOREM ServedIsMigratedHolds == OSpec => []ServedIsMigrated
<1>1. PhaseInv /\ SchemaInv /\ [ONext]_oVars => (PhaseInv /\ SchemaInv)'
  BY PhaseStep, SchemaStep
<1>2. PhaseInv /\ SchemaInv => ServedIsMigrated
  BY DEF PhaseInv, SchemaInv, ServedIsMigrated, Serving, Migrated
<1> QED BY <1>1, <1>2, OInitInv, PTL DEF OSpec

\* The column stays, so whoever was rejected once does not miss it again.
LEMMA RetryStep ==
  ASSUME PhaseInv, SchemaInv, RetrySucceeds, [ONext]_oVars
  PROVE  RetrySucceeds'
<1> USE DEF RetrySucceeds, PhaseInv, OTypeOK, Enter
<1>1. ASSUME NEW p \in Proc, Open(p) \/ AddColumn(p) \/ Quit(p) PROVE RetrySucceeds'
  BY <1>1 DEF Open, AddColumn, Quit
<1>2. ASSUME NEW p \in Proc, NEW t \in Tables, NEW n \in Phases \ {"alter"}, CreateTable(p, t, n)
      PROVE  RetrySucceeds'
  BY <1>2 DEF CreateTable
<1>3. ASSUME NEW p \in Proc, TableInfo(p) PROVE RetrySucceeds'
  BY <1>3 DEF TableInfo, SchemaInv, Migrated
<1>4. ASSUME NEW p \in Proc, DuplicateColumn(p) \/ LoadSecret(p) PROVE RetrySucceeds'
  BY <1>4 DEF DuplicateColumn, LoadSecret
<1>5. CASE UNCHANGED schemaVars
  BY <1>5 DEF schemaVars
<1> QED
  BY <1>1, <1>2, <1>3, <1>4, <1>5 DEF ONext, Migrate, oVars, Tables, Phases

\* Opening again after "duplicate column name" does not fail that way again,
\* however many processes migrate the file meanwhile.
THEOREM RetrySucceedsHolds == OSpec => []RetrySucceeds
<1> DEFINE Inv == PhaseInv /\ SchemaInv /\ RetrySucceeds
<1>1. OInit => Inv
  BY OInitInv DEF OInit, RetrySucceeds
<1>2. Inv /\ [ONext]_oVars => Inv'
  BY PhaseStep, SchemaStep, RetryStep
<1> QED BY <1>1, <1>2, PTL DEF OSpec
=============================================================================
