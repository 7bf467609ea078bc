------------------------------ MODULE SecretFile ------------------------------
(***************************************************************************)
(* load_or_create_secret: how the processes that share one secret file     *)
(* (the server, a Python program that opens the same database) agree on    *)
(* the key that signs and verifies tokens.  Each start runs                *)
(*   exists -> read                                      or                *)
(*   exists -> generate -> create the file -> write it                     *)
(* with other processes, crashes and full disks in between; std::fs::write *)
(* truncates before it writes.  A token is represented by its signing key. *)
(***************************************************************************)
EXTENDS Naturals, FiniteSets

CONSTANTS
  Proc,         \* the processes
  Secrets,      \* what thread_rng may yield; each start draws a new one
  NoFile,       \* the file does not exist
  Empty,        \* the file exists without content, or the key read from it
  Overlap,      \* may a process start while another one makes the secret?
  Interrupted   \* may a crash or a full disk hit between create and write?

ASSUME SecretFileAssumption ==
  /\ NoFile # Empty /\ {NoFile, Empty} \cap Secrets = {}
  /\ Overlap \in BOOLEAN /\ Interrupted \in BOOLEAN

VARIABLES
  file,     \* content of the secret file
  pc,       \* how far each process is
  secret,   \* the secret each process holds, Empty if none yet
  drawn,    \* the secrets generated so far
  signed    \* the keys that signed some token that was handed out

vars == <<file, pc, secret, drawn, signed>>

\* A file of an earlier run may be there, and tokens it signed.
Init ==
  /\ file \in Secrets \cup {NoFile}
  /\ pc = [p \in Proc |-> "down"]
  /\ secret = [p \in Proc |-> Empty]
  /\ drawn = Secrets \cap {file}
  /\ signed \in SUBSET drawn

Goto(p, label) == pc' = [pc EXCEPT ![p] = label]

Starting == {p \in Proc : pc[p] \notin {"down", "serving"}}

\* Once there is a secret, starts may overlap.
Start(p) ==
  /\ pc[p] = "down"
  /\ Overlap \/ Starting = {} \/ file \in Secrets
  /\ Goto(p, "check")
  /\ UNCHANGED <<file, secret, drawn, signed>>

\* The test for the file forgotten: always a new secret ...
Bug_Check(p) ==
  /\ pc[p] = "check"
  /\ Goto(p, "generate")
  /\ UNCHANGED <<file, secret, drawn, signed>>

\* ... or never.
Bug_CheckNothing(p) ==
  /\ pc[p] = "check"
  /\ Goto(p, "read")
  /\ UNCHANGED <<file, secret, drawn, signed>>

Check(p) ==
  /\ pc[p] = "check"
  /\ Goto(p, IF file = NoFile THEN "generate" ELSE "read")
  /\ UNCHANGED <<file, secret, drawn, signed>>

Read(p) ==
  /\ pc[p] = "read"
  /\ secret' = [secret EXCEPT ![p] = file]
  /\ Goto(p, "serving")
  /\ UNCHANGED <<file, drawn, signed>>

Generate(p) ==
  /\ pc[p] = "generate"
  /\ \E s \in Secrets \ drawn : secret' = [secret EXCEPT ![p] = s] /\ drawn' = drawn \cup {s}
  /\ Goto(p, "create")
  /\ UNCHANGED <<file, signed>>

\* open() with O_CREAT and O_TRUNC, whatever the file holds by now.
Create(p) ==
  /\ pc[p] = "create"
  /\ file' = Empty
  /\ Goto(p, "write")
  /\ UNCHANGED <<secret, drawn, signed>>

\* The secret is generated and used, and not persisted.
Bug_Write(p) ==
  /\ pc[p] = "write"
  /\ Goto(p, "serving")
  /\ UNCHANGED <<file, secret, drawn, signed>>

Write(p) ==
  /\ pc[p] = "write"
  /\ file' = secret[p]
  /\ Goto(p, "serving")
  /\ UNCHANGED <<secret, drawn, signed>>

\* The process ends: it crashes, is stopped, or write fails and the error
\* ends open_local.  The file stays as it is.
Down(p) ==
  /\ pc[p] # "down"
  /\ pc[p] = "write" => Interrupted
  /\ Goto(p, "down")
  /\ secret' = [secret EXCEPT ![p] = Empty]
  /\ UNCHANGED <<file, drawn, signed>>

IssueToken(p) ==
  /\ pc[p] = "serving"
  /\ signed' = signed \cup {secret[p]}
  /\ UNCHANGED <<file, pc, secret, drawn>>

Step(p) == Check(p) \/ Read(p) \/ Generate(p) \/ Create(p) \/ Write(p)

Next == \E p \in Proc : Start(p) \/ Step(p) \/ Down(p) \/ IssueToken(p)

Spec == Init /\ [][Next]_vars

-----------------------------------------------------------------------------

TypeOK ==
  /\ file \in Secrets \cup {NoFile, Empty}
  /\ pc \in [Proc -> {"down", "check", "read", "generate", "create", "write", "serving"}]
  /\ secret \in [Proc -> Secrets \cup {Empty}]
  /\ drawn \in SUBSET Secrets
  /\ signed \in SUBSET (Secrets \cup {Empty})

Serving == {p \in Proc : pc[p] = "serving"}

\* Every token ever handed out is accepted by every process that serves, now
\* and after restarts: what "generate ... and persist it" is there for
\* (token.rs:12, load_or_create_secret_persists).  Needs starts that do not
\* overlap until the secret is made.
TokensStayValid == \A p \in Serving : signed \subseteq {secret[p]}

\* A process that serves holds the secret the file holds, so whoever starts
\* next agrees with it (token.rs:12, "generate a 64-hex-char secret and
\* persist it").
ServedIsPersisted == \A p \in Serving : secret[p] = file

\* A process that serves holds a secret of full length (token.rs:12 and
\* assert_eq!(first.len(), 64) in load_or_create_secret_persists).
ServedIsWhole == \A p \in Serving : secret[p] \in Secrets
=============================================================================
