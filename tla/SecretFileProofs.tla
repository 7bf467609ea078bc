-------------------------- MODULE SecretFileProofs --------------------------
(***************************************************************************)
(* When no two processes make the secret at once, crashes and full disks   *)
(* notwithstanding, all processes agree with the secret file and with      *)
(* every token ever issued.                                                *)
(***************************************************************************)
EXTENDS SecretFile, TLAPS

\* Until the file is created nobody serves and no token exists, nor while it
\* is being written; once somebody serves it never changes again.
Agreement ==
  /\ file \notin Secrets => \A p, q \in Starting : p = q
  /\ signed \subseteq {file}
  /\ \A p \in Serving : secret[p] = file
  /\ \A p \in Proc : pc[p] \in {"generate", "create"} => file = NoFile
  /\ \A p \in Proc : pc[p] \in {"create", "write"} => secret[p] \in Secrets
  /\ \A p \in Proc : pc[p] = "read" => file # NoFile
  /\ \A p \in Proc : pc[p] = "write" => file \notin Secrets /\ signed = {} /\ Serving = {}
  /\ file = NoFile => signed = {} /\ Serving = {}

IInv == TypeOK /\ Agreement

USE SecretFileAssumption

\* At most an earlier secret is there at first.
LEMMA InitIInv == Init => IInv
BY DEF Init, IInv, TypeOK, Agreement, Starting, Serving

\* Each step of a start, and each end of a process, keeps the agreement.
LEMMA StepIInv ==
  ASSUME ~Overlap, IInv, [Next]_vars
  PROVE  IInv'
<1> USE DEF IInv, TypeOK, Agreement, Starting, Serving, Goto
<1>1. ASSUME NEW p \in Proc, Start(p) PROVE IInv'
  BY <1>1 DEF Start
<1>2. ASSUME NEW p \in Proc, Check(p) PROVE IInv'
  BY <1>2 DEF Check
<1>3. ASSUME NEW p \in Proc, Read(p) PROVE IInv'
  BY <1>3 DEF Read
<1>4. ASSUME NEW p \in Proc, Generate(p) PROVE IInv'
  BY <1>4 DEF Generate
<1>5. ASSUME NEW p \in Proc, Create(p) PROVE IInv'
  BY <1>5 DEF Create
<1>6. ASSUME NEW p \in Proc, Write(p) PROVE IInv'
  BY <1>6 DEF Write
<1>7. ASSUME NEW p \in Proc, Down(p) PROVE IInv'
  BY <1>7 DEF Down
<1>8. ASSUME NEW p \in Proc, IssueToken(p) PROVE IInv'
  BY <1>8 DEF IssueToken
<1>9. CASE UNCHANGED vars
  BY <1>9 DEF vars
<1> QED
  BY <1>1, <1>2, <1>3, <1>4, <1>5, <1>6, <1>7, <1>8, <1>9 DEF Next, Step

\* What the invariant says of processes that serve.
LEMMA Consequences == IInv => TypeOK /\ TokensStayValid /\ ServedIsPersisted
BY DEF IInv, Agreement, TokensStayValid, ServedIsPersisted

\* load_or_create_secret, run by one process after the other, yields the same
\* secret to all: whatever token one of them issued, every other one accepts,
\* for any number of processes, restarts and crashes.
THEOREM TokensStayValidHolds ==
  ASSUME ~Overlap PROVE Spec => []TokensStayValid
<1>1. IInv /\ [Next]_vars => IInv'
  BY StepIInv
<1> QED BY <1>1, InitIInv, Consequences, PTL DEF Spec

\* Whoever serves holds what the file holds.
THEOREM ServedIsPersistedHolds ==
  ASSUME ~Overlap PROVE Spec => []ServedIsPersisted
<1>1. IInv /\ [Next]_vars => IInv'
  BY StepIInv
<1> QED BY <1>1, InitIInv, Consequences, PTL DEF Spec

\* A file without content is one that is about to be written.
Unfinished == file = Empty => \E p \in Proc : pc[p] = "write"

\* Nobody reads the file then: whoever could is the process that writes it.
LEMMA StepUnfinished ==
  ASSUME ~Overlap, ~Interrupted, IInv, Unfinished, [Next]_vars
  PROVE  Unfinished'
<1> USE DEF IInv, TypeOK, Agreement, Starting, Unfinished, Goto
<1>1. ASSUME NEW p \in Proc, Start(p) PROVE Unfinished'
  BY <1>1 DEF Start
<1>2. ASSUME NEW p \in Proc, Check(p) \/ Read(p) \/ Generate(p) PROVE Unfinished'
  BY <1>2 DEF Check, Read, Generate
<1>3. ASSUME NEW p \in Proc, Create(p) PROVE Unfinished'
  BY <1>3 DEF Create
<1>4. ASSUME NEW p \in Proc, Write(p) PROVE Unfinished'
  BY <1>4 DEF Write
<1>5. ASSUME NEW p \in Proc, Down(p) \/ IssueToken(p) PROVE Unfinished'
  BY <1>5 DEF Down, IssueToken
<1>6. CASE UNCHANGED vars
  BY <1>6 DEF vars
<1> QED BY <1>1, <1>2, <1>3, <1>4, <1>5, <1>6 DEF Next, Step

\* Overlapping starts, and a crash or a full disk between create and write,
\* are the only ways to an empty secret: without them load_or_create_secret
\* yields what its comment says to everybody who serves (token.rs:12).
THEOREM ServedIsWholeHolds ==
  ASSUME ~Overlap, ~Interrupted PROVE Spec => []ServedIsWhole
<1> DEFINE Inv == IInv /\ Unfinished
<1>1. Init => Inv
  BY InitIInv DEF Init, Unfinished
<1>2. Inv /\ [Next]_vars => Inv'
  BY StepIInv, StepUnfinished
<1>3. Inv => ServedIsWhole
  BY DEF IInv, TypeOK, Agreement, Unfinished, Serving, ServedIsWhole
<1> HIDE DEF Inv
<1> QED BY <1>1, <1>2, <1>3, PTL DEF Spec
=============================================================================
