------------------------------ MODULE PyDatabase ------------------------------
(***************************************************************************)
(* The life cycle of the Python Database over a file: asyncio tasks open   *)
(* and close it while others call its methods.  A method clones the core   *)
(* Database when it is called and keeps the clone, so it may run on one    *)
(* that has since been closed or replaced.  A task may be cancelled at any *)
(* await.  Each core Database has a pool of connections; a method uses one *)
(* at a time.  login and token_manager only look at the Database; with a   *)
(* URL there is no pool and close does nothing (module Relay).             *)
(***************************************************************************)
EXTENDS Naturals, FiniteSets

CONSTANTS
  Task,         \* tasks that connect and close
  Call,         \* method calls under way at the same time
  Handle,       \* core Databases alive at the same time
  NoHandle,
  Connections   \* max_connections of a pool

ASSUME PyAssumption == NoHandle \notin Handle /\ Connections \in Nat \ {0}

VARIABLES
  inner,      \* PyDatabase::inner
  pool,       \* of each handle: unused, open, closing, or closed
  doing,      \* of each task: idle, opening or closing
  taken,      \* the handle it closes
  stage,      \* of each call: idle, waiting for a connection, holding one,
              \* draining one that was cancelled, or returned
  method,     \* what it calls
  bound,      \* the clone it runs on
  used,       \* how many connections it has given back
  done,       \* history: has it changed the database?
  outcome     \* what Python sees: failed is an exception, or the False that
              \* add_user makes of every error

taskVars == <<doing, taken>>
callVars == <<stage, method, bound, used, done, outcome>>
vars == <<inner, pool, taskVars, callVars>>

\* By the connections they take in turn: create, delete, set_admin, add_user and
\* remove_user; update, which reads the row back; and all that only read,
\* authenticate with a second connection.
Writes  == {"write", "update"}
Methods == Writes \cup {"read"}

Init ==
  /\ inner = NoHandle
  /\ pool = [h \in Handle |-> "unused"]
  /\ doing = [t \in Task |-> "idle"]
  /\ taken = [t \in Task |-> NoHandle]
  /\ stage = [c \in Call |-> "idle"]
  /\ method = [c \in Call |-> "read"]
  /\ bound = [c \in Call |-> NoHandle]
  /\ used = [c \in Call |-> 0]
  /\ done = [c \in Call |-> FALSE]
  /\ outcome = [c \in Call |-> "none"]

\* A method that keeps its first connection while it asks for the second.
Bug_Holders(h) ==
  {c \in Call : bound[c] = h /\ (stage[c] \in {"holding", "draining"} \/ used[c] = 1)}

\* The connections of a pool that are in use.
Holders(h) == {c \in Call : bound[c] = h /\ stage[c] \in {"holding", "draining"}}

\* create enrols the first user on the pool, outside the transaction.
Bug_Uses(m) == IF m = "update" THEN {2} ELSE IF m \in {"write", "read"} THEN {1, 2} ELSE {1}

Uses(m) == CASE m = "update" -> {2} [] m = "read" -> {1, 2} [] OTHER -> {1}

-----------------------------------------------------------------------------
(* connect, __aenter__, close, __aexit__ *)

Connect(t) ==
  /\ doing[t] = "idle"
  /\ doing' = [doing EXCEPT ![t] = "opening"]
  /\ UNCHANGED <<inner, pool, taken, callVars>>

\* An open Database is replaced, not closed.
Opened(t) ==
  /\ doing[t] = "opening"
  /\ \E h \in Handle :
       /\ pool[h] = "unused"
       /\ pool' = [pool EXCEPT ![h] = "open"]
       /\ inner' = h
  /\ doing' = [doing EXCEPT ![t] = "idle"]
  /\ UNCHANGED <<taken, callVars>>

NotOpened(t) ==
  /\ doing[t] = "opening"
  /\ doing' = [doing EXCEPT ![t] = "idle"]
  /\ UNCHANGED <<inner, pool, taken, callVars>>

\* The Database stays in place until it is closed.
Bug_Close(t) ==
  /\ doing[t] = "idle" /\ inner # NoHandle
  /\ doing' = [doing EXCEPT ![t] = "closing"]
  /\ taken' = [taken EXCEPT ![t] = inner]
  /\ pool' = [pool EXCEPT ![inner] = "closing"]
  /\ UNCHANGED <<inner, callVars>>

\* It is taken out first; without one close has nothing to do.
Close(t) ==
  /\ doing[t] = "idle" /\ inner # NoHandle
  /\ doing' = [doing EXCEPT ![t] = "closing"]
  /\ taken' = [taken EXCEPT ![t] = inner]
  /\ pool' = [pool EXCEPT ![inner] = "closing"]
  /\ inner' = NoHandle
  /\ UNCHANGED callVars

\* close() of the pool is not awaited.
Bug_Closed(t) ==
  /\ doing[t] = "closing"
  /\ pool' = [pool EXCEPT ![taken[t]] = "closed"]
  /\ doing' = [doing EXCEPT ![t] = "idle"]
  /\ taken' = [taken EXCEPT ![t] = NoHandle]
  /\ UNCHANGED <<inner, callVars>>

\* SqlitePool::close waits for the connections in use.
Closed(t) ==
  /\ doing[t] = "closing" /\ Holders(taken[t]) = {}
  /\ pool' = [pool EXCEPT ![taken[t]] = "closed"]
  /\ doing' = [doing EXCEPT ![t] = "idle"]
  /\ taken' = [taken EXCEPT ![t] = NoHandle]
  /\ UNCHANGED <<inner, callVars>>

\* The task is cancelled.  A pool that was closing hands out no connection.
CancelTask(t) ==
  /\ doing[t] # "idle"
  /\ doing' = [doing EXCEPT ![t] = "idle"]
  /\ taken' = [taken EXCEPT ![t] = NoHandle]
  /\ UNCHANGED <<inner, pool, callVars>>

\* The last clone goes, and the pool with it.
Drop(h) ==
  /\ pool[h] # "unused" /\ inner # h
  /\ \A t \in Task : taken[t] # h
  /\ \A c \in Call : bound[c] # h
  /\ pool' = [pool EXCEPT ![h] = "unused"]
  /\ UNCHANGED <<inner, taskVars, callVars>>

-----------------------------------------------------------------------------
(* Methods of UserManager and GroupManager *)

Return(c, o) ==
  /\ stage' = [stage EXCEPT ![c] = "returned"]
  /\ bound' = [bound EXCEPT ![c] = NoHandle]
  /\ outcome' = [outcome EXCEPT ![c] = o]
  /\ used' = [used EXCEPT ![c] = 0]

\* "Database is not connected" is not tested.
Bug_Begin(c, m) ==
  /\ stage[c] = "idle"
  /\ method' = [method EXCEPT ![c] = m]
  /\ stage' = [stage EXCEPT ![c] = "waiting"]
  /\ bound' = [bound EXCEPT ![c] = inner]
  /\ UNCHANGED <<outcome, inner, pool, taskVars, used, done>>

\* get_db, when the method is called.
Begin(c, m) ==
  /\ stage[c] = "idle"
  /\ method' = [method EXCEPT ![c] = m]
  /\ \/ inner = NoHandle /\ Return(c, "failed")
     \/ /\ inner # NoHandle
        /\ stage' = [stage EXCEPT ![c] = "waiting"]
        /\ bound' = [bound EXCEPT ![c] = inner]
        /\ UNCHANGED <<used, outcome>>
  /\ UNCHANGED <<inner, pool, taskVars, done>>

Acquire(c) ==
  /\ stage[c] = "waiting"
  /\ pool[bound[c]] = "open" /\ Cardinality(Holders(bound[c])) < Connections
  /\ stage' = [stage EXCEPT ![c] = "holding"]
  /\ UNCHANGED <<inner, pool, taskVars, method, bound, used, done, outcome>>

\* PoolClosed, or PoolTimedOut while others hold all connections.
Refused(c) ==
  /\ stage[c] = "waiting"
  /\ pool[bound[c]] = "open" => Cardinality(Holders(bound[c])) = Connections
  /\ Return(c, "failed")
  /\ UNCHANGED <<inner, pool, taskVars, method, done>>

\* The statements on one connection succeed, and the method goes on to the
\* next one or is finished.
Execute(c) ==
  /\ stage[c] = "holding"
  /\ done' = [done EXCEPT ![c] = @ \/ method[c] \in Writes]
  /\ \/ /\ used[c] = 0 /\ 2 \in Uses(method[c])
        /\ used' = [used EXCEPT ![c] = 1]
        /\ stage' = [stage EXCEPT ![c] = "waiting"]
        /\ UNCHANGED <<bound, outcome>>
     \/ used[c] + 1 \in Uses(method[c]) /\ Return(c, "ok")
  /\ UNCHANGED <<inner, pool, taskVars, method>>

\* They fail and leave nothing behind.
Fail(c) ==
  /\ stage[c] = "holding"
  /\ Return(c, "failed")
  /\ UNCHANGED <<inner, pool, taskVars, method, done>>

\* The awaiting task is cancelled, and the future dropped.  The connection is
\* given back when its worker thread is through with what it was sent.
Cancel(c) ==
  /\ \/ stage[c] = "waiting" /\ Return(c, "cancelled")
     \/ /\ stage[c] = "holding"
        /\ stage' = [stage EXCEPT ![c] = "draining"]
        /\ outcome' = [outcome EXCEPT ![c] = "cancelled"]
        /\ UNCHANGED <<bound, used>>
  /\ UNCHANGED <<inner, pool, taskVars, method, done>>

Drain(c) ==
  /\ stage[c] = "draining"
  /\ Return(c, "cancelled")
  /\ \E executed \in {FALSE, method[c] \in Writes} :
       done' = [done EXCEPT ![c] = @ \/ executed]
  /\ UNCHANGED <<inner, pool, taskVars, method>>

\* The caller has seen the outcome.
Finish(c) ==
  /\ stage[c] = "returned"
  /\ stage' = [stage EXCEPT ![c] = "idle"]
  /\ method' = [method EXCEPT ![c] = "read"]
  /\ done' = [done EXCEPT ![c] = FALSE]
  /\ outcome' = [outcome EXCEPT ![c] = "none"]
  /\ UNCHANGED <<inner, pool, taskVars, bound, used>>

-----------------------------------------------------------------------------

TaskStep(t) ==
  Connect(t) \/ Opened(t) \/ NotOpened(t) \/ Close(t) \/ Closed(t) \/ CancelTask(t)

CallStep(c) ==
  \/ \E m \in Methods : Begin(c, m)
  \/ Acquire(c) \/ Refused(c) \/ Execute(c) \/ Fail(c)
  \/ Cancel(c) \/ Drain(c) \/ Finish(c)

Next ==
  \/ \E t \in Task : TaskStep(t)
  \/ \E c \in Call : CallStep(c)
  \/ \E h \in Handle : Drop(h)

PySpec == Init /\ [][Next]_vars

\* Every statement ends, and the semaphore of a pool is fair.  Nobody has to
\* wait for a timeout or a cancellation.
FairPySpec ==
  /\ PySpec
  /\ \A t \in Task : WF_vars(Opened(t) \/ NotOpened(t) \/ Closed(t))
  /\ \A c \in Call :
       /\ SF_vars(Acquire(c))
       /\ WF_vars(\/ stage[c] = "waiting" /\ pool[bound[c]] # "open" /\ Refused(c)
                  \/ Execute(c) \/ Fail(c) \/ Drain(c))

-----------------------------------------------------------------------------

PyTypeOK ==
  /\ inner \in Handle \cup {NoHandle}
  /\ pool \in [Handle -> {"unused", "open", "closing", "closed"}]
  /\ doing \in [Task -> {"idle", "opening", "closing"}]
  /\ taken \in [Task -> Handle \cup {NoHandle}]
  /\ stage \in [Call -> {"idle", "waiting", "holding", "draining", "returned"}]
  /\ method \in [Call -> Methods]
  /\ bound \in [Call -> Handle \cup {NoHandle}]
  /\ \A c \in Call : stage[c] \in {"waiting", "holding", "draining"} => bound[c] \in Handle
  /\ used \in [Call -> 0..1]
  /\ done \in [Call -> BOOLEAN]
  /\ outcome \in [Call -> {"none", "ok", "failed", "cancelled"}]

\* When close has returned, nothing is executed on what it has closed, however
\* long ago the method was called, and nothing ever will be.
ClosedIsQuiet == \A h \in Handle : pool[h] = "closed" => Holders(h) = {}

\* While a Database is in place it is open: a method that is called then is
\* bound to an open pool, however connects and closes interleave.
ConnectedIsOpen == inner # NoHandle => pool[inner] = "open"

\* A method that fails has changed nothing, not even when the Database is
\* closed under it, but for update, which may fail to read the row back.
FailedIsNotDone ==
  \A c \in Call : outcome[c] = "failed" /\ method[c] # "update" => ~done[c]

\* Nobody waits forever for a connection or for the end of a close.
EverythingReturns ==
  /\ \A c \in Call : stage[c] \in {"waiting", "holding"} ~> stage[c] = "returned"
  /\ \A t \in Task : doing[t] # "idle" ~> doing[t] = "idle"
=============================================================================
