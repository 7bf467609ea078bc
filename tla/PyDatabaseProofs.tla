-------------------------- MODULE PyDatabaseProofs --------------------------
(***************************************************************************)
(* However connects, closes, calls and cancellations interleave, what is   *)
(* closed is quiet, what is in place is open, and a failure has changed    *)
(* nothing: for any number of tasks, calls, handles and connections.       *)
(***************************************************************************)
EXTENDS PyDatabase, TLAPS

\* What a task closes is out of place, and stays alive until it is done.
TakenIsOut ==
  \A t \in Task :
    /\ doing[t] = "closing" <=> taken[t] # NoHandle
    /\ taken[t] # NoHandle => taken[t] # inner /\ pool[taken[t]] \in {"closing", "closed"}

\* Only an update that reads its row back has changed anything before it returns.
NotDoneYet ==
  \A c \in Call :
    /\ stage[c] = "idle" => ~done[c]
    /\ stage[c] \in {"waiting", "holding"} /\ method[c] # "update" => ~done[c]
    /\ outcome[c] = "failed" => stage[c] = "returned"

PyInv ==
  PyTypeOK /\ ClosedIsQuiet /\ ConnectedIsOpen /\ TakenIsOut /\ NotDoneYet /\ FailedIsNotDone

USE PyAssumption

LEMMA InitInv == Init => PyInv
  BY DEF Init, PyInv, PyTypeOK, ClosedIsQuiet, ConnectedIsOpen, TakenIsOut, NotDoneYet,
         FailedIsNotDone, Methods, Writes, Holders

\* The tasks leave the calls alone.
LEMMA TaskKeepsInv ==
  ASSUME PyInv, NEW t \in Task, TaskStep(t)
  PROVE  PyInv'
<1>1. UNCHANGED callVars
  BY DEF TaskStep, Connect, Opened, NotOpened, Close, Closed, CancelTask
<1>2. NotDoneYet' /\ FailedIsNotDone'
  BY <1>1 DEF PyInv, NotDoneYet, FailedIsNotDone, callVars
<1>3. \A h \in Handle : Holders(h)' = Holders(h)
  BY <1>1 DEF Holders, callVars
<1>4. CASE Connect(t) \/ NotOpened(t)
  <2>1. PyTypeOK'
    BY <1>4, <1>1 DEF PyInv, PyTypeOK, Connect, NotOpened, callVars
  <2>2. ClosedIsQuiet' /\ ConnectedIsOpen'
    BY <1>4, <1>3 DEF PyInv, ClosedIsQuiet, ConnectedIsOpen, Connect, NotOpened
  <2>3. TakenIsOut'
    BY <1>4 DEF PyInv, PyTypeOK, TakenIsOut, Connect, NotOpened
  <2> QED BY <1>2, <2>1, <2>2, <2>3 DEF PyInv
<1>5. CASE Opened(t)
  <2>1. PICK h \in Handle : /\ pool[h] = "unused" /\ pool' = [pool EXCEPT ![h] = "open"]
                            /\ inner' = h /\ doing' = [doing EXCEPT ![t] = "idle"]
                            /\ doing[t] = "opening" /\ UNCHANGED taken
    BY <1>5 DEF Opened
  <2>2. PyTypeOK'
    BY <2>1, <1>1 DEF PyInv, PyTypeOK, callVars
  <2>3. ClosedIsQuiet' /\ ConnectedIsOpen'
    BY <2>1, <1>3 DEF PyInv, PyTypeOK, ClosedIsQuiet, ConnectedIsOpen
  <2>4. TakenIsOut'
    BY <2>1 DEF PyInv, PyTypeOK, TakenIsOut
  <2> QED BY <1>2, <2>2, <2>3, <2>4 DEF PyInv
<1>6. CASE Close(t)
  <2>1. PyTypeOK'
    BY <1>6, <1>1 DEF PyInv, PyTypeOK, Close, callVars
  <2>2. ClosedIsQuiet' /\ ConnectedIsOpen'
    BY <1>6, <1>3 DEF PyInv, PyTypeOK, ClosedIsQuiet, ConnectedIsOpen, Close
  <2>3. TakenIsOut'
    BY <1>6 DEF PyInv, PyTypeOK, TakenIsOut, Close
  <2> QED BY <1>2, <2>1, <2>2, <2>3 DEF PyInv
<1>7. CASE Closed(t)
  <2>1. taken[t] \in Handle /\ taken[t] # inner
    BY <1>7 DEF PyInv, PyTypeOK, TakenIsOut, Closed
  <2>2. PyTypeOK'
    BY <1>7, <2>1, <1>1 DEF PyInv, PyTypeOK, Closed, callVars
  <2>3. ClosedIsQuiet' /\ ConnectedIsOpen'
    BY <1>7, <2>1, <1>3 DEF PyInv, PyTypeOK, ClosedIsQuiet, ConnectedIsOpen, Closed
  <2>4. TakenIsOut'
    BY <1>7, <2>1 DEF PyInv, PyTypeOK, TakenIsOut, Closed
  <2> QED BY <1>2, <2>2, <2>3, <2>4 DEF PyInv
<1>8. CASE CancelTask(t)
  <2>1. PyTypeOK'
    BY <1>8, <1>1 DEF PyInv, PyTypeOK, CancelTask, callVars
  <2>2. ClosedIsQuiet' /\ ConnectedIsOpen'
    BY <1>8, <1>3 DEF PyInv, ClosedIsQuiet, ConnectedIsOpen, CancelTask
  <2>3. TakenIsOut'
    BY <1>8 DEF PyInv, PyTypeOK, TakenIsOut, CancelTask
  <2> QED BY <1>2, <2>1, <2>2, <2>3 DEF PyInv
<1> QED BY <1>4, <1>5, <1>6, <1>7, <1>8 DEF TaskStep

LEMMA DropKeepsInv ==
  ASSUME PyInv, NEW h \in Handle, Drop(h)
  PROVE  PyInv'
<1>1. PyTypeOK' /\ NotDoneYet' /\ FailedIsNotDone'
  BY DEF Drop, PyInv, PyTypeOK, NotDoneYet, FailedIsNotDone, taskVars, callVars
<1>2. ClosedIsQuiet' /\ ConnectedIsOpen'
  BY DEF Drop, PyInv, PyTypeOK, ClosedIsQuiet, ConnectedIsOpen, Holders, callVars
<1>3. TakenIsOut'
  BY DEF Drop, PyInv, PyTypeOK, TakenIsOut, taskVars
<1> QED BY <1>1, <1>2, <1>3 DEF PyInv

\* A call becomes a holder only of an open pool.
LEMMA CallKeepsInv ==
  ASSUME PyInv, NEW c \in Call, CallStep(c)
  PROVE  PyInv'
<1> USE DEF Return
<1>1. UNCHANGED <<inner, pool, taskVars>>
  BY DEF CallStep, Begin, Acquire, Refused, Execute, Fail, Cancel, Drain, Finish
<1>2. ConnectedIsOpen' /\ TakenIsOut'
  BY <1>1 DEF PyInv, ConnectedIsOpen, TakenIsOut, taskVars
<1>3. PyTypeOK'
  <2> USE DEF PyInv, PyTypeOK, taskVars
  <2>1. CASE \E m \in Methods : Begin(c, m)
    BY <1>1, <2>1 DEF Begin
  <2>2. CASE Acquire(c) \/ Refused(c)
    BY <1>1, <2>2 DEF Acquire, Refused
  <2>3. CASE Execute(c) \/ Fail(c) \/ Drain(c)
    <3>1. done' \in [Call -> BOOLEAN] /\ method' = method
      BY <2>3 DEF Execute, Fail, Drain
    <3>2. \/ Return(c, "ok") \/ Return(c, "failed") \/ Return(c, "cancelled")
          \/ /\ used' = [used EXCEPT ![c] = 1] /\ stage' = [stage EXCEPT ![c] = "waiting"]
             /\ UNCHANGED <<bound, outcome>> /\ stage[c] = "holding"
      BY <2>3 DEF Execute, Fail, Drain
    <3> QED BY <1>1, <3>1, <3>2
  <2>4. CASE Cancel(c)
    BY <1>1, <2>4 DEF Cancel
  <2>5. CASE Finish(c)
    BY <1>1, <2>5 DEF Finish, Methods
  <2> QED BY <2>1, <2>2, <2>3, <2>4, <2>5 DEF CallStep
<1>4. ASSUME NEW h \in Handle, pool[h] = "closed"
      PROVE  Holders(h)' \subseteq Holders(h)
  BY <1>4 DEF PyInv, PyTypeOK, Holders, CallStep, Begin, Acquire, Refused, Execute, Fail,
              Cancel, Drain, Finish
<1>5. ClosedIsQuiet'
  BY <1>1, <1>4 DEF PyInv, ClosedIsQuiet
<1>6. NotDoneYet'
  BY DEF PyInv, PyTypeOK, NotDoneYet, CallStep, Begin, Acquire, Refused, Execute, Fail,
         Cancel, Drain, Finish, Methods, Writes, Uses
<1>7. FailedIsNotDone'
  BY DEF PyInv, PyTypeOK, NotDoneYet, FailedIsNotDone, CallStep, Begin, Acquire, Refused,
         Execute, Fail, Cancel, Drain, Finish
<1> QED BY <1>2, <1>3, <1>5, <1>6, <1>7 DEF PyInv

LEMMA NextKeepsInv == PyInv /\ [Next]_vars => PyInv'
<1> SUFFICES ASSUME PyInv, [Next]_vars PROVE PyInv'
  OBVIOUS
<1>1. CASE Next
  BY <1>1, TaskKeepsInv, CallKeepsInv, DropKeepsInv DEF Next
<1>2. CASE UNCHANGED vars
  BY <1>2 DEF vars, taskVars, callVars, PyInv, PyTypeOK, ClosedIsQuiet, ConnectedIsOpen,
              TakenIsOut, NotDoneYet, FailedIsNotDone, Holders
<1> QED BY <1>1, <1>2

THEOREM PyInvariant == PySpec => []PyInv
  BY InitInv, NextKeepsInv, PTL DEF PySpec

\* The variables are well typed, and a call under way is bound to a handle.
THEOREM PyTypeCorrect == PySpec => []PyTypeOK
<1>1. PyInv => PyTypeOK
  BY DEF PyInv
<1> QED BY <1>1, PyInvariant, PTL

\* After close() has returned nothing is executed on what it has closed.
THEOREM ClosedIsQuietHolds == PySpec => []ClosedIsQuiet
<1>1. PyInv => ClosedIsQuiet
  BY DEF PyInv
<1> QED BY <1>1, PyInvariant, PTL

\* PyDatabase::inner never holds a Database that somebody closes.
THEOREM ConnectedIsOpenHolds == PySpec => []ConnectedIsOpen
<1>1. PyInv => ConnectedIsOpen
  BY DEF PyInv
<1> QED BY <1>1, PyInvariant, PTL

\* A method other than update that raises, or add_user that returns False
\* because of an error, has changed nothing.
THEOREM FailedIsNotDoneHolds == PySpec => []FailedIsNotDone
<1>1. PyInv => FailedIsNotDone
  BY DEF PyInv
<1> QED BY <1>1, PyInvariant, PTL
=============================================================================
