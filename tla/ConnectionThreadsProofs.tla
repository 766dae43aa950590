----------------------- MODULE ConnectionThreadsProofs -----------------------
(***************************************************************************)
(* Proofs of ConnectionThreads for any number of users and of calls: the   *)
(* threads implement Http2Connection, whatever becomes of their wake-ups.  *)
(***************************************************************************)
EXTENDS ConnectionThreads, TLAPS

-----------------------------------------------------------------------------
(***************************************************************************)
(* The strengthening.  Where a thread is tells which operations it may be  *)
(* in; the one in reconnect() is the caller; a wait for a disconnection    *)
(* has noticed a connection that is not open.                              *)
(***************************************************************************)
WaitLabels == {"enter", "check", "block", "asleep", "read", "done"}

OperationAt(t) ==
    /\ pc[t] = "idle" => op[t] = "callback"
    /\ pc[t] = "notify" => op[t] \in {"callback", "reconnect", "close", "destroy"}
    /\ pc[t] \in {"drop", "create", "renew"} => op[t] = "reconnect"
    /\ pc[t] \in WaitLabels => op[t] \in {"reconnect", "connected", "disconnected"}
    /\ pc[t] \in {"stop", "join"} => op[t] = "destroy"
    /\ pc[t] = "shutdown" => op[t] \in {"close", "destroy"}
    /\ t = IO => op[t] \in {"callback", "reconnect"}

Noticed(t) ==
    op[t] = "disconnected" =>
        /\ status_ # "OPEN" => down[t]
        /\ pc[t] = "done" /\ result[t] => down[t]

ThreadInv(t) ==
    /\ OperationAt(t)
    /\ op[t] = "reconnect" <=> caller = t
    /\ Noticed(t)

ThreadsInv == TypeOK /\ \A t \in Threads : ThreadInv(t)

-----------------------------------------------------------------------------
\* A step of one thread keeps the types.
LEMMA TypeStep == ASSUME TypeOK, [Next]_vars PROVE TypeOK'
<1> USE ThreadsAssumption DEF TypeOK, Threads, Goto, SetStatus, sessionVars, waitVars,
        callVars, Called, BeginClose, Labels, Operations
<1>1. ASSUME OnConnect PROVE TypeOK'
  <2>1. link' \in {link, "up"} /\ dropped' \subseteq dropped \union {"up"}
    BY <1>1 DEF OnConnect
  <2>2. /\ pc' = [pc EXCEPT ![IO] = "notify"] /\ op' = [op EXCEPT ![IO] = "callback"]
        /\ status_' = "OPEN" /\ news' = TRUE /\ down' \in [Threads -> BOOLEAN]
        /\ UNCHANGED <<session_, waitVars, calls, caller, life>>
    BY <1>1 DEF OnConnect
  <2> QED
    BY <2>1, <2>2
<1>2. ASSUME OnError PROVE TypeOK'
  <2>1. link' \in {link, "down"} /\ dropped' \subseteq dropped
    BY <1>2 DEF OnError
  <2>2. /\ pc' = [pc EXCEPT ![IO] = "notify"] /\ op' = [op EXCEPT ![IO] = "callback"]
        /\ status_' = "CLOSED" /\ down' \in [Threads -> BOOLEAN]
        /\ UNCHANGED <<session_, news, waitVars, calls, caller, life>>
    BY <1>2 DEF OnError
  <2> QED
    BY <2>1, <2>2
<1>3. ASSUME NEW t \in Threads, Notify(t) PROVE TypeOK'
  BY <1>3 DEF Notify, NotifyOne, AfterNotify
<1>4. ASSUME NEW t \in Threads, DropSession(t) PROVE TypeOK'
  BY <1>4 DEF DropSession
<1>5. ASSUME NEW t \in Threads, CreateSession(t) PROVE TypeOK'
  BY <1>5 DEF CreateSession
<1>6. ASSUME NEW t \in Threads, CreateFails(t) PROVE TypeOK'
  BY <1>6 DEF CreateFails
<1>7. ASSUME NEW t \in Threads, RenewStatus(t) PROVE TypeOK'
  BY <1>7 DEF RenewStatus
<1>8. ASSUME NEW t \in Threads, Enter(t) PROVE TypeOK'
  BY <1>8 DEF Enter
<1>9. ASSUME NEW t \in Threads, Check(t) PROVE TypeOK'
  <2>1. /\ \E label \in {"block", "done", "read"} : pc' = [pc EXCEPT ![t] = label]
        /\ mutex' \in {mutex, NoThread}
        /\ result' = result \/ result' = [result EXCEPT ![t] = TRUE]
        /\ UNCHANGED <<status_, news, down, sessionVars, woken, callVars>>
    BY <1>9 DEF Check
  <2>2. PICK label \in {"block", "done", "read"} : pc' = [pc EXCEPT ![t] = label]
    BY <2>1
  <2>3. /\ pc' \in [Threads -> Labels] /\ mutex' \in Threads \union {NoThread}
        /\ result' \in [Threads -> BOOLEAN]
    BY <2>1, <2>2
  <2> QED
    BY <2>1, <2>3
<1>10. ASSUME NEW t \in Threads, Block(t) PROVE TypeOK'
  BY <1>10 DEF Block
<1>11. ASSUME NEW t \in Threads, WakeUp(t) PROVE TypeOK'
  BY <1>11 DEF WakeUp
<1>12. ASSUME NEW t \in Threads, TimesOut(t) PROVE TypeOK'
  BY <1>12 DEF TimesOut
<1>13. ASSUME NEW t \in Threads, Read(t) PROVE TypeOK'
  BY <1>13 DEF Read
<1>14. ASSUME NEW t \in Threads, Return(t) PROVE TypeOK'
  BY <1>14 DEF Return
<1>15. ASSUME NEW t \in Threads, Stop(t) PROVE TypeOK'
  BY <1>15 DEF Stop
<1>16. ASSUME NEW t \in Threads, Join(t) PROVE TypeOK'
  BY <1>16 DEF Join
<1>17. ASSUME NEW t \in Threads, Shutdown(t) PROVE TypeOK'
  BY <1>17 DEF Shutdown
<1>18. ASSUME NEW t \in Threads, BeginReconnect(t) PROVE TypeOK'
  BY <1>18 DEF BeginReconnect, CanCall
<1>19. ASSUME NEW t \in Threads, BeginWait(t) PROVE TypeOK'
  BY <1>19 DEF BeginWait, CanCall
<1>20. ASSUME NEW t \in Threads, BeginCloseCall(t) PROVE TypeOK'
  BY <1>20 DEF BeginCloseCall, CanCall
<1>21. ASSUME NEW t \in Threads, BeginDestroy(t) PROVE TypeOK'
  BY <1>21 DEF BeginDestroy, CanCall
<1>22. CASE UNCHANGED vars
  BY <1>22 DEF vars
<1> QED
  BY <1>1, <1>2, <1>3, <1>4, <1>5, <1>6, <1>7, <1>8, <1>9, <1>10, <1>11, <1>12,
     <1>13, <1>14, <1>15, <1>16, <1>17, <1>18, <1>19, <1>20, <1>21, <1>22
     DEF Next, Step

\* It keeps the strengthening: no thread moves another one to a place its
\* operation does not have, and all that wait for a disconnection see it.
LEMMA ThreadsInvStep == ASSUME ThreadsInv, TypeOK', [Next]_vars PROVE ThreadsInv'
<1> USE ThreadsAssumption DEF ThreadsInv, ThreadInv, OperationAt, Noticed, WaitLabels,
        TypeOK, Threads, Goto, SetStatus, sessionVars, waitVars, callVars, BeginClose,
        Labels, Operations, isConnected
<1>1. ASSUME OnConnect PROVE ThreadsInv'
  BY <1>1 DEF OnConnect, IoFree
<1>2. ASSUME OnError PROVE ThreadsInv'
  BY <1>2 DEF OnError, IoFree
<1>3. ASSUME NEW t \in Threads, Notify(t) PROVE ThreadsInv'
  BY <1>3 DEF Notify, NotifyOne, AfterNotify
<1>4. ASSUME NEW t \in Threads, DropSession(t) PROVE ThreadsInv'
  BY <1>4 DEF DropSession
<1>5. ASSUME NEW t \in Threads, CreateSession(t) PROVE ThreadsInv'
  BY <1>5 DEF CreateSession
<1>6. ASSUME NEW t \in Threads, CreateFails(t) PROVE ThreadsInv'
  BY <1>6 DEF CreateFails
<1>7. ASSUME NEW t \in Threads, RenewStatus(t) PROVE ThreadsInv'
  BY <1>7 DEF RenewStatus
<1>8. ASSUME NEW t \in Threads, Enter(t) PROVE ThreadsInv'
  BY <1>8 DEF Enter
<1>9. ASSUME NEW t \in Threads, Check(t) PROVE ThreadsInv'
  BY <1>9 DEF Check, Awaited
<1>10. ASSUME NEW t \in Threads, Block(t) PROVE ThreadsInv'
  BY <1>10 DEF Block
<1>11. ASSUME NEW t \in Threads, WakeUp(t) PROVE ThreadsInv'
  BY <1>11 DEF WakeUp
<1>12. ASSUME NEW t \in Threads, TimesOut(t) PROVE ThreadsInv'
  BY <1>12 DEF TimesOut
<1>13. ASSUME NEW t \in Threads, Read(t) PROVE ThreadsInv'
  BY <1>13 DEF Read
<1>14. ASSUME NEW t \in Threads, Return(t) PROVE ThreadsInv'
  BY <1>14 DEF Return
<1>15. ASSUME NEW t \in Threads, Stop(t) PROVE ThreadsInv'
  BY <1>15 DEF Stop
<1>16. ASSUME NEW t \in Threads, Join(t) PROVE ThreadsInv'
  BY <1>16 DEF Join
<1>17. ASSUME NEW t \in Threads, Shutdown(t) PROVE ThreadsInv'
  BY <1>17 DEF Shutdown
<1>18. ASSUME NEW t \in Threads, BeginReconnect(t) PROVE ThreadsInv'
  <2>1. pc[t] = "idle"
    BY <1>18 DEF BeginReconnect, CanCall
  <2>2. ASSUME NEW u \in Threads PROVE OperationAt(u)'
    BY <1>18, <2>1 DEF BeginReconnect
  <2>3. ASSUME NEW u \in Threads PROVE (op[u] = "reconnect" <=> caller = u)'
    BY <1>18, <2>1 DEF BeginReconnect
  <2>4. ASSUME NEW u \in Threads PROVE Noticed(u)'
    BY <1>18, <2>1 DEF BeginReconnect
  <2> QED
    BY <2>2, <2>3, <2>4
<1>19. ASSUME NEW t \in Threads, BeginWait(t) PROVE ThreadsInv'
  <2>1. pc[t] = "idle"
    BY <1>19 DEF BeginWait, CanCall
  <2>2. ASSUME NEW u \in Threads PROVE OperationAt(u)'
    BY <1>19, <2>1 DEF BeginWait
  <2>3. ASSUME NEW u \in Threads PROVE (op[u] = "reconnect" <=> caller = u)'
    BY <1>19, <2>1 DEF BeginWait
  <2>4. ASSUME NEW u \in Threads PROVE Noticed(u)'
    <3>1. PICK operation \in {"connected", "disconnected"} :
             /\ op' = [op EXCEPT ![t] = operation]
             /\ down' = [down EXCEPT ![t] = operation = "disconnected" /\ ~isConnected]
      BY <1>19 DEF BeginWait
    <3>2. pc'[t] = "enter" /\ status_' = status_ /\ result' = result
      BY <1>19 DEF BeginWait
    <3>3. CASE u = t
      BY <3>1, <3>2, <3>3
    <3>4. CASE u # t
      <4>1. op'[u] = op[u] /\ down'[u] = down[u] /\ pc'[u] = pc[u]
        BY <1>19, <3>1, <3>4 DEF BeginWait
      <4> QED
        BY <3>2, <4>1
    <3> QED
      BY <3>3, <3>4
  <2> QED
    BY <2>2, <2>3, <2>4
<1>20. ASSUME NEW t \in Threads, BeginCloseCall(t) PROVE ThreadsInv'
  <2>1. pc[t] = "idle"
    BY <1>20 DEF BeginCloseCall, CanCall
  <2>2. ASSUME NEW u \in Threads PROVE OperationAt(u)'
    BY <1>20, <2>1 DEF BeginCloseCall
  <2>3. ASSUME NEW u \in Threads PROVE (op[u] = "reconnect" <=> caller = u)'
    BY <1>20, <2>1 DEF BeginCloseCall
  <2>4. ASSUME NEW u \in Threads PROVE Noticed(u)'
    BY <1>20, <2>1 DEF BeginCloseCall
  <2> QED
    BY <2>2, <2>3, <2>4
<1>21. ASSUME NEW t \in Threads, BeginDestroy(t) PROVE ThreadsInv'
  <2>1. pc[t] = "idle"
    BY <1>21 DEF BeginDestroy, CanCall
  <2> QED
    BY <1>21, <2>1 DEF BeginDestroy
<1>22. CASE UNCHANGED vars
  BY <1>22 DEF vars
<1> QED
  BY <1>1, <1>2, <1>3, <1>4, <1>5, <1>6, <1>7, <1>8, <1>9, <1>10, <1>11, <1>12,
     <1>13, <1>14, <1>15, <1>16, <1>17, <1>18, <1>19, <1>20, <1>21, <1>22
     DEF Next, Step

-----------------------------------------------------------------------------
(***************************************************************************)
(* The refinement.  A wait, a mutex and a notification are stutters of     *)
(* Http2Connection until the step that reads the status for the result.    *)
(***************************************************************************)
ConnectionStep == [Connection!Next]_(Connection!vars)

\* Each step of a thread is one of the connection or leaves it alone: it is the
\* only thread in reconnect(), or not the one whose place the mapping shows.
LEMMA KeepsConnectionStep ==
    ASSUME ThreadsInv, TypeOK', [Next]_vars PROVE ConnectionStep
<1> USE ThreadsAssumption DEF ConnectionStep, ThreadsInv, ThreadInv, OperationAt,
        WaitLabels, TypeOK, Threads, Goto, SetStatus, sessionVars, waitVars, callVars,
        BeginClose, Labels, Operations, isConnected, At, Connection!Next,
        Connection!vars, Connection!ReconnectStep
<1>1. ASSUME OnConnect PROVE ConnectionStep
  BY <1>1 DEF OnConnect, Connection!OnConnect, Connection!OldOnConnect, IoFree
<1>2. ASSUME OnError PROVE ConnectionStep
  BY <1>2 DEF OnError, Connection!OnError, Connection!OldOnError, IoFree
<1>3. ASSUME NEW t \in Threads, Notify(t) PROVE ConnectionStep
  BY <1>3 DEF Notify, AfterNotify
<1>4. ASSUME NEW t \in Threads, DropSession(t) PROVE ConnectionStep
  BY <1>4 DEF DropSession, Connection!DropSession
<1>5. ASSUME NEW t \in Threads, CreateSession(t) PROVE ConnectionStep
  <2>1. caller = t /\ caller' = t /\ pc[t] = "create" /\ pc'[t] = "renew"
    BY <1>5 DEF CreateSession
  <2>2. At = "create" /\ At' = "renew"
    BY <2>1
  <2> QED
    BY <1>5, <2>2 DEF CreateSession, Connection!CreateSession
<1>6. ASSUME NEW t \in Threads, CreateFails(t) PROVE ConnectionStep
  <2>1. caller = t /\ caller' = t /\ pc[t] = "create" /\ pc'[t] = "done"
    BY <1>6 DEF CreateFails
  <2>2. ~result'[t]
    BY <1>6 DEF CreateFails
  <2>3. At = "create" /\ At' = "failed"
    BY <2>1, <2>2
  <2> QED
    BY <1>6, <2>3 DEF CreateFails, Connection!CreateFails
<1>7. ASSUME NEW t \in Threads, RenewStatus(t) PROVE ConnectionStep
  BY <1>7 DEF RenewStatus, Connection!RenewStatus
<1>8. ASSUME NEW t \in Threads, Enter(t) PROVE ConnectionStep
  BY <1>8 DEF Enter
<1>9. ASSUME NEW t \in Threads, Check(t) PROVE ConnectionStep
  BY <1>9 DEF Check
<1>10. ASSUME NEW t \in Threads, Block(t) PROVE ConnectionStep
  BY <1>10 DEF Block
<1>11. ASSUME NEW t \in Threads, WakeUp(t) PROVE ConnectionStep
  BY <1>11 DEF WakeUp
<1>12. ASSUME NEW t \in Threads, TimesOut(t) PROVE ConnectionStep
  BY <1>12 DEF TimesOut
<1>13. ASSUME NEW t \in Threads, Read(t) PROVE ConnectionStep
  BY <1>13 DEF Read, Connection!WaitReturns, Connection!isConnected
<1>14. ASSUME NEW t \in Threads, Return(t) PROVE ConnectionStep
  BY <1>14 DEF Return, Connection!ReconnectReturns
<1>15. ASSUME NEW t \in Threads, Stop(t) PROVE ConnectionStep
  BY <1>15 DEF Stop
<1>16. ASSUME NEW t \in Threads, Join(t) PROVE ConnectionStep
  BY <1>16 DEF Join
<1>17. ASSUME NEW t \in Threads, Shutdown(t) PROVE ConnectionStep
  BY <1>17 DEF Shutdown, Connection!Shutdown
<1>18. ASSUME NEW t \in Threads, BeginReconnect(t) PROVE ConnectionStep
  <2>1. pc[t] = "idle"
    BY <1>18 DEF BeginReconnect, CanCall
  <2> QED
    BY <1>18, <2>1 DEF BeginReconnect, Connection!BeginReconnect
<1>19. ASSUME NEW t \in Threads, BeginWait(t) PROVE ConnectionStep
  <2>1. pc[t] = "idle"
    BY <1>19 DEF BeginWait, CanCall
  <2> QED
    BY <1>19, <2>1 DEF BeginWait
<1>20. ASSUME NEW t \in Threads, BeginCloseCall(t) PROVE ConnectionStep
  <2>1. pc[t] = "idle"
    BY <1>20 DEF BeginCloseCall, CanCall
  <2> QED
    BY <1>20, <2>1 DEF BeginCloseCall, Connection!notifyClose
<1>21. ASSUME NEW t \in Threads, BeginDestroy(t) PROVE ConnectionStep
  <2>1. pc[t] = "idle"
    BY <1>21 DEF BeginDestroy, CanCall
  <2> QED
    BY <1>21, <2>1 DEF BeginDestroy, Connection!notifyClose
<1>22. CASE UNCHANGED vars
  BY <1>22 DEF vars
<1> QED
  BY <1>1, <1>2, <1>3, <1>4, <1>5, <1>6, <1>7, <1>8, <1>9, <1>10, <1>11, <1>12,
     <1>13, <1>14, <1>15, <1>16, <1>17, <1>18, <1>19, <1>20, <1>21, <1>22
     DEF Next, Step

-----------------------------------------------------------------------------
\* The object has just been made: its threads are idle.
LEMMA ThreadsInvInit == ASSUME Init PROVE ThreadsInv
<1>1. TypeOK
  <2>1. result \in [Threads -> BOOLEAN] /\ down \in [Threads -> BOOLEAN]
    BY DEF Init
  <2>2. calls \in [Threads -> 0..MaxCalls]
    BY ThreadsAssumption DEF Init
  <2> QED
    BY <2>1, <2>2 DEF Init, TypeOK, Labels, Operations
<1>2. ASSUME NEW t \in Threads PROVE ThreadInv(t)
  BY ThreadsAssumption
     DEF Init, ThreadInv, OperationAt, Noticed, WaitLabels, Threads
<1> QED
  BY <1>1, <1>2 DEF ThreadsInv

\* The strengthening holds in every reachable state.
THEOREM Strengthened == Spec => []ThreadsInv
<1>1. ThreadsInv /\ [Next]_vars => ThreadsInv'
  BY TypeStep, ThreadsInvStep DEF ThreadsInv
<1> QED
  BY <1>1, ThreadsInvInit, PTL DEF Spec

\* Every reachable state has its types, for any number of users and calls.
THEOREM ThreadsTypes == Spec => []TypeOK
<1>1. ThreadsInv => TypeOK
  BY DEF ThreadsInv
<1> QED
  BY <1>1, Strengthened, PTL

\* waitToBeDisconnected() returns true only if the connection was not open at some
\* time of the wait, however late the thread wakes up (Http2Connection.cpp).
THEOREM DisconnectionsAreTrue == Spec => []TrueMeansDisconnected
<1>1. ThreadsInv => TrueMeansDisconnected
  BY DEF ThreadsInv, ThreadInv, Noticed, TrueMeansDisconnected, Threads
<1> QED
  BY <1>1, Strengthened, PTL

\* The threads with their mutex and condition variable implement the connection
\* that Http2Client is checked with (Http2Connection.cpp, reconnect() and
\* waitToBeConnected()).
THEOREM ThreadsKeepConnection == Spec => KeepsConnection
<1>1. Init => Connection!Init
  BY DEF Init, Connection!Init, At
<1>2. ThreadsInv /\ [Next]_vars => [Connection!Next]_(Connection!vars)
  BY TypeStep, KeepsConnectionStep DEF ThreadsInv, ConnectionStep
<1> QED
  BY <1>1, <1>2, Strengthened, PTL DEF Spec, KeepsConnection, Connection!Spec

-----------------------------------------------------------------------------
(***************************************************************************)
(* The end of the object.  The destructor runs alone among the users, and  *)
(* once it has joined the io thread only its own last step is left.        *)
(***************************************************************************)
Alone(d) == \A t \in Threads : t # d => pc[t] = "idle"

JoinInv ==
    /\ \A d \in Users : op[d] = "destroy" =>
          /\ \A u \in Users : u # d => pc[u] = "idle"
          /\ pc[d] = "shutdown" => life = "joined"
    /\ life = "joined" =>
          \E d \in Users : op[d] = "destroy" /\ pc[d] = "shutdown" /\ Alone(d)
    /\ life = "gone" => \A t \in Threads : pc[t] = "idle"

\* A call begins while the object is used; one of a user, before the destructor.
LEMMA CallsAreEarly ==
    ASSUME ThreadsInv, NEW t \in Threads, CanCall(t)
    PROVE  /\ pc[t] = "idle" /\ life = "used"
           /\ t \in Users => \A u \in Users : op[u] # "destroy"
  BY DEF CanCall, ThreadsInv, ThreadInv, OperationAt, Threads

\* A thread that moves keeps the destructor alone, or is the destructor.
LEMMA JoinInvStep == ASSUME ThreadsInv, TypeOK', JoinInv, [Next]_vars PROVE JoinInv'
<1> USE ThreadsAssumption DEF JoinInv, Alone, ThreadsInv, ThreadInv, OperationAt,
        WaitLabels, TypeOK, Threads, Goto, sessionVars, waitVars, callVars,
        BeginClose, Labels, Operations
<1>1. ASSUME OnConnect PROVE JoinInv'
  BY <1>1 DEF OnConnect, IoFree
<1>2. ASSUME OnError PROVE JoinInv'
  BY <1>2 DEF OnError, IoFree
<1>3. ASSUME NEW t \in Threads, Notify(t) PROVE JoinInv'
  BY <1>3 DEF Notify, AfterNotify
<1>4. ASSUME NEW t \in Threads, DropSession(t) PROVE JoinInv'
  BY <1>4 DEF DropSession
<1>5. ASSUME NEW t \in Threads, CreateSession(t) PROVE JoinInv'
  BY <1>5 DEF CreateSession
<1>6. ASSUME NEW t \in Threads, CreateFails(t) PROVE JoinInv'
  BY <1>6 DEF CreateFails
<1>7. ASSUME NEW t \in Threads, RenewStatus(t) PROVE JoinInv'
  BY <1>7 DEF RenewStatus
<1>8. ASSUME NEW t \in Threads, Enter(t) PROVE JoinInv'
  BY <1>8 DEF Enter
<1>9. ASSUME NEW t \in Threads, Check(t) PROVE JoinInv'
  BY <1>9 DEF Check
<1>10. ASSUME NEW t \in Threads, Block(t) PROVE JoinInv'
  BY <1>10 DEF Block
<1>11. ASSUME NEW t \in Threads, WakeUp(t) PROVE JoinInv'
  BY <1>11 DEF WakeUp
<1>12. ASSUME NEW t \in Threads, TimesOut(t) PROVE JoinInv'
  BY <1>12 DEF TimesOut
<1>13. ASSUME NEW t \in Threads, Read(t) PROVE JoinInv'
  BY <1>13 DEF Read
<1>14. ASSUME NEW t \in Threads, Return(t) PROVE JoinInv'
  BY <1>14 DEF Return
<1>15. ASSUME NEW t \in Threads, Stop(t) PROVE JoinInv'
  BY <1>15 DEF Stop
<1>16. ASSUME NEW t \in Threads, Join(t) PROVE JoinInv'
  BY <1>16 DEF Join
<1>17. ASSUME NEW t \in Threads, Shutdown(t) PROVE JoinInv'
  BY <1>17 DEF Shutdown
<1>18. ASSUME NEW t \in Threads, BeginReconnect(t) PROVE JoinInv'
  <2>1. CanCall(t)
    BY <1>18 DEF BeginReconnect
  <2> QED
    BY <1>18, <2>1, CallsAreEarly DEF BeginReconnect
<1>19. ASSUME NEW t \in Threads, BeginWait(t) PROVE JoinInv'
  <2>1. CanCall(t)
    BY <1>19 DEF BeginWait
  <2> QED
    BY <1>19, <2>1, CallsAreEarly DEF BeginWait
<1>20. ASSUME NEW t \in Threads, BeginCloseCall(t) PROVE JoinInv'
  <2>1. CanCall(t)
    BY <1>20 DEF BeginCloseCall
  <2> QED
    BY <1>20, <2>1, CallsAreEarly DEF BeginCloseCall
<1>21. ASSUME NEW t \in Threads, BeginDestroy(t) PROVE JoinInv'
  <2>1. pc[t] = "idle" /\ life = "used"
    BY <1>21 DEF BeginDestroy, CanCall
  <2> QED
    BY <1>21, <2>1 DEF BeginDestroy
<1>22. CASE UNCHANGED vars
  BY <1>22 DEF vars
<1> QED
  BY <1>1, <1>2, <1>3, <1>4, <1>5, <1>6, <1>7, <1>8, <1>9, <1>10, <1>11, <1>12,
     <1>13, <1>14, <1>15, <1>16, <1>17, <1>18, <1>19, <1>20, <1>21, <1>22
     DEF Next, Step

\* After the join nothing but the destructor's last step is possible.
LEMMA OnlyTheDestructorMoves ==
    ASSUME ThreadsInv, JoinInv, [Next]_vars, life \in {"joined", "gone"}
    PROVE  UNCHANGED <<status_, woken, pc[IO]>>
<1>1. CASE UNCHANGED vars
  BY <1>1 DEF vars, waitVars
<1>2. CASE \E t \in Threads : Shutdown(t)
  <2>1. PICK t \in Threads : Shutdown(t)
    BY <1>2
  <2>2. t \in Users
    BY <2>1 DEF Shutdown, ThreadsInv, ThreadInv, OperationAt, Threads
  <2> QED
    BY <2>1, <2>2, ThreadsAssumption DEF Shutdown, Goto, waitVars, ThreadsInv, TypeOK
<1>3. CASE ~(\E t \in Threads : Shutdown(t)) /\ ~UNCHANGED vars
  <2>1. ASSUME NEW t \in Threads PROVE pc[t] \in {"idle", "shutdown"}
    BY DEF JoinInv, Alone
  <2>2. ASSUME NEW t \in Threads PROVE ~CanCall(t)
    BY DEF CanCall
  <2>3. ASSUME NEW t \in Threads PROVE ~Step(t)
    BY <1>3, <2>1 DEF Step, Notify, DropSession, CreateSession, CreateFails, RenewStatus,
          Enter, Check, Block, WakeUp, TimesOut, Read, Return, Stop, Join
  <2>4. ASSUME NEW t \in Threads
        PROVE ~(BeginReconnect(t) \/ BeginWait(t) \/ BeginCloseCall(t) \/ BeginDestroy(t))
    BY <2>2 DEF BeginReconnect, BeginWait, BeginCloseCall, BeginDestroy
  <2> QED
    BY <1>3, <2>3, <2>4 DEF Next, OnConnect, OnError, IoFree
<1> QED
  BY <1>1, <1>2, <1>3

\* The destructor is alone, in every reachable state.
LEMMA JoinInvHolds == Spec => []JoinInv
<1>1. Init => JoinInv
  BY DEF Init, JoinInv, Threads
<1>2. ThreadsInv /\ JoinInv /\ [Next]_vars => JoinInv'
  BY TypeStep, JoinInvStep DEF ThreadsInv
<1> QED
  BY <1>1, <1>2, Strengthened, PTL DEF Spec

\* Once the io thread is joined, no callback changes the object, not even if it was
\* in reconnect() for a delayed request when the destructor began
\* (Http2Connection.cpp, closeImpl()).
THEOREM NothingFollowsTheJoin == Spec => NothingAfterTheJoin
<1>1. ThreadsInv /\ JoinInv /\ [Next]_vars
        => [(life \in {"joined", "gone"}) => UNCHANGED <<status_, woken, pc[IO]>>]_vars
  BY OnlyTheDestructorMoves
<1> QED
  BY <1>1, JoinInvHolds, Strengthened, PTL DEF Spec, NothingAfterTheJoin

-----------------------------------------------------------------------------
(***************************************************************************)
(* What reconnect() returns.  It is proved of Http2Connection, where a     *)
(* wait is one step, and carried over by the refinement.                   *)
(***************************************************************************)
OpenIsNews ==
    /\ At = "wait" /\ status_ = "OPEN" => news
    /\ At = "connected" => news

\* An OPEN status is news for the one that waits: it was renewed before the wait, and
\* only on_connect sets it since (Http2Connection.cpp, reconnect()).
LEMMA ConnectionOnNews == Connection!Spec => []Connection!ConnectedIsNews
<1> USE DEF OpenIsNews
<1>1. Connection!Init => OpenIsNews
  BY DEF Connection!Init
<1>2. ASSUME OpenIsNews, [Connection!Next]_(Connection!vars) PROVE OpenIsNews'
  <2>1. CASE Connection!OnConnect \/ Connection!OldOnConnect
    BY <1>2, <2>1 DEF Connection!OnConnect, Connection!OldOnConnect
  <2>2. CASE Connection!OnError \/ Connection!OldOnError \/ Connection!notifyClose
    BY <1>2, <2>2 DEF Connection!OnError, Connection!OldOnError, Connection!notifyClose
  <2>3. CASE Connection!BeginReconnect
    BY <1>2, <2>3 DEF Connection!BeginReconnect
  <2>4. CASE Connection!DropSession
    BY <1>2, <2>4 DEF Connection!DropSession
  <2>5. CASE Connection!CreateSession \/ Connection!CreateFails
    BY <1>2, <2>5 DEF Connection!CreateSession, Connection!CreateFails
  <2>6. CASE Connection!RenewStatus
    BY <1>2, <2>6 DEF Connection!RenewStatus
  <2>7. CASE Connection!WaitReturns
    BY <1>2, <2>7 DEF Connection!WaitReturns, Connection!isConnected
  <2>8. CASE Connection!ReconnectReturns
    BY <1>2, <2>8 DEF Connection!ReconnectReturns
  <2>9. CASE Connection!Shutdown
    BY <1>2, <2>9 DEF Connection!Shutdown
  <2>10. CASE UNCHANGED Connection!vars
    BY <1>2, <2>10 DEF Connection!vars
  <2> QED
    BY <1>2, <2>1, <2>2, <2>3, <2>4, <2>5, <2>6, <2>7, <2>8, <2>9, <2>10
       DEF Connection!Next, Connection!ReconnectStep
<1>3. OpenIsNews => Connection!ConnectedIsNews
  BY DEF Connection!ConnectedIsNews
<1> QED
  BY <1>1, <1>2, <1>3, PTL DEF Connection!Spec

\* No wake-up makes reconnect() return true for a connection from before: whatever
\* the threads do is within Http2Connection (Http2Connection.cpp, reconnect()).
THEOREM TrueIsNews == Spec => []TrueMeansNews
<1>1. ThreadsInv /\ Connection!ConnectedIsNews => TrueMeansNews
  <2> SUFFICES ASSUME ThreadsInv, Connection!ConnectedIsNews, NEW t \in Threads,
                      pc[t] = "done", op[t] = "reconnect", result[t]
               PROVE  news
    BY DEF TrueMeansNews
  <2>1. caller = t /\ caller # NoThread
    BY ThreadsAssumption DEF ThreadsInv, ThreadInv, Threads
  <2>2. At = "connected"
    BY <2>1 DEF At
  <2> QED
    BY <2>2 DEF Connection!ConnectedIsNews
<1> QED
  BY <1>1, Strengthened, ThreadsKeepConnection, ConnectionOnNews, PTL DEF KeepsConnection

-----------------------------------------------------------------------------
(***************************************************************************)
(* No deadlock.  The mutex is held by the one thread that is between the   *)
(* steps of a wait, which needs nothing to go on; and the destructor has   *)
(* stopped the io context before it waits for its thread.                  *)
(***************************************************************************)
MutexInv ==
    /\ \A t \in Threads : pc[t] \in {"check", "block", "read"} <=> mutex = t
    /\ \A t \in Threads : pc[t] = "join" => life = "stopped"

\* A thread moves in and out of the critical section with the mutex, and no other
\* destructor changes the life of the object.
LEMMA MutexInvStep ==
    ASSUME ThreadsInv, TypeOK', JoinInv, MutexInv, [Next]_vars PROVE MutexInv'
<1> USE ThreadsAssumption DEF MutexInv, TypeOK, Threads, Goto, sessionVars, waitVars,
        callVars, BeginClose, Labels, ThreadsInv
<1>1. ASSUME OnConnect PROVE MutexInv'
  BY <1>1 DEF OnConnect, IoFree
<1>2. ASSUME OnError PROVE MutexInv'
  BY <1>2 DEF OnError, IoFree
<1>3. ASSUME NEW t \in Threads, Notify(t) PROVE MutexInv'
  BY <1>3 DEF Notify, AfterNotify
<1>4. ASSUME NEW t \in Threads, DropSession(t) PROVE MutexInv'
  BY <1>4 DEF DropSession
<1>5. ASSUME NEW t \in Threads, CreateSession(t) \/ CreateFails(t) PROVE MutexInv'
  BY <1>5 DEF CreateSession, CreateFails
<1>6. ASSUME NEW t \in Threads, RenewStatus(t) PROVE MutexInv'
  BY <1>6 DEF RenewStatus
<1>7. ASSUME NEW t \in Threads, Enter(t) PROVE MutexInv'
  BY <1>7 DEF Enter
<1>8. ASSUME NEW t \in Threads, Check(t) PROVE MutexInv'
  BY <1>8 DEF Check
<1>9. ASSUME NEW t \in Threads, Block(t) PROVE MutexInv'
  BY <1>9 DEF Block
<1>10. ASSUME NEW t \in Threads, WakeUp(t) \/ TimesOut(t) PROVE MutexInv'
  BY <1>10 DEF WakeUp, TimesOut
<1>11. ASSUME NEW t \in Threads, Read(t) PROVE MutexInv'
  BY <1>11 DEF Read
<1>12. ASSUME NEW t \in Threads, Return(t) PROVE MutexInv'
  BY <1>12 DEF Return
<1>13. ASSUME NEW t \in Threads, Stop(t) PROVE MutexInv'
  BY <1>13 DEF Stop
<1>14. ASSUME NEW t \in Threads, Join(t) \/ Shutdown(t) PROVE MutexInv'
  <2>1. /\ pc[t] \in {"join", "shutdown"} /\ UNCHANGED mutex
        /\ pc' = [pc EXCEPT ![t] = IF pc[t] = "join" THEN "shutdown" ELSE "idle"]
        /\ life' # life => op[t] = "destroy"
    BY <1>14 DEF Join, Shutdown, ThreadInv, OperationAt
  <2>2. ASSUME NEW u \in Threads, pc'[u] = "join" PROVE life' = "stopped"
    <3>1. u # t /\ pc[u] = "join"
      BY <2>1, <2>2
    <3>2. op[u] = "destroy" /\ u \in Users
      BY <3>1 DEF ThreadInv, OperationAt
    <3>3. op[t] # "destroy"
      BY <2>1, <3>1, <3>2 DEF JoinInv, ThreadInv, OperationAt
    <3> QED
      BY <2>1, <3>1, <3>3
  <2> QED
    BY <2>1, <2>2
<1>15. ASSUME NEW t \in Threads, BeginReconnect(t) PROVE MutexInv'
  BY <1>15 DEF BeginReconnect, CanCall
<1>16. ASSUME NEW t \in Threads, BeginWait(t) PROVE MutexInv'
  BY <1>16 DEF BeginWait, CanCall
<1>17. ASSUME NEW t \in Threads, BeginCloseCall(t) PROVE MutexInv'
  BY <1>17 DEF BeginCloseCall, CanCall
<1>18. ASSUME NEW t \in Threads, BeginDestroy(t) PROVE MutexInv'
  BY <1>18 DEF BeginDestroy, CanCall
<1>19. CASE UNCHANGED vars
  BY <1>19 DEF vars
<1> QED
  BY <1>1, <1>2, <1>3, <1>4, <1>5, <1>6, <1>7, <1>8, <1>9, <1>10, <1>11, <1>12,
     <1>13, <1>14, <1>15, <1>16, <1>17, <1>18, <1>19 DEF Next, Step

\* If a thread has the mutex, it can go on; if none has, all can that do not wait for
\* the io thread, and the destructor waits for it only as long as it is one of them.
LEMMA NotAllWait == ASSUME ThreadsInv, MutexInv PROVE SomeoneCanGoOn
<1> SUFFICES ASSUME NEW t \in Threads, pc[t] # "idle"
             PROVE  \E u \in Threads : CanGoOn(u)
  BY DEF SomeoneCanGoOn
<1>1. CASE mutex # NoThread
  <2>1. mutex \in Threads /\ pc[mutex] \in {"check", "block", "read"}
    BY <1>1 DEF ThreadsInv, TypeOK, MutexInv
  <2>2. CanGoOn(mutex)
    BY <2>1 DEF CanGoOn
  <2> QED
    BY <2>1, <2>2
<1>2. CASE mutex = NoThread /\ pc[t] # "join"
  BY <1>2 DEF CanGoOn
<1>3. CASE mutex = NoThread /\ pc[t] = "join"
  <2>1. life = "stopped" /\ IO \in Threads
    BY <1>3 DEF MutexInv, Threads
  <2>2. CASE pc[IO] = "idle"
    BY <1>3, <2>1, <2>2 DEF CanGoOn
  <2>3. CASE pc[IO] # "idle"
    <3>1. pc[IO] # "join"
      BY <2>1 DEF ThreadsInv, ThreadInv, OperationAt
    <3> QED
      BY <1>3, <2>1, <2>3, <3>1 DEF CanGoOn
  <2> QED
    BY <2>2, <2>3
<1> QED
  BY <1>1, <1>2, <1>3

\* As long as a thread is inside an operation, one of them can go on, for any number
\* of users and of calls (Http2Connection.cpp, closeImpl() and the two waits).
THEOREM NoDeadlock == Spec => []SomeoneCanGoOn
<1>1. Init => MutexInv
  BY ThreadsAssumption DEF Init, MutexInv, Threads
<1>2. ThreadsInv /\ JoinInv /\ MutexInv /\ [Next]_vars => MutexInv'
  BY TypeStep, MutexInvStep DEF ThreadsInv
<1>3. Spec => []MutexInv
  BY <1>1, <1>2, Strengthened, JoinInvHolds, PTL DEF Spec
<1> QED
  BY <1>3, NotAllWait, Strengthened, PTL
=============================================================================
