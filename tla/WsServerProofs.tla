--------------------------- MODULE WsServerProofs ---------------------------
(***************************************************************************)
(* Theorems about WsServer, for every set of sessions and every bound on   *)
(* the backlog.  Three inductive facts, each relying on the ones before:   *)
(* TypeOK, Inv (who holds the mutex, who owns which object) and LifeInv    *)
(* (in which order a session is opened, announced, closed and freed); then *)
(* ClosedInv, and that every step is one of SessionRegistry or none of it. *)
(* Each has one lemma per thread or method, with one step per action.      *)
(***************************************************************************)
EXTENDS WsServer, TLAPS

USE ThreadsAssumption, BacklogAssumption

-----------------------------------------------------------------------------
(* Types *)

(* The initial state has the declared types.                               *)
LEMMA InitType == Init => TypeOK
<1> SUFFICES ASSUME Init PROVE TypeOK
  OBVIOUS
<1>1. pc \in [Threads -> {"none", "idle", "new"}]
  BY DEF Init, Threads, Workers, Srv, Bcast, Ctl
<1>2. /\ \A s \in Sessions : pc[s] = "none"
      /\ pc[Srv] = "none" /\ pc[Bcast] = "idle" /\ pc[Ctl] = "new"
  BY DEF Init, Threads, Workers, Srv, Bcast, Ctl
<1>3. pc \in [Threads -> SessionLabels \cup BcastLabels \cup SrvLabels \cup CtlLabels]
  BY <1>1 DEF SessionLabels, BcastLabels, CtlLabels
<1>4. backlog \in 0..MaxBacklog
  BY DEF Init
<1> QED
  BY <1>2, <1>3, <1>4 DEF Init, TypeOK, SessionLabels, BcastLabels, SrvLabels, CtlLabels

(* Every lemma below looks labels and threads up, and follows variables    *)
(* that an action leaves alone.                                            *)
USE DEF Threads, Workers, Srv, Bcast, Ctl, SessionLabels, BcastLabels, SrvLabels,
        CtlLabels, SetupLabels, CloseLabels, CloseCodeLabels, DeleteLabels,
        Goto, Local, SetReadyState, SetRunning, Report, Joined, Announce, Sendable, Typeable,
        Removable, Target, Return, srvVars, sessVars, locVars

(* The thread labels, and the fields of the sessions, as TypeOK has them.  *)
PcOK ==
  /\ pc \in [Threads -> SessionLabels \cup BcastLabels \cup SrvLabels \cup CtlLabels]
  /\ \A s \in Sessions : pc[s] \in SessionLabels
  /\ pc[Srv] \in SrvLabels /\ pc[Bcast] \in BcastLabels /\ pc[Ctl] \in CtlLabels
FieldsOK ==
  /\ obj \in [Sessions -> {"absent", "live", "freed"}]
  /\ readyState \in [Sessions -> {"CONNECTING", "OPEN", "CLOSING", "CLOSED"}]
  /\ type \in [Sessions -> {"TEXT", "BINARY"}]
  /\ srunning \in [Sessions -> BOOLEAN] /\ announced \in [Sessions -> BOOLEAN]

(* Types are preserved by Server::run and Server::stop.                    *)
LEMMA StoppingType == ASSUME TypeOK, ServerRun \/ Stopping PROVE TypeOK'
<1> USE DEF TypeOK
<1>1. CASE ServerRun
  BY <1>1 DEF ServerRun
<1>2. CASE StopCall
  BY <1>2 DEF StopCall
<1>3. CASE StopAcceptor
  BY <1>3 DEF StopAcceptor
<1>4. CASE StopFlag
  BY <1>4 DEF StopFlag
<1>5. CASE StopJoin
  BY <1>5 DEF StopJoin
<1>6. CASE StopLock
  BY <1>6 DEF StopLock
<1>7. CASE StopDone
  BY <1>7 DEF StopDone
<1>8. ASSUME NEW s \in Sessions, StopNext(s) PROVE TypeOK'
  BY <1>8 DEF StopNext
<1> QED
  BY <1>1, <1>2, <1>3, <1>4, <1>5, <1>6, <1>7, <1>8 DEF Stopping

(* Types are preserved by Server::loop up to clearup.                      *)
LEMMA AcceptingType == ASSUME TypeOK, SrvOwns, Accepting PROVE TypeOK'
<1> USE DEF TypeOK
<1>1. CASE SrvCheck
  BY <1>1 DEF SrvCheck
<1>2. CASE AcceptNone
  BY <1>2 DEF AcceptNone
<1>3. CASE AcceptSocket
  BY <1>3 DEF AcceptSocket
<1>4. CASE HandshakeFails
  BY <1>4 DEF HandshakeFails
<1>5. ASSUME NEW s \in Sessions, HandshakeDone(s) PROVE TypeOK'
  BY <1>5 DEF HandshakeDone
<1>6. CASE Push
  BY <1>6 DEF Push, SrvOwns
<1>7. CASE RunOpen
  BY <1>7 DEF RunOpen
<1>8. CASE RunFlag
  BY <1>8 DEF RunFlag
<1>9. CASE RunSpawn
  <2>1. PcOK'
    BY <1>9 DEF RunSpawn, PcOK
  <2>2. FieldsOK'
    BY <1>9 DEF RunSpawn, FieldsOK
  <2> QED
    BY <1>9, <2>1, <2>2 DEF RunSpawn, PcOK, FieldsOK
<1>10. CASE OnConnection
  <2>1. PcOK'
    BY <1>10 DEF OnConnection, PcOK
  <2>2. FieldsOK'
    BY <1>10 DEF OnConnection, FieldsOK
  <2> QED
    BY <1>10, <2>1, <2>2 DEF OnConnection, PcOK, FieldsOK
<1> QED
  BY <1>1, <1>2, <1>3, <1>4, <1>5, <1>6, <1>7, <1>8, <1>9, <1>10 DEF Accepting

(* Types are preserved by Server::clearup.                                 *)
LEMMA ClearingType == ASSUME TypeOK, Clearing PROVE TypeOK'
<1> USE DEF TypeOK
<1>1. CASE ClearCheck
  BY <1>1 DEF ClearCheck
<1>2. CASE ClearLock
  BY <1>2 DEF ClearLock
<1>3. CASE ClearUnlock
  BY <1>3 DEF ClearUnlock
<1>4. CASE ClearDone
  BY <1>4 DEF ClearDone
<1>5. ASSUME NEW s \in Sessions, ClearScan(s) PROVE TypeOK'
  BY <1>5 DEF ClearScan
<1>6. ASSUME NEW s \in Sessions, ClearNext(s) PROVE TypeOK'
  BY <1>6 DEF ClearNext
<1> QED
  BY <1>1, <1>2, <1>3, <1>4, <1>5, <1>6 DEF Clearing

(* Types are preserved by the destructor of a session.                     *)
LEMMA DeletingType == ASSUME TypeOK, NEW w \in {Srv, Ctl}, Deleting(w) PROVE TypeOK'
<1> USE DEF TypeOK
<1>1. CASE DeleteCheck(w)
  BY <1>1 DEF DeleteCheck
<1>2. CASE DeleteFlag(w)
  <2>1. PcOK'
    BY <1>2 DEF DeleteFlag, PcOK
  <2>2. FieldsOK'
    BY <1>2 DEF DeleteFlag, FieldsOK
  <2> QED
    BY <1>2, <2>1, <2>2 DEF DeleteFlag, PcOK, FieldsOK
<1>3. CASE DeleteJoin(w)
  <2>1. PcOK'
    BY <1>3 DEF DeleteJoin, PcOK
  <2>2. FieldsOK'
    BY <1>3 DEF DeleteJoin, FieldsOK
  <2> QED
    BY <1>3, <2>1, <2>2 DEF DeleteJoin, PcOK, FieldsOK
<1> QED
  BY <1>1, <1>2, <1>3 DEF Deleting

(* Types are preserved by Session::close in any thread.                    *)
LEMMA ClosingType == ASSUME TypeOK, NEW t \in Threads, Closing(t) PROVE TypeOK'
<1> USE DEF TypeOK
<1>1. CASE CloseCheck(t)
  BY <1>1 DEF CloseCheck
<1>2. CASE CloseBegin(t)
  <2>1. PcOK'
    BY <1>2 DEF CloseBegin, PcOK
  <2>2. FieldsOK'
    BY <1>2 DEF CloseBegin, FieldsOK
  <2> QED
    BY <1>2, <2>1, <2>2 DEF CloseBegin, PcOK, FieldsOK
<1>3. CASE CloseTeardown(t)
  <2>1. PcOK'
    BY <1>3 DEF CloseTeardown, PcOK
  <2>2. FieldsOK'
    BY <1>3 DEF CloseTeardown, FieldsOK
  <2> QED
    BY <1>3, <2>1, <2>2 DEF CloseTeardown, PcOK, FieldsOK
<1>4. CASE CloseStop(t)
  <2>1. PcOK'
    <3> USE DEF PcOK
    <3>1. CASE t \in Sessions
      BY <1>4, <3>1 DEF CloseStop
    <3>2. CASE t = Bcast
      BY <1>4, <3>2 DEF CloseStop
    <3>3. CASE t = Srv
      BY <1>4, <3>3 DEF CloseStop
    <3>4. CASE t = Ctl
      BY <1>4, <3>4 DEF CloseStop
    <3> QED
      BY <3>1, <3>2, <3>3, <3>4
  <2>2. FieldsOK'
    BY <1>4 DEF CloseStop, FieldsOK
  <2> QED
    BY <1>4, <2>1, <2>2 DEF CloseStop, PcOK, FieldsOK
<1>5. CASE CloseCodeCheck(t)
  <2>1. CASE t \in Sessions
    BY <1>5, <2>1 DEF CloseCodeCheck
  <2>2. CASE t = Bcast
    BY <1>5, <2>2 DEF CloseCodeCheck
  <2>3. CASE t = Srv
    BY <1>5, <2>3 DEF CloseCodeCheck
  <2>4. CASE t = Ctl
    BY <1>5, <2>4 DEF CloseCodeCheck
  <2> QED
    BY <2>1, <2>2, <2>3, <2>4
<1>6. CASE CloseCodeBegin(t)
  <2>1. PcOK'
    <3> USE DEF PcOK
    <3>1. CASE t \in Sessions
      BY <1>6, <3>1 DEF CloseCodeBegin
    <3>2. CASE t = Bcast
      BY <1>6, <3>2 DEF CloseCodeBegin
    <3>3. CASE t = Srv
      BY <1>6, <3>3 DEF CloseCodeBegin
    <3>4. CASE t = Ctl
      BY <1>6, <3>4 DEF CloseCodeBegin
    <3> QED
      BY <3>1, <3>2, <3>3, <3>4
  <2>2. FieldsOK'
    BY <1>6 DEF CloseCodeBegin, FieldsOK
  <2> QED
    BY <1>6, <2>1, <2>2 DEF CloseCodeBegin, PcOK, FieldsOK
<1>7. CASE CloseCodeSend(t)
  BY <1>7 DEF CloseCodeSend
<1> QED
  BY <1>1, <1>2, <1>3, <1>4, <1>5, <1>6, <1>7 DEF Closing

(* Types are preserved by the thread of a session.                         *)
LEMMA SessionType == ASSUME TypeOK, NEW s \in Sessions, Looping(s) \/ Reading(s) PROVE TypeOK'
<1> USE DEF TypeOK
<1>1. CASE LoopRead(s)
  BY <1>1 DEF LoopRead
<1>2. CASE LoopExit(s)
  BY <1>2 DEF LoopExit
<1>3. CASE ReadReturns(s)
  BY <1>3 DEF ReadReturns
<1>4. CASE ReadClosed(s)
  BY <1>4 DEF ReadClosed
<1>5. CASE ReadFatal(s)
  BY <1>5 DEF ReadFatal
<1> QED
  BY <1>1, <1>2, <1>3, <1>4, <1>5 DEF Looping, Reading

(* Types are preserved by the encoder and Server::broadcast.               *)
LEMMA BroadcastingType == ASSUME TypeOK, Produce \/ Broadcasting PROVE TypeOK'
<1> USE DEF TypeOK
<1>1. CASE Produce
  BY <1>1 DEF Produce
<1>2. CASE BcastLock
  BY <1>2 DEF BcastLock
<1>3. CASE BcastDone
  BY <1>3 DEF BcastDone
<1>4. CASE SendCheck
  BY <1>4 DEF SendCheck
<1>5. CASE WriteReturns
  BY <1>5 DEF WriteReturns
<1>6. CASE WriteFatal
  <2>1. PcOK'
    BY <1>6 DEF WriteFatal, PcOK
  <2>2. FieldsOK'
    BY <1>6 DEF WriteFatal, FieldsOK
  <2> QED
    BY <1>6, <2>1, <2>2 DEF WriteFatal, PcOK, FieldsOK
<1>7. ASSUME NEW s \in Sessions, BcastNext(s) PROVE TypeOK'
  BY <1>7 DEF BcastNext
<1> QED
  BY <1>1, <1>2, <1>3, <1>4, <1>5, <1>6, <1>7 DEF Broadcasting

(* Types are preserved by every step.                                      *)
LEMMA TypeOKStep == ASSUME TypeOK, Inv, [Next]_vars PROVE TypeOK'
<1>1. CASE UNCHANGED vars
  BY <1>1 DEF TypeOK, vars
<1>2. CASE Next
  BY <1>2, <1>1, StoppingType, AcceptingType, ClearingType, DeletingType, ClosingType,
     SessionType, BroadcastingType DEF Next, Finished, Inv
<1> QED
  BY <1>1, <1>2

-----------------------------------------------------------------------------
(* Ownership and the mutex *)

(* Ownership holds initially: there is no object and nobody has the mutex. *)
LEMMA InitInv == Init => Inv
  BY DEF Init, Inv, MutexInv, JoinInv, SrvOwns, CtlOwns, BcastBorrows,
       NoDanglingRegistry, NoUseAfterFree, UsesSession, CtlHolds

(* Ownership is preserved by Server::run and Server::stop.                 *)
LEMMA StoppingInv == ASSUME TypeOK, Inv, ServerRun \/ Stopping PROVE Inv'
<1> USE DEF TypeOK, Inv, MutexInv, JoinInv, SrvOwns, CtlOwns, BcastBorrows,
       NoDanglingRegistry, NoUseAfterFree, UsesSession, CtlHolds
<1>1. CASE ServerRun
  BY <1>1 DEF ServerRun
<1>2. CASE StopCall
  BY <1>2 DEF StopCall
<1>3. CASE StopAcceptor
  BY <1>3 DEF StopAcceptor
<1>4. CASE StopFlag
  BY <1>4 DEF StopFlag
<1>5. CASE StopJoin
  BY <1>5 DEF StopJoin
<1>6. CASE StopLock
  BY <1>6 DEF StopLock
<1>7. CASE StopDone
  BY <1>7 DEF StopDone
<1>8. ASSUME NEW s \in Sessions, StopNext(s) PROVE Inv'
  BY <1>8 DEF StopNext
<1> QED
  BY <1>1, <1>2, <1>3, <1>4, <1>5, <1>6, <1>7, <1>8 DEF Stopping

(* Ownership is preserved by Server::loop up to clearup.                   *)
LEMMA AcceptingInv == ASSUME TypeOK, Inv, Accepting PROVE Inv'
<1> USE DEF TypeOK, Inv, MutexInv, JoinInv, SrvOwns, CtlOwns, BcastBorrows,
       NoDanglingRegistry, NoUseAfterFree, UsesSession, CtlHolds
<1>1. CASE SrvCheck
  BY <1>1 DEF SrvCheck
<1>2. CASE AcceptNone
  BY <1>2 DEF AcceptNone
<1>3. CASE AcceptSocket
  BY <1>3 DEF AcceptSocket
<1>4. CASE HandshakeFails
  BY <1>4 DEF HandshakeFails
<1>5. ASSUME NEW s \in Sessions, HandshakeDone(s) PROVE Inv'
  BY <1>5 DEF HandshakeDone
<1>6. CASE Push
  BY <1>6 DEF Push
<1>7. CASE RunOpen
  BY <1>7 DEF RunOpen
<1>8. CASE RunFlag
  BY <1>8 DEF RunFlag
<1>9. CASE RunSpawn
  BY <1>9 DEF RunSpawn
<1>10. CASE OnConnection
  BY <1>10 DEF OnConnection
<1> QED
  BY <1>1, <1>2, <1>3, <1>4, <1>5, <1>6, <1>7, <1>8, <1>9, <1>10 DEF Accepting

(* Ownership is preserved by Server::clearup.                              *)
LEMMA ClearingInv == ASSUME TypeOK, Inv, Clearing PROVE Inv'
<1> USE DEF TypeOK, Inv, MutexInv, JoinInv, SrvOwns, CtlOwns, BcastBorrows,
       NoDanglingRegistry, NoUseAfterFree, UsesSession, CtlHolds
<1>1. CASE ClearCheck
  BY <1>1 DEF ClearCheck
<1>2. CASE ClearLock
  BY <1>2 DEF ClearLock
<1>3. CASE ClearUnlock
  BY <1>3 DEF ClearUnlock
<1>4. CASE ClearDone
  BY <1>4 DEF ClearDone
<1>5. ASSUME NEW s \in Sessions, ClearScan(s) PROVE Inv'
  BY <1>5 DEF ClearScan
<1>6. ASSUME NEW s \in Sessions, ClearNext(s) PROVE Inv'
  BY <1>6 DEF ClearNext
<1> QED
  BY <1>1, <1>2, <1>3, <1>4, <1>5, <1>6 DEF Clearing

(* Ownership is preserved by the destructor of a session.                  *)
LEMMA DeletingInv == ASSUME TypeOK, Inv, NEW w \in {Srv, Ctl}, Deleting(w) PROVE Inv'
<1> USE DEF TypeOK, Inv, MutexInv, JoinInv, SrvOwns, CtlOwns, BcastBorrows,
       NoDanglingRegistry, NoUseAfterFree, UsesSession, CtlHolds
<1>1. CASE DeleteCheck(w)
  BY <1>1 DEF DeleteCheck
<1>2. CASE DeleteFlag(w)
  BY <1>2 DEF DeleteFlag
<1>3. CASE DeleteJoin(w)
  BY <1>3 DEF DeleteJoin
<1> QED
  BY <1>1, <1>2, <1>3 DEF Deleting

(* Ownership is preserved by Session::close in any thread.                 *)
LEMMA ClosingInv == ASSUME TypeOK, Inv, NEW t \in Threads, Closing(t) PROVE Inv'
<1> USE DEF TypeOK, Inv, MutexInv, JoinInv, SrvOwns, CtlOwns, BcastBorrows,
       NoDanglingRegistry, NoUseAfterFree, UsesSession, CtlHolds
<1>1. CASE CloseCheck(t)
  BY <1>1 DEF CloseCheck
<1>2. CASE CloseBegin(t)
  BY <1>2 DEF CloseBegin
<1>3. CASE CloseTeardown(t)
  BY <1>3 DEF CloseTeardown
<1>4. CASE CloseStop(t)
  BY <1>4 DEF CloseStop
<1>5. CASE CloseCodeCheck(t)
  BY <1>5 DEF CloseCodeCheck
<1>6. CASE CloseCodeBegin(t)
  BY <1>6 DEF CloseCodeBegin
<1>7. CASE CloseCodeSend(t)
  BY <1>7 DEF CloseCodeSend
<1> QED
  BY <1>1, <1>2, <1>3, <1>4, <1>5, <1>6, <1>7 DEF Closing

(* Ownership is preserved by the thread of a session.                      *)
LEMMA SessionInv == ASSUME TypeOK, Inv, NEW s \in Sessions, Looping(s) \/ Reading(s) PROVE Inv'
<1> USE DEF TypeOK, Inv, MutexInv, JoinInv, SrvOwns, CtlOwns, BcastBorrows,
       NoDanglingRegistry, NoUseAfterFree, UsesSession, CtlHolds
<1>1. CASE LoopRead(s)
  BY <1>1 DEF LoopRead
<1>2. CASE LoopExit(s)
  BY <1>2 DEF LoopExit
<1>3. CASE ReadReturns(s)
  BY <1>3 DEF ReadReturns
<1>4. CASE ReadClosed(s)
  BY <1>4 DEF ReadClosed
<1>5. CASE ReadFatal(s)
  BY <1>5 DEF ReadFatal
<1> QED
  BY <1>1, <1>2, <1>3, <1>4, <1>5 DEF Looping, Reading

(* Ownership is preserved by the encoder and Server::broadcast.            *)
LEMMA BroadcastingInv == ASSUME TypeOK, Inv, Produce \/ Broadcasting PROVE Inv'
<1> USE DEF TypeOK, Inv, MutexInv, JoinInv, SrvOwns, CtlOwns, BcastBorrows,
       NoDanglingRegistry, NoUseAfterFree, UsesSession, CtlHolds
<1>1. CASE Produce
  BY <1>1 DEF Produce
<1>2. CASE BcastLock
  BY <1>2 DEF BcastLock
<1>3. CASE BcastDone
  BY <1>3 DEF BcastDone
<1>4. CASE SendCheck
  BY <1>4 DEF SendCheck
<1>5. CASE WriteReturns
  BY <1>5 DEF WriteReturns
<1>6. CASE WriteFatal
  BY <1>6 DEF WriteFatal
<1>7. ASSUME NEW s \in Sessions, BcastNext(s) PROVE Inv'
  BY <1>7 DEF BcastNext
<1> QED
  BY <1>1, <1>2, <1>3, <1>4, <1>5, <1>6, <1>7 DEF Broadcasting

(* Ownership is preserved by every step.                                   *)
LEMMA InvStep == ASSUME TypeOK, Inv, [Next]_vars PROVE Inv'
<1>1. CASE UNCHANGED vars
  BY <1>1 DEF Inv, MutexInv, JoinInv, SrvOwns, CtlOwns, BcastBorrows,
       NoDanglingRegistry, NoUseAfterFree, UsesSession, CtlHolds, vars
<1>2. CASE Next
  BY <1>2, <1>1, StoppingInv, AcceptingInv, ClearingInv, DeletingInv, ClosingInv,
     SessionInv, BroadcastingInv DEF Next, Finished
<1> QED
  BY <1>1, <1>2

-----------------------------------------------------------------------------
(* The life of a session *)

(* The order of a session's life holds initially: no session has begun.    *)
LEMMA InitLife == Init => LifeInv
  BY DEF Init, Inv, MutexInv, JoinInv, SrvOwns, CtlOwns, BcastBorrows,
       NoDanglingRegistry, NoUseAfterFree, UsesSession, CtlHolds, LifeInv, AnnounceInv,
       OpenInv, LeakInv, AnnouncedBeforeClosed, OpenIsBinary

(* The order of a session's life is preserved by Server::run and Server::stop. *)
LEMMA StoppingLife == ASSUME TypeOK, Inv, LifeInv, ServerRun \/ Stopping PROVE LifeInv'
<1> USE DEF TypeOK, Inv, MutexInv, JoinInv, SrvOwns, CtlOwns, BcastBorrows,
       NoDanglingRegistry, NoUseAfterFree, UsesSession, CtlHolds, LifeInv, AnnounceInv,
       OpenInv, LeakInv, AnnouncedBeforeClosed, OpenIsBinary
<1>1. CASE ServerRun
  BY <1>1 DEF ServerRun
<1>2. CASE StopCall
  BY <1>2 DEF StopCall
<1>3. CASE StopAcceptor
  BY <1>3 DEF StopAcceptor
<1>4. CASE StopFlag
  BY <1>4 DEF StopFlag
<1>5. CASE StopJoin
  BY <1>5 DEF StopJoin
<1>6. CASE StopLock
  BY <1>6 DEF StopLock
<1>7. CASE StopDone
  BY <1>7 DEF StopDone
<1>8. ASSUME NEW s \in Sessions, StopNext(s) PROVE LifeInv'
  BY <1>8 DEF StopNext
<1> QED
  BY <1>1, <1>2, <1>3, <1>4, <1>5, <1>6, <1>7, <1>8 DEF Stopping

(* The order of a session's life is preserved by Server::loop up to clearup. *)
LEMMA AcceptingLife == ASSUME TypeOK, Inv, LifeInv, Accepting PROVE LifeInv'
<1> USE DEF TypeOK, Inv, MutexInv, JoinInv, SrvOwns, CtlOwns, BcastBorrows,
       NoDanglingRegistry, NoUseAfterFree, UsesSession, CtlHolds, LifeInv, AnnounceInv,
       OpenInv, LeakInv, AnnouncedBeforeClosed, OpenIsBinary
<1>1. CASE SrvCheck
  BY <1>1 DEF SrvCheck
<1>2. CASE AcceptNone
  BY <1>2 DEF AcceptNone
<1>3. CASE AcceptSocket
  BY <1>3 DEF AcceptSocket
<1>4. CASE HandshakeFails
  BY <1>4 DEF HandshakeFails
<1>5. ASSUME NEW s \in Sessions, HandshakeDone(s) PROVE LifeInv'
  BY <1>5 DEF HandshakeDone
<1>6. CASE Push
  BY <1>6 DEF Push
<1>7. CASE RunOpen
  BY <1>7 DEF RunOpen
<1>8. CASE RunFlag
  BY <1>8 DEF RunFlag
<1>9. CASE RunSpawn
  BY <1>9 DEF RunSpawn
<1>10. CASE OnConnection
  BY <1>10 DEF OnConnection
<1> QED
  BY <1>1, <1>2, <1>3, <1>4, <1>5, <1>6, <1>7, <1>8, <1>9, <1>10 DEF Accepting

(* The order of a session's life is preserved by Server::clearup.          *)
LEMMA ClearingLife == ASSUME TypeOK, Inv, LifeInv, Clearing PROVE LifeInv'
<1> USE DEF TypeOK, Inv, MutexInv, JoinInv, SrvOwns, CtlOwns, BcastBorrows,
       NoDanglingRegistry, NoUseAfterFree, UsesSession, CtlHolds, LifeInv, AnnounceInv,
       OpenInv, LeakInv, AnnouncedBeforeClosed, OpenIsBinary
<1>1. CASE ClearCheck
  BY <1>1 DEF ClearCheck
<1>2. CASE ClearLock
  BY <1>2 DEF ClearLock
<1>3. CASE ClearUnlock
  BY <1>3 DEF ClearUnlock
<1>4. CASE ClearDone
  BY <1>4 DEF ClearDone
<1>5. ASSUME NEW s \in Sessions, ClearScan(s) PROVE LifeInv'
  BY <1>5 DEF ClearScan
<1>6. ASSUME NEW s \in Sessions, ClearNext(s) PROVE LifeInv'
  BY <1>6 DEF ClearNext
<1> QED
  BY <1>1, <1>2, <1>3, <1>4, <1>5, <1>6 DEF Clearing

(* The order of a session's life is preserved by the destructor of a session. *)
LEMMA DeletingLife == ASSUME TypeOK, Inv, LifeInv, NEW w \in {Srv, Ctl}, Deleting(w) PROVE LifeInv'
<1> USE DEF TypeOK, Inv, MutexInv, JoinInv, SrvOwns, CtlOwns, BcastBorrows,
       NoDanglingRegistry, NoUseAfterFree, UsesSession, CtlHolds, LifeInv, AnnounceInv,
       OpenInv, LeakInv, AnnouncedBeforeClosed, OpenIsBinary
<1>1. CASE DeleteCheck(w)
  BY <1>1 DEF DeleteCheck
<1>2. CASE DeleteFlag(w)
  BY <1>2 DEF DeleteFlag
<1>3. CASE DeleteJoin(w)
  BY <1>3 DEF DeleteJoin
<1> QED
  BY <1>1, <1>2, <1>3 DEF Deleting

(* The order of a session's life is preserved by Session::close in any thread. *)
LEMMA ClosingLife == ASSUME TypeOK, Inv, LifeInv, NEW t \in Threads, Closing(t) PROVE LifeInv'
<1> USE DEF TypeOK, Inv, MutexInv, JoinInv, SrvOwns, CtlOwns, BcastBorrows,
       NoDanglingRegistry, NoUseAfterFree, UsesSession, CtlHolds, LifeInv, AnnounceInv,
       OpenInv, LeakInv, AnnouncedBeforeClosed, OpenIsBinary
<1>1. CASE CloseCheck(t)
  BY <1>1 DEF CloseCheck
<1>2. CASE CloseBegin(t)
  BY <1>2 DEF CloseBegin
<1>3. CASE CloseTeardown(t)
  BY <1>3 DEF CloseTeardown
<1>4. CASE CloseStop(t)
  BY <1>4 DEF CloseStop
<1>5. CASE CloseCodeCheck(t)
  BY <1>5 DEF CloseCodeCheck
<1>6. CASE CloseCodeBegin(t)
  BY <1>6 DEF CloseCodeBegin
<1>7. CASE CloseCodeSend(t)
  BY <1>7 DEF CloseCodeSend
<1> QED
  BY <1>1, <1>2, <1>3, <1>4, <1>5, <1>6, <1>7 DEF Closing

(* The order of a session's life is preserved by the thread of a session.  *)
LEMMA SessionLife == ASSUME TypeOK, Inv, LifeInv, NEW s \in Sessions, Looping(s) \/ Reading(s) PROVE LifeInv'
<1> USE DEF TypeOK, Inv, MutexInv, JoinInv, SrvOwns, CtlOwns, BcastBorrows,
       NoDanglingRegistry, NoUseAfterFree, UsesSession, CtlHolds, LifeInv, AnnounceInv,
       OpenInv, LeakInv, AnnouncedBeforeClosed, OpenIsBinary
<1>1. CASE LoopRead(s)
  BY <1>1 DEF LoopRead
<1>2. CASE LoopExit(s)
  BY <1>2 DEF LoopExit
<1>3. CASE ReadReturns(s)
  BY <1>3 DEF ReadReturns
<1>4. CASE ReadClosed(s)
  BY <1>4 DEF ReadClosed
<1>5. CASE ReadFatal(s)
  BY <1>5 DEF ReadFatal
<1> QED
  BY <1>1, <1>2, <1>3, <1>4, <1>5 DEF Looping, Reading

(* The order of a session's life is preserved by the encoder and Server::broadcast. *)
LEMMA BroadcastingLife == ASSUME TypeOK, Inv, LifeInv, Produce \/ Broadcasting PROVE LifeInv'
<1> USE DEF TypeOK, Inv, MutexInv, JoinInv, SrvOwns, CtlOwns, BcastBorrows,
       NoDanglingRegistry, NoUseAfterFree, UsesSession, CtlHolds, LifeInv, AnnounceInv,
       OpenInv, LeakInv, AnnouncedBeforeClosed, OpenIsBinary
<1>1. CASE Produce
  BY <1>1 DEF Produce
<1>2. CASE BcastLock
  BY <1>2 DEF BcastLock
<1>3. CASE BcastDone
  BY <1>3 DEF BcastDone
<1>4. CASE SendCheck
  BY <1>4 DEF SendCheck
<1>5. CASE WriteReturns
  BY <1>5 DEF WriteReturns
<1>6. CASE WriteFatal
  BY <1>6 DEF WriteFatal
<1>7. ASSUME NEW s \in Sessions, BcastNext(s) PROVE LifeInv'
  BY <1>7 DEF BcastNext
<1> QED
  BY <1>1, <1>2, <1>3, <1>4, <1>5, <1>6, <1>7 DEF Broadcasting

(* The order of a session's life is preserved by every step.               *)
LEMMA LifeInvStep == ASSUME TypeOK, Inv, LifeInv, [Next]_vars PROVE LifeInv'
<1>1. CASE UNCHANGED vars
  BY <1>1 DEF Inv, MutexInv, JoinInv, SrvOwns, CtlOwns, BcastBorrows,
       NoDanglingRegistry, NoUseAfterFree, UsesSession, CtlHolds, LifeInv, AnnounceInv,
       OpenInv, LeakInv, AnnouncedBeforeClosed, OpenIsBinary, vars
<1>2. CASE Next
  BY <1>2, <1>1, StoppingLife, AcceptingLife, ClearingLife, DeletingLife, ClosingLife,
     SessionLife, BroadcastingLife DEF Next, Finished
<1> QED
  BY <1>1, <1>2

IsClosed(s) == readyState[s] \in {"CLOSING", "CLOSED"}

(* A session that began to close stays closed: run() writes OPEN into a    *)
(* session that nobody can have closed yet.                                *)
LEMMA ClosedStays ==
  ASSUME TypeOK, OpenInv, Next, NEW s \in Sessions, IsClosed(s) PROVE IsClosed(s)'
<1> USE DEF TypeOK, IsClosed
<1>1. CASE ServerRun \/ Stopping
  BY <1>1 DEF ServerRun, Stopping, StopCall, StopAcceptor, StopFlag, StopJoin, StopLock,
     StopDone, StopNext
<1>2. CASE Accepting
  BY <1>2 DEF OpenInv, Accepting, SrvCheck, AcceptNone, AcceptSocket, HandshakeFails,
     HandshakeDone, Push, RunOpen, RunFlag, RunSpawn, OnConnection
<1>3. CASE Clearing
  BY <1>3 DEF Clearing, ClearCheck, ClearLock, ClearUnlock, ClearDone, ClearScan, ClearNext
<1>4. CASE \E w \in {Srv, Ctl} : Deleting(w)
  BY <1>4 DEF Deleting, DeleteCheck, DeleteFlag, DeleteJoin
<1>5. CASE \E t \in Threads : Closing(t)
  BY <1>5 DEF Closing, CloseCheck, CloseBegin, CloseTeardown, CloseStop, CloseCodeCheck,
     CloseCodeBegin, CloseCodeSend
<1>6. CASE \E x \in Sessions : Looping(x) \/ Reading(x)
  BY <1>6 DEF Looping, Reading, LoopRead, LoopExit, ReadReturns, ReadClosed, ReadFatal
<1>7. CASE Produce \/ Broadcasting
  BY <1>7 DEF Produce, Broadcasting, BcastLock, BcastDone, SendCheck, WriteReturns,
     WriteFatal, BcastNext
<1>8. CASE Finished
  BY <1>8 DEF Finished, vars
<1> QED
  BY <1>1, <1>2, <1>3, <1>4, <1>5, <1>6, <1>7, <1>8 DEF Next

-----------------------------------------------------------------------------
(* The theorems *)

(* The inductive invariant holds in every reachable state.                 *)
THEOREM Inductive == Spec => [](TypeOK /\ Inv /\ LifeInv)
<1>1. Init => TypeOK /\ Inv /\ LifeInv
  BY InitType, InitInv, InitLife
<1>2. TypeOK /\ Inv /\ LifeInv /\ [Next]_vars => (TypeOK /\ Inv /\ LifeInv)'
  BY TypeOKStep, InvStep, LifeInvStep
<1> QED
  BY <1>1, <1>2, PTL DEF Spec

(* Type correctness.                                                       *)
THEOREM TypeCorrect == Spec => []TypeOK
  BY Inductive, PTL

(* However many clients come, leave and fail while chunks are broadcast,   *)
(* clearup runs and the server is stopped, no thread of the server ever    *)
(* touches a released Session.                                             *)
THEOREM MemorySafe == Spec => []NoUseAfterFree
<1>1. Inv => NoUseAfterFree
  BY DEF Inv
<1> QED
  BY <1>1, Inductive, PTL

(* The registry holds a released pointer only while stop() walks it.       *)
THEOREM RegistrySafe == Spec => []NoDanglingRegistry
<1>1. Inv => NoDanglingRegistry
  BY DEF Inv
<1> QED
  BY <1>1, Inductive, PTL

(* The application hears of every session before it is closed.             *)
THEOREM Announced == Spec => []AnnouncedBeforeClosed
<1>1. LifeInv => AnnouncedBeforeClosed
  BY DEF LifeInv, AnnounceInv
<1> QED
  BY <1>1, Inductive, PTL

(* An open session whose onConnection returned is a binary one.            *)
THEOREM Binary == Spec => []OpenIsBinary
<1>1. LifeInv => OpenIsBinary
  BY DEF LifeInv, OpenInv
<1> QED
  BY <1>1, Inductive, PTL

(* stop() leaves no Session object and no session thread behind.           *)
THEOREM StopReleasesAll == Spec => []NoSessionLeaked
<1>1. TypeOK /\ Inv /\ LifeInv => NoSessionLeaked
  <2> SUFFICES ASSUME TypeOK, Inv, LifeInv, pc[Ctl] = "stopped", NEW s \in Sessions
               PROVE  obj[s] # "live" /\ pc[s] \in {"none", "ended"}
    BY DEF NoSessionLeaked
  <2>1. pc[Srv] \in {"none", "ended"} /\ sessions = {} /\ toFree = {}
    BY DEF Inv, JoinInv, LifeInv, LeakInv
  <2>2. obj[s] # "live"
    BY <2>1 DEF LifeInv, LeakInv
  <2> QED
    BY <2>2 DEF Inv, NoUseAfterFree
<1> QED
  BY <1>1, Inductive, PTL

(* No session that began to close is ever opened again: run() writes OPEN  *)
(* into a session that nobody can have closed yet.                         *)
THEOREM StaysClosed == Spec => NeverReopened
<1>1. TypeOK /\ Inv /\ LifeInv /\ [Next]_vars
        => [\A s \in Sessions : readyState[s] \in {"CLOSING", "CLOSED"}
                                  => readyState'[s] \in {"CLOSING", "CLOSED"}]_vars
  BY ClosedStays DEF LifeInv, IsClosed, Finished, vars
<1> QED
  BY <1>1, Inductive, PTL DEF Spec, NeverReopened

-----------------------------------------------------------------------------
(* The server implements SessionRegistry *)

(* A session that is half way through a close or a delete is closed.       *)
ClosedInv ==
  \A t \in Threads :
    pc[t] \in {"closeTeardown", "closeStop", "deleteFlag", "deleteJoin"} => IsClosed(Target(t))

(* Initially no thread closes or deletes anything.                         *)
LEMMA InitClosed == Init => ClosedInv
  BY DEF Init, ClosedInv

(* Every step keeps the closed sessions closed, and a thread that begins   *)
(* to tear down or to delete a session finds it closed or closes it.       *)
LEMMA ClosedStep == ASSUME TypeOK, Inv, LifeInv, ClosedInv, [Next]_vars PROVE ClosedInv'
<1>1. CASE UNCHANGED vars
  BY <1>1 DEF ClosedInv, IsClosed, vars
<1>2. CASE Next
  <2> DEFINE Late == {"closeTeardown", "closeStop", "deleteFlag", "deleteJoin"}
  <2> SUFFICES ASSUME NEW t \in Threads, pc'[t] \in Late PROVE IsClosed(Target(t))'
    BY DEF ClosedInv
  <2>1. ASSUME pc[t] \in Late, Target(t)' = Target(t) PROVE IsClosed(Target(t))'
    <3>1. Target(t) \in Sessions
      BY <2>1 DEF TypeOK, Inv, SrvOwns, CtlOwns, BcastBorrows
    <3>2. IsClosed(Target(t))
      BY <2>1 DEF ClosedInv
    <3>3. OpenInv
      BY DEF LifeInv
    <3>4. \A s \in Sessions : IsClosed(s) => IsClosed(s)'
      BY <1>2, <3>3, ClosedStays
    <3> QED
      BY <2>1, <3>1, <3>2, <3>4 DEF IsClosed
  <2> SUFFICES \/ pc[t] \in Late /\ Target(t)' = Target(t)
               \/ IsClosed(Target(t))'
    BY <2>1
  <2> USE DEF TypeOK, IsClosed
  <2>2. CASE ServerRun \/ Stopping
    BY <2>2 DEF ServerRun, Stopping, StopCall, StopAcceptor, StopFlag, StopJoin, StopLock,
       StopDone, StopNext
  <2>3. CASE Accepting
    BY <2>3 DEF Accepting, SrvCheck, AcceptNone, AcceptSocket, HandshakeFails,
       HandshakeDone, Push, RunOpen, RunFlag, RunSpawn, OnConnection
  <2>4. CASE Clearing
    BY <2>4 DEF Clearing, ClearCheck, ClearLock, ClearUnlock, ClearDone, ClearScan, ClearNext
  <2>5. ASSUME NEW w \in {Srv, Ctl}, Deleting(w)
        PROVE (pc[t] \in Late /\ Target(t)' = Target(t)) \/ IsClosed(Target(t))'
    BY <2>5 DEF Deleting, DeleteCheck, DeleteFlag, DeleteJoin
  <2>6. ASSUME NEW u \in Threads, Closing(u)
        PROVE (pc[t] \in Late /\ Target(t)' = Target(t)) \/ IsClosed(Target(t))'
    <3>1. UNCHANGED cur
      BY <2>6 DEF Closing, CloseCheck, CloseBegin, CloseTeardown, CloseStop, CloseCodeCheck,
         CloseCodeBegin, CloseCodeSend
    <3>2. CASE u # t
      BY <2>6, <3>1, <3>2 DEF Closing, CloseCheck, CloseBegin, CloseTeardown, CloseStop,
         CloseCodeCheck, CloseCodeBegin, CloseCodeSend
    <3>3. CASE u = t
      <4>1. CASE CloseBegin(t)
        <5>1. Target(t) \in Sessions
          BY <4>1 DEF CloseBegin, Inv, SrvOwns, CtlOwns, BcastBorrows
        <5> QED
          BY <4>1, <5>1 DEF CloseBegin
      <4>2. CASE CloseCheck(t) \/ CloseTeardown(t) \/ CloseStop(t)
        BY <4>2, <3>1 DEF CloseCheck, CloseTeardown, CloseStop
      <4>3. CASE CloseCodeCheck(t) \/ CloseCodeBegin(t) \/ CloseCodeSend(t)
        BY <4>3, <3>1 DEF CloseCodeCheck, CloseCodeBegin, CloseCodeSend
      <4> QED
        BY <2>6, <3>3, <4>1, <4>2, <4>3 DEF Closing
    <3> QED
      BY <3>2, <3>3
  <2>7. ASSUME NEW x \in Sessions, Looping(x) \/ Reading(x)
        PROVE (pc[t] \in Late /\ Target(t)' = Target(t)) \/ IsClosed(Target(t))'
    BY <2>7 DEF Looping, Reading, LoopRead, LoopExit, ReadReturns, ReadClosed, ReadFatal
  <2>8. CASE Produce \/ Broadcasting
    BY <2>8 DEF Produce, Broadcasting, BcastLock, BcastDone, SendCheck, WriteReturns,
       WriteFatal, BcastNext
  <2>9. CASE Finished
    BY <2>9 DEF Finished, vars
  <2> QED
    BY <1>2, <2>2, <2>3, <2>4, <2>5, <2>6, <2>7, <2>8, <2>9 DEF Next
<1> QED
  BY <1>1, <1>2

(* All that is known of a reachable state.                                 *)
Known == TypeOK /\ Inv /\ LifeInv /\ ClosedInv

(* A step that neither opens, closes, frees nor announces a session, and   *)
(* does not stop the server, is no step of the registry.                   *)
LEMMA Stutters ==
  ASSUME UNCHANGED <<obj, announced>>, \A s \in Sessions : IsClosed(s)' <=> IsClosed(s),
         pc'[Ctl] = "stopped" <=> pc[Ctl] = "stopped"
  PROVE  UNCHANGED Registry!vars
<1>1. \A s \in Sessions : LifeOf(s)' = LifeOf(s)
  BY DEF LifeOf, IsClosed
<1>2. Life' = Life
  BY <1>1 DEF Life
<1> QED
  BY <1>2 DEF Registry!vars, ServerState

(* A step that moves one session on.                                       *)
LEMMA Moves ==
  ASSUME NEW s \in Sessions, NEW from, NEW to, LifeOf(s) = from, LifeOf(s)' = to,
         \A x \in Sessions \ {s} : LifeOf(x)' = LifeOf(x), UNCHANGED announced,
         pc[Ctl] # "stopped", pc'[Ctl] # "stopped"
  PROVE  Registry!Move(s, from, to)
<1>1. Life' = [Life EXCEPT ![s] = to] /\ Life[s] = from
  BY DEF Life
<1>2. ServerState = "up" /\ ServerState' = "up"
  BY DEF ServerState
<1> QED
  BY <1>1, <1>2 DEF Registry!Move

(* A step that announces the end of a session.                             *)
LEMMA Tells ==
  ASSUME NEW s \in Sessions, obj[s] = "live", Announce(s), UNCHANGED <<obj, readyState>>,
         pc[Ctl] # "stopped", pc'[Ctl] # "stopped"
  PROVE  Registry!Next
<1>1. Life' = Life
  BY DEF Life, LifeOf
<1>2. ServerState = "up" /\ ServerState' = "up"
  BY DEF ServerState
<1>3. Life[s] \in {"connected", "closed"}
  BY DEF Life, LifeOf
<1>4. Registry!Tell(s)
  BY <1>1, <1>2, <1>3 DEF Registry!Tell
<1> QED
  BY <1>4 DEF Registry!Next

(* When the server has stopped nobody works on a session any more.         *)
LEMMA Quiescent ==
  ASSUME TypeOK, Inv, LifeInv, pc[Ctl] = "stopped"
  PROVE  /\ \A s \in Sessions : obj[s] # "live" /\ pc[s] \in {"none", "ended"}
         /\ pc[Srv] \in {"none", "ended"} /\ pc[Bcast] \in {"idle", "next"}
<1>1. pc[Srv] \in {"none", "ended"} /\ sessions = {} /\ toFree = {}
  BY DEF Inv, JoinInv, LifeInv, LeakInv
<1>2. \A s \in Sessions : obj[s] # "live"
  BY <1>1 DEF LifeInv, LeakInv
<1> QED
  BY <1>1, <1>2 DEF Inv, NoUseAfterFree, BcastBorrows

(* Server::run and Server::stop: going away is told, and the registry is   *)
(* stopped when no session is left.                                        *)
LEMMA StoppingRefines ==
  ASSUME Known, Known', ServerRun \/ Stopping PROVE [Registry!Next]_Registry!vars
<1> USE DEF Known
<1>1. ASSUME pc[Ctl] # "stopped", pc'[Ctl] = "stopped", UNCHANGED <<sessVars>> PROVE Registry!Next
  <2>1. \A s \in Sessions : obj'[s] # "live"
    <3>1. Srv \in Workers /\ pc'[Srv] \in {"none", "ended"} /\ sessions' = {} /\ toFree' = {}
      BY <1>1 DEF Inv, JoinInv, LifeInv, LeakInv
    <3> QED
      BY <3>1 DEF LifeInv, LeakInv
  <2>2. \A s \in Sessions : obj[s] \in {"absent", "freed"}
    BY <1>1, <2>1 DEF TypeOK
  <2>3. \A s \in Sessions : LifeOf(s) \in {"absent", "gone"}
    BY <2>2 DEF LifeOf
  <2>4. Life' = Life /\ \A s \in Sessions : Life[s] \in {"absent", "gone"}
    BY <1>1, <2>3 DEF Life, LifeOf
  <2> QED
    BY <1>1, <2>4 DEF Registry!Next, Registry!Stop, ServerState
<1>2. CASE ServerRun \/ StopAcceptor \/ StopFlag \/ StopJoin \/ StopLock
  <2>1. UNCHANGED sessVars /\ pc[Ctl] # "stopped" /\ pc'[Ctl] # "stopped"
    BY <1>2 DEF TypeOK, ServerRun, StopAcceptor, StopFlag, StopJoin, StopLock
  <2> QED
    BY <2>1, Stutters DEF IsClosed
<1>3. CASE StopCall \/ StopDone
  <2>1. UNCHANGED sessVars /\ pc[Ctl] # "stopped"
    BY <1>3 DEF StopCall, StopDone
  <2> QED
    BY <1>1, <2>1, Stutters DEF IsClosed
<1>4. ASSUME NEW s \in Sessions, StopNext(s) PROVE Registry!Next
  <2>1. obj[s] = "live"
    BY <1>4 DEF StopNext, Inv, CtlOwns, CtlHolds
  <2>2. Announce(s) /\ UNCHANGED <<obj, readyState>>
        /\ pc[Ctl] # "stopped" /\ pc'[Ctl] # "stopped"
    BY <1>4 DEF StopNext, TypeOK
  <2> QED
    BY <2>1, <2>2, Tells
<1> QED
  BY <1>2, <1>3, <1>4 DEF Stopping

(* Server::loop up to clearup: a session connects when the handshake is    *)
(* done; run() opens a session that is not closed.                         *)
LEMMA AcceptingRefines ==
  ASSUME Known, Known', Accepting PROVE [Registry!Next]_Registry!vars
<1> USE DEF Known
<1>1. pc[Ctl] # "stopped" /\ pc'[Ctl] # "stopped"
  <2>1. pc[Srv] \notin {"none", "ended"}
    BY DEF Accepting, SrvCheck, AcceptNone, AcceptSocket, HandshakeFails,
       HandshakeDone, Push, RunOpen, RunFlag, RunSpawn, OnConnection
  <2>2. pc'[Ctl] = pc[Ctl]
    BY DEF TypeOK, Inv, SrvOwns, Accepting, SrvCheck, AcceptNone, AcceptSocket, HandshakeFails,
       HandshakeDone, Push, RunOpen, RunFlag, RunSpawn, OnConnection
  <2> QED
    BY <2>1, <2>2, Quiescent
<1>2. ASSUME NEW s \in Sessions, HandshakeDone(s) PROVE Registry!Next
  <2>1. LifeOf(s) = "absent" /\ LifeOf(s)' = "connected"
    <3>1. obj[s] = "absent" /\ obj'[s] = "live" /\ readyState'[s] = "CONNECTING"
      BY <1>2 DEF HandshakeDone, TypeOK
    <3> QED
      BY <3>1 DEF LifeOf
  <2>2. \A x \in Sessions \ {s} : LifeOf(x)' = LifeOf(x)
    <3>1. \A x \in Sessions \ {s} : obj'[x] = obj[x] /\ readyState'[x] = readyState[x]
      BY <1>2 DEF HandshakeDone, TypeOK
    <3> QED
      BY <3>1 DEF LifeOf
  <2>3. UNCHANGED announced
    BY <1>2 DEF HandshakeDone
  <2>4. Registry!Connect(s)
    BY <1>1, <2>1, <2>2, <2>3, Moves DEF Registry!Connect
  <2> QED
    BY <2>4 DEF Registry!Next
<1>3. CASE RunOpen
  <2>1. readyState[cur[Srv]] = "CONNECTING" /\ cur[Srv] \in Sessions
    BY <1>3 DEF RunOpen, LifeInv, OpenInv, TypeOK, Inv, SrvOwns
  <2>2. \A s \in Sessions : IsClosed(s)' <=> IsClosed(s)
    BY <1>3, <2>1 DEF RunOpen, IsClosed, TypeOK
  <2>3. UNCHANGED <<obj, announced>>
    BY <1>3 DEF RunOpen
  <2> QED
    BY <1>1, <2>2, <2>3, Stutters
<1>4. CASE \/ SrvCheck \/ AcceptNone \/ AcceptSocket \/ HandshakeFails \/ Push \/ RunFlag
           \/ RunSpawn \/ OnConnection
  <2>1. UNCHANGED <<obj, announced, readyState>>
    BY <1>4 DEF SrvCheck, AcceptNone, AcceptSocket, HandshakeFails, Push, RunFlag, RunSpawn,
       OnConnection
  <2> QED
    BY <1>1, <2>1, Stutters DEF IsClosed
<1> QED
  BY <1>2, <1>3, <1>4 DEF Accepting

(* Server::clearup only moves pointers.                                    *)
LEMMA ClearingRefines ==
  ASSUME Known, Clearing PROVE [Registry!Next]_Registry!vars
<1>1. UNCHANGED sessVars /\ pc'[Ctl] = pc[Ctl]
  BY DEF Known, TypeOK, Clearing, ClearCheck, ClearLock, ClearUnlock, ClearDone, ClearScan,
     ClearNext
<1> QED
  BY <1>1, Stutters DEF IsClosed

(* The destructor frees a session that is closed.                          *)
LEMMA DeletingRefines ==
  ASSUME Known, NEW w \in {Srv, Ctl}, Deleting(w) PROVE [Registry!Next]_Registry!vars
<1> USE DEF Known
<1>1. pc[Ctl] # "stopped" /\ pc'[Ctl] # "stopped"
  <2>1. pc[w] \in DeleteLabels /\ pc'[w] # "stopped"
    BY DEF TypeOK, Deleting, DeleteCheck, DeleteFlag, DeleteJoin
  <2>2. w # Ctl => pc'[Ctl] = pc[Ctl]
    BY DEF TypeOK, Deleting, DeleteCheck, DeleteFlag, DeleteJoin
  <2> QED
    BY <2>1, <2>2, Quiescent
<1>2. CASE DeleteCheck(w) \/ DeleteFlag(w)
  <2>1. UNCHANGED <<obj, announced, readyState>>
    BY <1>2 DEF DeleteCheck, DeleteFlag
  <2> QED
    BY <1>1, <2>1, Stutters DEF IsClosed
<1>3. CASE DeleteJoin(w)
  <2>1. cur[w] \in Sessions /\ obj[cur[w]] = "live" /\ IsClosed(cur[w])
    BY <1>3 DEF DeleteJoin, TypeOK, Inv, SrvOwns, CtlOwns, NoUseAfterFree, UsesSession, ClosedInv
  <2>2. LifeOf(cur[w]) = "closed"
    BY <2>1 DEF LifeOf, IsClosed
  <2>3. obj' = [obj EXCEPT ![cur[w]] = "freed"] /\ UNCHANGED <<readyState, announced>>
    BY <1>3 DEF DeleteJoin
  <2>4. PICK s \in Sessions : s = cur[w]
    BY <2>1
  <2>5. /\ obj'[s] = "freed" /\ LifeOf(s) = "closed"
        /\ \A x \in Sessions \ {s} : obj'[x] = obj[x]
    BY <2>2, <2>3, <2>4 DEF TypeOK
  <2>6. \A x \in Sessions \ {s} : LifeOf(x)' = LifeOf(x)
    BY <2>3, <2>5 DEF LifeOf
  <2>7. LifeOf(s)' = "gone"
    BY <2>5 DEF LifeOf
  <2>8. Registry!Move(s, "closed", "gone")
    BY <1>1, <2>3, <2>5, <2>6, <2>7, Moves
  <2> QED
    BY <2>5, <2>8 DEF Registry!Next, Registry!Free
<1> QED
  BY <1>2, <1>3 DEF Deleting

(* Session::close: the session is closed when CLOSING is written, unless   *)
(* it was closed before.                                                   *)
LEMMA ClosingRefines ==
  ASSUME Known, NEW t \in Threads, Closing(t) PROVE [Registry!Next]_Registry!vars
<1> USE DEF Known
<1>1. pc[t] \in CloseLabels \cup CloseCodeLabels /\ UNCHANGED <<obj, announced, cur>>
  BY DEF Closing, CloseCheck, CloseBegin, CloseTeardown, CloseStop, CloseCodeCheck,
     CloseCodeBegin, CloseCodeSend
<1>2. pc[Ctl] # "stopped" /\ pc'[Ctl] # "stopped"
  <2>1. pc[Ctl] # "stopped"
    BY <1>1, Quiescent
  <2>2. t # Ctl => pc'[Ctl] = pc[Ctl]
    BY DEF TypeOK, Closing, CloseCheck, CloseBegin, CloseTeardown, CloseStop, CloseCodeCheck,
       CloseCodeBegin, CloseCodeSend
  <2>3. t = Ctl => pc'[Ctl] # "stopped"
    BY DEF TypeOK, Closing, CloseCheck, CloseBegin, CloseTeardown, CloseStop, CloseCodeCheck,
       CloseCodeBegin, CloseCodeSend
  <2> QED
    BY <2>1, <2>2, <2>3
<1>3. PICK s \in Sessions : s = Target(t) /\ obj[s] = "live" /\ announced[s]
  BY <1>1 DEF TypeOK, Inv, SrvOwns, CtlOwns, BcastBorrows, NoUseAfterFree, UsesSession, LifeInv,
     AnnounceInv
<1>4. CASE CloseCheck(t) \/ CloseStop(t) \/ CloseCodeCheck(t) \/ CloseCodeSend(t)
  <2>1. UNCHANGED readyState
    BY <1>4 DEF CloseCheck, CloseStop, CloseCodeCheck, CloseCodeSend
  <2> QED
    BY <1>1, <1>2, <2>1, Stutters DEF IsClosed
<1>5. CASE CloseBegin(t) \/ CloseTeardown(t) \/ CloseCodeBegin(t)
  <2>1. \E value \in {"CLOSING", "CLOSED"} : readyState' = [readyState EXCEPT ![s] = value]
    BY <1>3, <1>5 DEF CloseBegin, CloseTeardown, CloseCodeBegin
  <2>2. IsClosed(s)' /\ \A x \in Sessions \ {s} : readyState'[x] = readyState[x]
    BY <2>1 DEF IsClosed, TypeOK
  <2>3. CASE IsClosed(s)
    <3>1. \A x \in Sessions : IsClosed(x)' <=> IsClosed(x)
      BY <2>2, <2>3 DEF IsClosed
    <3> QED
      BY <1>1, <1>2, <3>1, Stutters
  <2>4. CASE ~IsClosed(s)
    <3>1. LifeOf(s) = "connected" /\ LifeOf(s)' = "closed"
      BY <1>1, <1>3, <2>2, <2>4 DEF LifeOf, IsClosed
    <3>2. \A x \in Sessions \ {s} : LifeOf(x)' = LifeOf(x)
      BY <1>1, <2>2 DEF LifeOf
    <3>3. Registry!Move(s, "connected", "closed")
      BY <1>1, <1>2, <3>1, <3>2, Moves
    <3> QED
      BY <1>3, <3>3 DEF Registry!Next, Registry!Close
  <2> QED
    BY <2>3, <2>4
<1> QED
  BY <1>4, <1>5 DEF Closing

(* The thread of a session: what it finds on the socket is told.           *)
LEMMA SessionRefines ==
  ASSUME Known, NEW s \in Sessions, Looping(s) \/ Reading(s)
  PROVE  [Registry!Next]_Registry!vars
<1> USE DEF Known
<1>1. pc[s] \in {"loop", "read"} /\ pc'[Ctl] = pc[Ctl] /\ UNCHANGED <<obj, readyState>>
  BY DEF TypeOK, Looping, Reading, LoopRead, LoopExit, ReadReturns, ReadClosed, ReadFatal
<1>2. pc[Ctl] # "stopped" /\ obj[s] = "live"
  BY <1>1, Quiescent DEF Inv, NoUseAfterFree
<1>3. CASE ReadClosed(s) \/ ReadFatal(s)
  <2>1. Announce(s)
    BY <1>3 DEF ReadClosed, ReadFatal
  <2> HIDE DEF Announce
  <2> QED
    BY <1>1, <1>2, <2>1, Tells
<1>4. CASE Looping(s) \/ ReadReturns(s)
  <2>1. UNCHANGED announced
    BY <1>4 DEF Looping, LoopRead, LoopExit, ReadReturns
  <2> QED
    BY <1>1, <2>1, Stutters DEF IsClosed
<1> QED
  BY <1>3, <1>4 DEF Reading

(* The encoder and Server::broadcast: a write that fails is told.          *)
LEMMA BroadcastingRefines ==
  ASSUME Known, Produce \/ Broadcasting PROVE [Registry!Next]_Registry!vars
<1> USE DEF Known
<1>1. pc'[Ctl] = pc[Ctl] /\ UNCHANGED <<obj, readyState>>
  BY DEF TypeOK, Produce, Broadcasting, BcastLock, BcastDone, SendCheck, WriteReturns,
     WriteFatal, BcastNext
<1>2. CASE WriteFatal
  <2>1. pc[Bcast] = "write"
    BY <1>2 DEF WriteFatal
  <2>2. PICK s \in Sessions : s = cur[Bcast] /\ obj[s] = "live"
    BY <2>1 DEF TypeOK, Inv, BcastBorrows, NoUseAfterFree, UsesSession
  <2>3. Announce(s) /\ pc[Ctl] # "stopped"
    BY <1>2, <2>1, <2>2, Quiescent DEF WriteFatal
  <2> HIDE DEF Announce
  <2> QED
    BY <1>1, <2>2, <2>3, Tells
<1>3. CASE \/ Produce \/ BcastLock \/ BcastDone \/ SendCheck \/ WriteReturns
           \/ \E s \in Sessions : BcastNext(s)
  <2>1. UNCHANGED announced
    BY <1>3 DEF Produce, BcastLock, BcastDone, SendCheck, WriteReturns, BcastNext
  <2> QED
    BY <1>1, <2>1, Stutters DEF IsClosed
<1> QED
  BY <1>2, <1>3 DEF Broadcasting

(* WsServer implements SessionRegistry: with all its threads, its mutex    *)
(* and the two steps of every close, a session is announced before it is   *)
(* closed, closed before it is freed, never comes back, and none is left   *)
(* when the server has stopped.                                            *)
THEOREM Implements == Spec => ImplementsRegistry
<1>1. Init => Registry!Init
  <2> SUFFICES ASSUME Init PROVE Registry!Init
    OBVIOUS
  <2>1. \A s \in Sessions : LifeOf(s) = "absent"
    BY DEF Init, LifeOf
  <2>2. ServerState = "up"
    BY DEF Init, ServerState
  <2> QED
    BY <2>1, <2>2 DEF Init, Life, Registry!Init
<1>2. Init => ClosedInv
  BY InitClosed
<1>3. TypeOK /\ Inv /\ LifeInv /\ ClosedInv /\ [Next]_vars => ClosedInv'
  BY ClosedStep
<1>4. Known /\ Known' /\ [Next]_vars => [Registry!Next]_Registry!vars
  <2> SUFFICES ASSUME Known, Known', [Next]_vars PROVE [Registry!Next]_Registry!vars
    OBVIOUS
  <2>1. CASE UNCHANGED vars
    BY <2>1, Stutters DEF vars, IsClosed
  <2>2. CASE ServerRun \/ Stopping
    BY <2>2, StoppingRefines
  <2>3. CASE Accepting
    BY <2>3, AcceptingRefines
  <2>4. CASE Produce \/ Broadcasting
    BY <2>4, BroadcastingRefines
  <2> QED
    BY <2>1, <2>2, <2>3, <2>4, ClearingRefines, DeletingRefines, ClosingRefines, SessionRefines
       DEF Next, Finished
<1> QED
  BY <1>1, <1>2, <1>3, <1>4, Inductive, PTL DEF Known, Spec, ImplementsRegistry, Registry!Spec

(* No session of the server is closed or freed before the application was  *)
(* told, none comes back, and none is left when stop() has returned.       *)
THEOREM RegistryPromised ==
  Spec => [](Registry!ToldBeforeEnd /\ Registry!NoneLeft) /\ Registry!NoWayBack
  BY Implements, Registry!Promised, PTL DEF ImplementsRegistry
=============================================================================
