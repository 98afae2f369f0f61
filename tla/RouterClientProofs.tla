------------------------- MODULE RouterClientProofs -------------------------
(***************************************************************************)
(* No connection is lost, for every number of callers, listeners, attempts *)
(* and faults.                                                             *)
(*                                                                         *)
(* A goroutine dials only while it holds connectMu (DialsLocked) and only  *)
(* when there is no current connection, which then stays so until it       *)
(* installs its own (VacantWhileDialling).  What it is about to install is *)
(* open and in nobody else's hands (Handed), and what someone is about to  *)
(* close is never the current connection (OldNotCurrent).                  *)
(***************************************************************************)
EXTENDS RouterClient, TLAPS

USE RouterClientAssumption

DialsLocked == \A p \in Proc : connectMu = p <=> thread[p].pc \in {"dial", "install"}
VacantWhileDialling == connectMu # None => conn = None
Handed ==
    \A p \in Proc : thread[p].pc = "install" =>
        /\ thread[p].held \in open /\ closer.old # thread[p].held
        /\ \A q \in Proc : thread[q].old # thread[p].held
OldNotCurrent ==
    conn # None => closer.old # conn /\ \A p \in Proc : thread[p].old # conn
Owned(c) ==
    \/ c = conn
    \/ closer.pc = "close" /\ closer.old = c
    \/ \E p \in Proc : \/ thread[p].pc = "install" /\ thread[p].held = c
                       \/ thread[p].pc = "closeOld" /\ thread[p].old = c
AllOwned == (\A c \in open : Owned(c)) /\ (conn # None => conn \in open)

IInv == TypeOK /\ DialsLocked /\ VacantWhileDialling /\ Handed /\ OldNotCurrent /\ AllOwned

-----------------------------------------------------------------------------
LEMMA InitIInv == Init => IInv
  <1> SUFFICES ASSUME Init PROVE IInv
    OBVIOUS
  <1>1. conn \in ConnId
    BY DEF Init
  <1>2. Fresh \in Thread /\ [Fresh EXCEPT !.pc = "loop"] \in Thread
    BY DEF Fresh, Thread, Opt
  <1>3. \A p \in Proc : thread[p].pc \in {"idle", "loop"} /\ thread[p].old = None
    BY DEF Init, Fresh
  <1>4. thread \in [Proc -> Thread]
    BY <1>2 DEF Init
  <1>5. TypeOK
    BY <1>1, <1>4 DEF Init, TypeOK, Opt
  <1> QED
    BY <1>1, <1>3, <1>5 DEF Init, IInv, DialsLocked, VacantWhileDialling, Handed,
        OldNotCurrent, AllOwned, Owned

(***************************************************************************)
(* Steps that leave the connections alone.                                 *)
(***************************************************************************)
\* How connectMu may change with the program counter of the caller.
LockStep(p, k) ==
    \/ connectMu' = connectMu /\ (k.pc = "dial" <=> thread[p].pc = "dial")
    \/ connectMu = None /\ conn = None /\ connectMu' = p /\ k.pc = "dial"
    \/ connectMu = p /\ connectMu' = None /\ k.pc # "dial"

LEMMA LocalIInv ==
    ASSUME IInv, NEW p \in Proc, NEW k \in Thread, Set(p, k),
           thread[p].pc \notin {"install", "closeOld"}, k.pc \notin {"install", "closeOld"},
           k.old \in {None, thread[p].old}, LockStep(p, k),
           UNCHANGED <<conn, open, broken, closer>>, runMu' \in Opt(Proc), faults' \in Nat
    PROVE  IInv'
  <1>1. /\ TypeOK /\ DialsLocked /\ VacantWhileDialling /\ Handed /\ OldNotCurrent
        /\ AllOwned
    BY DEF IInv
  <1>2. /\ thread' \in [Proc -> Thread] /\ thread'[p] = k
        /\ \A q \in Proc \ {p} : thread'[q] = thread[q]
    BY <1>1 DEF Set, TypeOK
  <1>3. connectMu' \in Opt(Proc)
    BY <1>1 DEF TypeOK, LockStep, Opt
  <1>4. TypeOK'
    BY <1>1, <1>2, <1>3 DEF TypeOK
  <1>5. DialsLocked'
    BY <1>1, <1>2 DEF DialsLocked, LockStep
  <1>6. VacantWhileDialling'
    BY <1>1 DEF VacantWhileDialling, LockStep
  <1>7. Handed'
    <2> SUFFICES ASSUME NEW q \in Proc, thread'[q].pc = "install"
                 PROVE  /\ thread'[q].held \in open' /\ closer'.old # thread'[q].held
                        /\ \A r \in Proc : thread'[r].old # thread'[q].held
      BY DEF Handed
    <2>1. q # p /\ thread'[q] = thread[q]
      BY <1>2
    <2>2. thread[q].held # None
      BY <1>1, <2>1 DEF Handed, TypeOK
    <2> QED
      BY <1>1, <1>2, <2>1, <2>2 DEF Handed
  <1>8. OldNotCurrent'
    BY <1>1, <1>2 DEF OldNotCurrent
  <1>9. AllOwned'
    <2>1. ASSUME NEW c \in open PROVE Owned(c)'
      BY <1>1, <1>2, <2>1 DEF AllOwned, Owned
    <2> QED
      BY <1>1, <2>1 DEF AllOwned
  <1> QED
    BY <1>4, <1>5, <1>6, <1>7, <1>8, <1>9 DEF IInv

\* The states a goroutine starts over from.
LEMMA FinishType ==
    ASSUME NEW r \in {"ok", "failed", "closed", "cancelled"}
    PROVE  Finish(r) \in Thread /\ Finish(r).pc = "idle" /\ Finish(r).old = None
  <1>1. 0 \in 0..RunAttempts /\ 0 \in 0..DialAttempts
    OBVIOUS
  <1> QED
    BY <1>1 DEF Fresh, Finish, Thread, Opt

LEMMA FreshType ==
    ASSUME NEW c \in {"loop", "exited"}
    PROVE  /\ [Fresh EXCEPT !.pc = c] \in Thread /\ [Fresh EXCEPT !.pc = c].pc = c
           /\ [Fresh EXCEPT !.pc = c].old = None
  <1>1. 0 \in 0..RunAttempts /\ 0 \in 0..DialAttempts
    OBVIOUS
  <1> QED
    BY <1>1 DEF Fresh, Thread, Opt

LEMMA AttemptType ==
    ASSUME NEW a \in 1..RunAttempts
    PROVE  LET k == [Fresh EXCEPT !.pc = "connect", !.attempt = a]
           IN  k \in Thread /\ k.pc = "connect" /\ k.old = None
  <1>1. 0 \in 0..DialAttempts /\ a \in 0..RunAttempts
    OBVIOUS
  <1> QED
    BY <1>1 DEF Fresh, Thread, Opt

LEMMA AgainType ==
    ASSUME TypeOK, NEW p \in Proc
    PROVE  /\ Again(p) \in Thread /\ Again(p).old = None
           /\ Again(p).pc \in {"idle", "connect", "loop"}
  <1>1. thread[p].attempt \in 0..RunAttempts
    BY DEF TypeOK, Thread
  <1>2. CASE p \in Listeners
    BY <1>2, FreshType DEF Again
  <1>3. CASE p \notin Listeners /\ thread[p].attempt < RunAttempts
    <2> DEFINE a == thread[p].attempt + 1
    <2>1. a \in 1..RunAttempts
      BY <1>1, <1>3
    <2>2. Again(p) = [Fresh EXCEPT !.pc = "connect", !.attempt = a]
      BY <1>3 DEF Again, Retry, NextAttempt
    <2> HIDE DEF a
    <2> QED
      BY <2>1, <2>2, AttemptType
  <1>4. CASE p \notin Listeners /\ ~(thread[p].attempt < RunAttempts)
    <2>1. Again(p) = Finish("failed")
      BY <1>4 DEF Again, Retry
    <2> QED
      BY <2>1, FinishType
  <1> QED
    BY <1>2, <1>3, <1>4

\* Giving up a connection that is about to be taken away.
LEMMA DropType ==
    ASSUME TypeOK, NEW p \in Proc
    PROVE  LET k == [thread[p] EXCEPT !.pc = "disconnect", !.held = None]
           IN  k \in Thread /\ k.pc = "disconnect" /\ k.old = thread[p].old
  <1>1. thread[p] \in Thread /\ None \in Opt(ConnId)
    BY DEF TypeOK, Opt
  <1> QED
    BY <1>1 DEF Thread

\* Steps that touch no lock and leave the connections alone.
Frame ==
    /\ UNCHANGED <<conn, open, broken, closer, connectMu>>
    /\ runMu' \in Opt(Proc) /\ faults' \in Nat
Owns == {"install", "closeOld", "dial"}

LEMMA PlainIInv ==
    ASSUME IInv, NEW p \in Proc, NEW k \in Thread, Set(p, k), Frame,
           thread[p].pc \notin Owns, k.pc \notin Owns, k.old \in {None, thread[p].old}
    PROVE  IInv'
  BY LocalIInv DEF LockStep, Frame, Owns

LEMMA AgainIInv ==
    ASSUME IInv, NEW p \in Proc, Set(p, Again(p)), Frame, thread[p].pc \notin Owns
    PROVE  IInv'
  <1>1. /\ Again(p) \in Thread /\ Again(p).old = None
        /\ Again(p).pc \in {"idle", "connect", "loop"}
    BY AgainType DEF IInv
  <1> QED
    BY <1>1, PlainIInv DEF Owns

LEMMA FinishIInv ==
    ASSUME IInv, NEW p \in Proc, NEW r \in {"ok", "failed", "closed", "cancelled"},
           Set(p, Finish(r)), Frame, thread[p].pc \notin Owns
    PROVE  IInv'
  <1>1. Finish(r) \in Thread /\ Finish(r).pc = "idle" /\ Finish(r).old = None
    BY FinishType
  <1> QED
    BY <1>1, PlainIInv DEF Owns

LEMMA FreshIInv ==
    ASSUME IInv, NEW p \in Proc, NEW c \in {"loop", "exited"},
           Set(p, [Fresh EXCEPT !.pc = c]), Frame, thread[p].pc \notin Owns
    PROVE  IInv'
  <1> DEFINE k == [Fresh EXCEPT !.pc = c]
  <1>1. k \in Thread /\ k.pc = c /\ k.old = None
    BY FreshType
  <1> HIDE DEF k
  <1>2. Set(p, k)
    BY DEF k
  <1> QED
    BY <1>1, <1>2, PlainIInv DEF Owns

LEMMA GotoIInv ==
    ASSUME IInv, NEW p \in Proc,
           NEW c \in {"current", "lockConnect", "run", "disconnect", "exited", "connect",
                      "stream", "subscribe", "lockRun"},
           Set(p, [thread[p] EXCEPT !.pc = c]), Frame, thread[p].pc \notin Owns
    PROVE  IInv'
  <1> DEFINE k == [thread[p] EXCEPT !.pc = c]
  <1>1. k \in Thread /\ k.pc = c /\ k.old = thread[p].old
    <2>1. thread[p] \in Thread
      BY DEF IInv, TypeOK
    <2> QED
      BY <2>1 DEF Thread
  <1> HIDE DEF k
  <1>2. Set(p, k)
    BY DEF k
  <1> QED
    BY <1>1, <1>2, PlainIInv DEF Owns

LEMMA DropIInv ==
    ASSUME IInv, NEW p \in Proc,
           Set(p, [thread[p] EXCEPT !.pc = "disconnect", !.held = None]), Frame,
           thread[p].pc \notin Owns
    PROVE  IInv'
  <1> DEFINE k == [thread[p] EXCEPT !.pc = "disconnect", !.held = None]
  <1>1. k \in Thread /\ k.pc = "disconnect" /\ k.old = thread[p].old
    BY DropType DEF IInv
  <1> HIDE DEF k
  <1>2. Set(p, k)
    BY DEF k
  <1> QED
    BY <1>1, <1>2, PlainIInv DEF Owns

-----------------------------------------------------------------------------
LEMMA RunIInv == ASSUME IInv, NEW p \in Proc, Run(p) PROVE IInv'
  <1>1. Frame /\ thread[p].pc \notin Owns
    BY DEF Run, Frame, Owns, IInv, TypeOK
  <1>2. CASE isClosed
    BY <1>1, <1>2, FinishIInv DEF Run
  <1>3. CASE ~isClosed
    <2> DEFINE k == [Fresh EXCEPT !.pc = "connect", !.attempt = 1]
    <2>1. 1 \in 1..RunAttempts
      OBVIOUS
    <2>2. k \in Thread /\ k.pc = "connect" /\ k.old = None
      BY <2>1, AttemptType
    <2>3. Set(p, k)
      BY <1>3 DEF Run
    <2> HIDE DEF k
    <2> QED
      BY <1>1, <2>2, <2>3, PlainIInv DEF Owns
  <1> QED
    BY <1>2, <1>3

LEMMA ConnectIInv == ASSUME IInv, NEW p \in Proc, Connect(p) PROVE IInv'
  <1>1. Frame /\ thread[p].pc \notin Owns
    BY DEF Connect, Frame, Owns, IInv, TypeOK
  <1>2. \/ Set(p, Again(p))
        \/ Set(p, [thread[p] EXCEPT !.pc = "current"])
        \/ Set(p, [thread[p] EXCEPT !.pc = "lockConnect"])
    BY DEF Connect
  <1> QED
    BY <1>1, <1>2, AgainIInv, GotoIInv

LEMMA CurrentConnIInv == ASSUME IInv, NEW p \in Proc, CurrentConn(p) PROVE IInv'
  <1>1. Frame /\ thread[p].pc \notin Owns
    BY DEF CurrentConn, Frame, Owns, IInv, TypeOK
  <1>2. CASE conn = None
    BY <1>1, <1>2, AgainIInv DEF CurrentConn
  <1>3. CASE conn # None
    <2>1. PICK c \in {"subscribe", "lockRun"} :
             Set(p, [thread[p] EXCEPT !.held = conn, !.pc = c])
      BY <1>3 DEF CurrentConn
    <2> DEFINE k == [thread[p] EXCEPT !.held = conn, !.pc = c]
    <2>2. thread[p] \in Thread /\ conn \in Opt(ConnId)
      BY DEF IInv, TypeOK
    <2>3. k \in Thread /\ k.pc = c /\ k.old = thread[p].old
      BY <2>2 DEF Thread
    <2>4. Set(p, k)
      BY <2>1
    <2> HIDE DEF k
    <2> QED
      BY <1>1, <2>3, <2>4, PlainIInv DEF Owns
  <1> QED
    BY <1>2, <1>3

LEMMA CommandIInv ==
    ASSUME IInv, NEW p \in Proc, LockRun(p) \/ RunReplies(p) \/ RunFails(p)
    PROVE  IInv'
  <1>1. Frame /\ thread[p].pc \notin Owns
    BY DEF LockRun, RunReplies, RunFails, Frame, Owns, IInv, TypeOK, Opt
  <1>2. \/ Set(p, [thread[p] EXCEPT !.pc = "run"])
        \/ Set(p, Finish("ok"))
        \/ Set(p, [thread[p] EXCEPT !.pc = "disconnect", !.held = None])
    BY DEF LockRun, RunReplies, RunFails
  <1> QED
    BY <1>1, <1>2, GotoIInv, FinishIInv, DropIInv

LEMMA ListenIInv ==
    ASSUME IInv, NEW p \in Proc,
           ListenLoop(p) \/ Subscribe(p) \/ StreamDone(p) \/ StreamEnds(p)
    PROVE  IInv'
  <1>1. Frame /\ thread[p].pc \notin Owns
    BY DEF ListenLoop, Subscribe, StreamDone, StreamEnds, Fault, Frame, Owns, IInv, TypeOK
  <1>2. \/ \E c \in {"exited", "connect", "stream", "disconnect"} :
              Set(p, [thread[p] EXCEPT !.pc = c])
        \/ Set(p, [Fresh EXCEPT !.pc = "exited"])
        \/ Set(p, [thread[p] EXCEPT !.pc = "disconnect", !.held = None])
    BY DEF ListenLoop, Subscribe, StreamDone, StreamEnds
  <1> QED
    BY <1>1, <1>2, GotoIInv, FreshIInv, DropIInv

\* Steps of a goroutine that takes or gives back connectMu.
LEMMA LockConnectIInv == ASSUME IInv, NEW p \in Proc, LockConnect(p) PROVE IInv'
  <1>1. thread[p].pc \notin Owns /\ connectMu = None
    BY DEF LockConnect, Owns
  <1>2. thread[p] \in Thread /\ runMu' \in Opt(Proc) /\ faults' \in Nat
    BY DEF IInv, TypeOK, LockConnect
  <1>3. CASE NeedsDial
    <2> DEFINE k == [thread[p] EXCEPT !.pc = "dial", !.dial = 1]
    <2>1. 1 \in 0..DialAttempts
      OBVIOUS
    <2>2. k \in Thread /\ k.pc = "dial" /\ k.old = thread[p].old
      BY <1>2, <2>1 DEF Thread
    <2>3. /\ Set(p, k) /\ connectMu' = p /\ conn = None
          /\ UNCHANGED <<conn, open, broken, closer>>
      BY <1>3 DEF LockConnect, NeedsDial
    <2> HIDE DEF k
    <2>4. LockStep(p, k)
      BY <1>1, <2>2, <2>3 DEF LockStep
    <2> QED
      BY <1>1, <1>2, <2>2, <2>3, <2>4, LocalIInv DEF Owns
  <1>4. CASE ~NeedsDial
    <2>1. Frame /\ Set(p, [thread[p] EXCEPT !.pc = "current"])
      BY <1>2, <1>4 DEF LockConnect, Frame
    <2> QED
      BY <1>1, <2>1, GotoIInv
  <1> QED
    BY <1>3, <1>4

LEMMA DialFailsIInv == ASSUME IInv, NEW p \in Proc, DialFails(p) PROVE IInv'
  <1>1. /\ thread[p].pc = "dial" /\ UNCHANGED <<conn, open, broken, closer>>
        /\ runMu' \in Opt(Proc) /\ faults' \in Nat
    BY DEF IInv, TypeOK, DialFails, Fault
  <1>2. TypeOK /\ thread[p] \in Thread /\ connectMu = p
    BY <1>1 DEF IInv, TypeOK, DialsLocked
  <1>3. CASE thread[p].dial < DialAttempts
    <2> DEFINE k == [thread[p] EXCEPT !.dial = @ + 1]
    <2>1. thread[p].dial + 1 \in 0..DialAttempts
      BY <1>2, <1>3 DEF Thread
    <2>2. k \in Thread /\ k.pc = "dial" /\ k.old = thread[p].old
      BY <1>1, <1>2, <2>1 DEF Thread
    <2>3. Set(p, k) /\ connectMu' = connectMu
      BY <1>3 DEF DialFails
    <2> HIDE DEF k
    <2>4. LockStep(p, k)
      BY <1>1, <2>2, <2>3 DEF LockStep
    <2> QED
      BY <1>1, <2>2, <2>3, <2>4, LocalIInv
  <1>4. CASE ~(thread[p].dial < DialAttempts)
    <2>1. Set(p, Again(p)) /\ connectMu' = None
      BY <1>4 DEF DialFails, ConnectUnlocks
    <2>2. /\ Again(p) \in Thread /\ Again(p).old = None
          /\ Again(p).pc \in {"idle", "connect", "loop"}
      BY <1>2, AgainType
    <2>3. LockStep(p, Again(p))
      BY <1>2, <2>1, <2>2 DEF LockStep
    <2> QED
      BY <1>1, <2>1, <2>2, <2>3, LocalIInv
  <1> QED
    BY <1>3, <1>4

LEMMA CancelledIInv == ASSUME IInv, NEW p \in Proc, Cancelled(p) PROVE IInv'
  <1>1. /\ thread[p].pc \in {"connect", "dial", "run", "loop", "stream"}
        /\ UNCHANGED <<conn, open, broken, closer>>
        /\ runMu' \in Opt(Proc) /\ faults' \in Nat
    BY DEF IInv, TypeOK, Cancelled, Fault, Opt
  <1>2. connectMu = p <=> thread[p].pc = "dial"
    BY <1>1 DEF IInv, DialsLocked
  <1>3. PICK k \in Thread : Set(p, k) /\ k.pc \in {"idle", "exited"} /\ k.old = None
    <2>1. CASE p \in Listeners
      BY <2>1, FreshType DEF Cancelled
    <2>2. CASE p \notin Listeners
      BY <2>2, FinishType DEF Cancelled
    <2> QED
      BY <2>1, <2>2
  <1>4. LockStep(p, k)
    BY <1>1, <1>2, <1>3 DEF LockStep, Cancelled
  <1> QED
    BY <1>1, <1>3, <1>4, LocalIInv

-----------------------------------------------------------------------------
(***************************************************************************)
(* Steps that move connections.                                            *)
(***************************************************************************)
\* The facts every one of these steps starts from.
LEMMA Parts ==
    ASSUME IInv
    PROVE  /\ TypeOK /\ DialsLocked /\ VacantWhileDialling /\ Handed /\ OldNotCurrent
           /\ AllOwned
  BY DEF IInv

\* One goroutine becomes k, the others stay.
LEMMA Setting ==
    ASSUME TypeOK, NEW p \in Proc, NEW k \in Thread, Set(p, k)
    PROVE  /\ thread' \in [Proc -> Thread] /\ thread'[p] = k
           /\ \A q \in Proc \ {p} : thread'[q] = thread[q]
  BY DEF TypeOK, Set

\* A new connection is known to nobody but the goroutine that dialled it.
LEMMA DialIInv == ASSUME IInv, NEW p \in Proc, Dial(p) PROVE IInv'
  <1> DEFINE c == CHOOSE c \in Unknown : TRUE
             k == [thread[p] EXCEPT !.pc = "install", !.held = c]
  <1>1. c \in Unknown
    BY DEF Dial
  <1>2. /\ open' = open \cup {c} /\ Set(p, k) /\ thread[p].pc = "dial"
        /\ UNCHANGED <<conn, broken, connectMu, runMu, closer, faults>>
    BY DEF Dial
  <1> HIDE DEF c
  <1>3. /\ c \in ConnId /\ c \notin open /\ c # closer.old
        /\ \A q \in Proc : thread[q].old # c
    BY <1>1 DEF Unknown
  <1>4. k \in Thread /\ k.pc = "install" /\ k.held = c /\ k.old = thread[p].old
    <2>1. thread[p] \in Thread /\ c \in Opt(ConnId)
      BY <1>3 DEF IInv, TypeOK, Opt
    <2> QED
      BY <2>1 DEF Thread
  <1> HIDE DEF k
  <1>5. /\ TypeOK /\ DialsLocked /\ VacantWhileDialling /\ Handed /\ OldNotCurrent
        /\ AllOwned
    BY Parts
  <1>6. /\ thread' \in [Proc -> Thread] /\ thread'[p] = k
        /\ \A q \in Proc \ {p} : thread'[q] = thread[q]
    BY <1>2, <1>4, <1>5, Setting
  <1>7. TypeOK'
    BY <1>2, <1>3, <1>5, <1>6 DEF TypeOK
  <1>8. DialsLocked' /\ VacantWhileDialling'
    BY <1>2, <1>4, <1>5, <1>6 DEF DialsLocked, VacantWhileDialling
  <1>9. Handed'
    BY <1>2, <1>3, <1>4, <1>5, <1>6 DEF Handed
  <1>10. OldNotCurrent'
    BY <1>2, <1>4, <1>5, <1>6 DEF OldNotCurrent
  <1>11. AllOwned'
    <2>1. ASSUME NEW d \in open' PROVE Owned(d)'
      BY <1>2, <1>4, <1>5, <1>6, <2>1 DEF AllOwned, Owned
    <2> QED
      BY <1>2, <1>5, <2>1 DEF AllOwned
  <1> QED
    BY <1>7, <1>8, <1>9, <1>10, <1>11 DEF IInv

LEMMA InstallIInv == ASSUME IInv, NEW p \in Proc, Install(p) PROVE IInv'
  <1> DEFINE k == [thread[p] EXCEPT !.pc = "current", !.held = None, !.dial = 0]
  <1>1. /\ thread[p].pc = "install" /\ conn' = thread[p].held /\ connectMu' = None /\ Set(p, k)
        /\ UNCHANGED <<open, broken, runMu, closer, faults>>
    BY DEF Install, ConnectUnlocks
  <1>2. k \in Thread /\ k.pc = "current" /\ k.old = thread[p].old
    <2>1. thread[p] \in Thread /\ None \in Opt(ConnId) /\ 0 \in 0..DialAttempts
      BY DEF IInv, TypeOK, Opt
    <2> QED
      BY <2>1 DEF Thread
  <1> HIDE DEF k
  <1>3. /\ TypeOK /\ DialsLocked /\ VacantWhileDialling /\ Handed /\ OldNotCurrent
        /\ AllOwned
    BY Parts
  <1>4. /\ thread' \in [Proc -> Thread] /\ thread'[p] = k
        /\ \A q \in Proc \ {p} : thread'[q] = thread[q]
    BY <1>1, <1>2, <1>3, Setting
  <1>5. connectMu = p /\ conn = None
    BY <1>1, <1>3 DEF DialsLocked, VacantWhileDialling
  <1>6. \A q \in Proc \ {p} : thread[q].pc \notin {"dial", "install"}
    BY <1>3, <1>5 DEF DialsLocked
  <1>7. /\ thread[p].held \in open /\ closer.old # thread[p].held
        /\ \A q \in Proc : thread[q].old # thread[p].held
    BY <1>1, <1>3 DEF Handed
  <1>8. TypeOK'
    BY <1>1, <1>3, <1>4, <1>7 DEF TypeOK, Opt
  <1>9. DialsLocked' /\ VacantWhileDialling' /\ Handed'
    BY <1>1, <1>2, <1>4, <1>6 DEF DialsLocked, VacantWhileDialling, Handed
  <1>10. OldNotCurrent'
    BY <1>1, <1>2, <1>4, <1>7 DEF OldNotCurrent
  <1>11. AllOwned'
    <2>1. ASSUME NEW d \in open' PROVE Owned(d)'
      <3>1. Owned(d) /\ d # None
        BY <1>1, <1>3, <2>1 DEF AllOwned, TypeOK
      <3> QED
        BY <1>1, <1>4, <1>5, <3>1 DEF Owned
    <2> QED
      BY <1>1, <1>7, <2>1 DEF AllOwned
  <1> QED
    BY <1>8, <1>9, <1>10, <1>11 DEF IInv

\* Whoever takes the connection away owns it until it is closed.
LEMMA DisconnectIInv == ASSUME IInv, NEW p \in Proc, Disconnect(p) PROVE IInv'
  <1> DEFINE k == [thread[p] EXCEPT !.pc = "closeOld", !.old = conn]
  <1>1. /\ thread[p].pc = "disconnect" /\ conn' = None /\ Set(p, k)
        /\ UNCHANGED <<open, broken, connectMu, runMu, closer, faults>>
    BY DEF Disconnect
  <1>2. k \in Thread /\ k.pc = "closeOld" /\ k.old = conn
    <2>1. thread[p] \in Thread /\ conn \in Opt(ConnId)
      BY DEF IInv, TypeOK
    <2> QED
      BY <2>1 DEF Thread
  <1> HIDE DEF k
  <1>3. /\ TypeOK /\ DialsLocked /\ VacantWhileDialling /\ Handed /\ OldNotCurrent
        /\ AllOwned
    BY Parts
  <1>4. /\ thread' \in [Proc -> Thread] /\ thread'[p] = k
        /\ \A q \in Proc \ {p} : thread'[q] = thread[q]
    BY <1>1, <1>2, <1>3, Setting
  <1>5. TypeOK'
    BY <1>1, <1>3, <1>4 DEF TypeOK, Opt
  <1>6. DialsLocked' /\ VacantWhileDialling' /\ OldNotCurrent'
    BY <1>1, <1>2, <1>3, <1>4 DEF DialsLocked, VacantWhileDialling, OldNotCurrent
  <1>7. Handed'
    <2> SUFFICES ASSUME NEW q \in Proc, thread'[q].pc = "install"
                 PROVE  /\ thread'[q].held \in open' /\ closer'.old # thread'[q].held
                        /\ \A r \in Proc : thread'[r].old # thread'[q].held
      BY DEF Handed
    <2>1. q # p /\ thread'[q] = thread[q]
      BY <1>2, <1>4
    <2>2. conn = None /\ thread[q].held # None
      BY <1>3, <2>1 DEF DialsLocked, VacantWhileDialling, Handed, TypeOK
    <2> QED
      BY <1>1, <1>2, <1>3, <1>4, <2>1, <2>2 DEF Handed
  <1>8. AllOwned'
    <2>1. ASSUME NEW d \in open' PROVE Owned(d)'
      <3>1. Owned(d)
        BY <1>1, <1>3, <2>1 DEF AllOwned
      <3> QED
        BY <1>1, <1>2, <1>4, <3>1 DEF Owned
    <2> QED
      BY <1>1, <2>1 DEF AllOwned
  <1> QED
    BY <1>5, <1>6, <1>7, <1>8 DEF IInv

LEMMA CloseOldIInv == ASSUME IInv, NEW p \in Proc, CloseOld(p) PROVE IInv'
  <1>1. /\ thread[p].pc = "closeOld" /\ Set(p, AfterClose(p))
        /\ open' = open \ {thread[p].old} /\ broken' = broken \ {thread[p].old}
        /\ UNCHANGED <<conn, connectMu, runMu, closer, faults>>
    BY DEF CloseOld
  <1>2. /\ TypeOK /\ DialsLocked /\ VacantWhileDialling /\ Handed /\ OldNotCurrent
        /\ AllOwned
    BY Parts
  <1>3. PICK k \in Thread : /\ k = AfterClose(p) /\ k.old = None
                            /\ k.pc \in {"idle", "connect", "loop", "stream"}
    <2>1. CASE p \in Listeners /\ thread[p].held # None
      <3>1. thread[p] \in Thread /\ None \in Opt(ConnId)
        BY <1>2 DEF TypeOK, Opt
      <3> DEFINE k == [thread[p] EXCEPT !.pc = "stream", !.old = None]
      <3>2. k \in Thread /\ k.old = None /\ k.pc = "stream"
        BY <3>1 DEF Thread
      <3>3. AfterClose(p) = k
        BY <2>1 DEF AfterClose
      <3> QED
        BY <3>2, <3>3
    <2>2. CASE ~(p \in Listeners /\ thread[p].held # None)
      BY <1>2, <2>2, AgainType DEF AfterClose
    <2> QED
      BY <2>1, <2>2
  <1>4. /\ thread' \in [Proc -> Thread] /\ thread'[p] = k
        /\ \A q \in Proc \ {p} : thread'[q] = thread[q]
    BY <1>1, <1>2, <1>3, Setting
  <1>5. TypeOK'
    BY <1>1, <1>2, <1>4 DEF TypeOK
  <1>6. DialsLocked' /\ VacantWhileDialling'
    BY <1>1, <1>2, <1>3, <1>4 DEF DialsLocked, VacantWhileDialling
  <1>7. OldNotCurrent'
    BY <1>1, <1>2, <1>3, <1>4 DEF OldNotCurrent
  <1>8. Handed'
    <2> SUFFICES ASSUME NEW q \in Proc, thread'[q].pc = "install"
                 PROVE  /\ thread'[q].held \in open' /\ closer'.old # thread'[q].held
                        /\ \A r \in Proc : thread'[r].old # thread'[q].held
      BY DEF Handed
    <2>1. q # p /\ thread'[q] = thread[q]
      BY <1>3, <1>4
    <2>2. thread[q].held # None
      BY <1>2, <2>1 DEF Handed, TypeOK
    <2> QED
      BY <1>1, <1>2, <1>3, <1>4, <2>1, <2>2 DEF Handed
  <1>9. AllOwned'
    <2>1. ASSUME NEW d \in open' PROVE Owned(d)'
      <3>1. Owned(d) /\ d # thread[p].old
        BY <1>1, <1>2, <2>1 DEF AllOwned
      <3> QED
        BY <1>1, <1>4, <3>1 DEF Owned
    <2> QED
      BY <1>1, <1>2, <2>1 DEF AllOwned, OldNotCurrent
  <1> QED
    BY <1>5, <1>6, <1>7, <1>8, <1>9 DEF IInv

-----------------------------------------------------------------------------
(***************************************************************************)
(* Steps of the router and of Close.                                       *)
(***************************************************************************)
LEMMA BreaksIInv == ASSUME IInv, NEW c \in open, Breaks(c) PROVE IInv'
  <1>1. /\ TypeOK /\ DialsLocked /\ VacantWhileDialling /\ Handed /\ OldNotCurrent
        /\ AllOwned
    BY Parts
  <1>2. TypeOK'
    BY <1>1 DEF TypeOK, Breaks, Fault
  <1> QED
    BY <1>1, <1>2 DEF Breaks, IInv, DialsLocked, VacantWhileDialling, Handed, OldNotCurrent,
        AllOwned, Owned

LEMMA CloseIInv == ASSUME IInv, Close PROVE IInv'
  <1>1. /\ TypeOK /\ DialsLocked /\ VacantWhileDialling /\ Handed /\ OldNotCurrent
        /\ AllOwned
    BY Parts
  <1>2. /\ closer.pc = "idle" /\ closer'.pc = "swap" /\ closer'.old = closer.old
        /\ closer' \in [pc : {"idle", "swap", "close", "done"}, old : Opt(ConnId)]
        /\ UNCHANGED <<conn, open, broken, connectMu, runMu, thread, faults>>
    BY <1>1 DEF Close, TypeOK
  <1>3. TypeOK'
    BY <1>1, <1>2 DEF TypeOK
  <1> QED
    BY <1>1, <1>2, <1>3 DEF IInv, DialsLocked, VacantWhileDialling, Handed, OldNotCurrent,
        AllOwned, Owned

LEMMA CloseSwapIInv == ASSUME IInv, CloseSwap PROVE IInv'
  <1>1. /\ TypeOK /\ DialsLocked /\ VacantWhileDialling /\ Handed /\ OldNotCurrent
        /\ AllOwned
    BY Parts
  <1>2. /\ closer.pc = "swap" /\ closer'.pc = "close" /\ closer'.old = conn /\ conn' = None
        /\ closer' \in [pc : {"idle", "swap", "close", "done"}, old : Opt(ConnId)]
        /\ UNCHANGED <<open, broken, connectMu, runMu, thread, faults>>
    BY <1>1 DEF CloseSwap, TypeOK
  <1>3. TypeOK'
    BY <1>1, <1>2 DEF TypeOK, Opt
  <1>4. DialsLocked' /\ VacantWhileDialling' /\ OldNotCurrent'
    BY <1>1, <1>2 DEF DialsLocked, VacantWhileDialling, OldNotCurrent
  <1>5. Handed'
    <2> SUFFICES ASSUME NEW q \in Proc, thread[q].pc = "install"
                 PROVE  /\ thread[q].held \in open /\ conn # thread[q].held
                        /\ \A r \in Proc : thread[r].old # thread[q].held
      BY <1>2 DEF Handed
    <2>1. conn = None /\ thread[q].held # None
      BY <1>1 DEF DialsLocked, VacantWhileDialling, Handed, TypeOK
    <2> QED
      BY <1>1, <2>1 DEF Handed
  <1>6. AllOwned'
    <2>1. ASSUME NEW d \in open' PROVE Owned(d)'
      <3>1. Owned(d)
        BY <1>1, <1>2, <2>1 DEF AllOwned
      <3> QED
        BY <1>2, <3>1 DEF Owned
    <2> QED
      BY <1>2, <2>1 DEF AllOwned
  <1> QED
    BY <1>3, <1>4, <1>5, <1>6 DEF IInv

LEMMA CloseReturnsIInv == ASSUME IInv, CloseReturns PROVE IInv'
  <1>1. /\ TypeOK /\ DialsLocked /\ VacantWhileDialling /\ Handed /\ OldNotCurrent
        /\ AllOwned
    BY Parts
  <1>2. /\ closer.pc = "close" /\ closer'.pc = "done" /\ closer'.old = None
        /\ open' = open \ {closer.old} /\ broken' = broken \ {closer.old}
        /\ UNCHANGED <<conn, connectMu, runMu, thread, faults>>
    BY DEF CloseReturns
  <1>3. TypeOK'
    <2>1. closer' \in [pc : {"idle", "swap", "close", "done"}, old : Opt(ConnId)]
      BY DEF CloseReturns, Opt
    <2> QED
      BY <1>1, <1>2, <2>1 DEF TypeOK
  <1>4. DialsLocked' /\ VacantWhileDialling' /\ OldNotCurrent'
    BY <1>1, <1>2 DEF DialsLocked, VacantWhileDialling, OldNotCurrent
  <1>5. Handed'
    BY <1>1, <1>2 DEF Handed, TypeOK
  <1>6. AllOwned'
    <2>1. ASSUME NEW d \in open' PROVE Owned(d)'
      <3>1. Owned(d) /\ d # closer.old
        BY <1>1, <1>2, <2>1 DEF AllOwned
      <3> QED
        BY <1>2, <3>1 DEF Owned
    <2> QED
      BY <1>1, <1>2, <2>1 DEF AllOwned, OldNotCurrent
  <1> QED
    BY <1>3, <1>4, <1>5, <1>6 DEF IInv

-----------------------------------------------------------------------------
LEMMA StepIInv == ASSUME IInv, NEW p \in Proc, Step(p) PROVE IInv'
  BY ConnectIInv, LockConnectIInv, DialIInv, InstallIInv, CurrentConnIInv, CommandIInv,
     DisconnectIInv, CloseOldIInv, ListenIInv DEF Step

LEMMA NextIInv == IInv /\ [Next]_vars => IInv'
  <1> SUFFICES ASSUME IInv, [Next]_vars PROVE IInv'
    OBVIOUS
  <1>1. CASE UNCHANGED vars
    BY <1>1 DEF vars, IInv, TypeOK, DialsLocked, VacantWhileDialling, Handed, OldNotCurrent,
        AllOwned, Owned
  <1>2. ASSUME NEW p \in Proc, Step(p) \/ DialFails(p) \/ Cancelled(p) \/ StreamDone(p) \/ Run(p)
        PROVE  IInv'
    BY <1>2, StepIInv, DialFailsIInv, CancelledIInv, ListenIInv, RunIInv
  <1>3. ASSUME NEW c \in open, Breaks(c) PROVE IInv'
    BY <1>3, BreaksIInv
  <1>4. CASE Close \/ CloseSwap \/ CloseReturns
    BY <1>4, CloseIInv, CloseSwapIInv, CloseReturnsIInv
  <1> QED
    BY <1>1, <1>2, <1>3, <1>4 DEF Next

LEMMA AlwaysIInv == Spec => []IInv
  BY InitIInv, NextIInv, PTL DEF Spec

-----------------------------------------------------------------------------
\* The client's state keeps its types through every retry, reconnect and
\* Close; in particular no Run and no connect counts past its attempts
\* (client.go 142-210, 341-390).
THEOREM ClientTyped == Spec => []TypeOK
  <1>1. IInv => TypeOK
    BY DEF IInv
  <1> QED
    BY <1>1, AlwaysIInv, PTL

\* Whatever callers, listeners and Close do at once, an open connection is
\* the current one or in the hands of a goroutine that will install or close
\* it, and the current one is open (client.go 341-397).
THEOREM ConnectionsKept == Spec => []NoConnectionLost
  <1>1. IInv => NoConnectionLost
    BY DEF IInv, AllOwned, Owned, NoConnectionLost, Owners
  <1> QED
    BY <1>1, AlwaysIInv, PTL
=============================================================================
