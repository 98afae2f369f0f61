---------------------------- MODULE RouterClient ----------------------------
(***************************************************************************)
(* One RouterOS client (routeros/client.go, events.go): a single           *)
(* connection shared by every caller of Run, the goroutines of Listen, and *)
(* Close.  Callers connect on demand, reconnect after a failure and give   *)
(* up after a number of attempts.  The connection pointer is protected by  *)
(* mu, dialling by connectMu and commands by runMu; the closed channel is  *)
(* only looked at, so everything here is about what may happen in between. *)
(***************************************************************************)
EXTENDS Naturals

CONSTANTS
    None,
    Callers,      \* goroutines that call Run
    Listeners,    \* goroutines of Listen
    RunAttempts,  \* maxAttempts of Run
    DialAttempts, \* maxAttempts of connect
    Closes,       \* scenario: whether Close is called
    ConnId,       \* names for connections; a name is used again once nobody knows it
    MaxFaults     \* bound: failed dials, broken connections, cancelled contexts

Proc == Callers \cup Listeners
Opt(S) == S \cup {None}

ASSUME RouterClientAssumption ==
    /\ None \notin ConnId /\ ConnId # {} /\ None \notin Proc
    /\ Callers \cap Listeners = {}
    /\ RunAttempts \in Nat \ {0} /\ DialAttempts \in Nat \ {0}
    /\ Closes \in BOOLEAN /\ MaxFaults \in Nat

VARIABLES
    conn,        \* the client's current connection
    open,        \* connections that were dialled and not closed
    broken,      \* open connections whose peer is gone
    connectMu, runMu,
    thread,      \* the local variables of each goroutine
    closer,      \* the goroutine that calls Close
    faults

vars == <<conn, open, broken, connectMu, runMu, thread, closer, faults>>

Thread == [pc : {"idle", "connect", "lockConnect", "dial", "install", "current", "lockRun",
                 "run", "disconnect", "closeOld", "loop", "subscribe", "stream", "exited"},
           attempt : 0..RunAttempts, dial : 0..DialAttempts, held : Opt(ConnId), old : Opt(ConnId),
           result : {"none", "ok", "failed", "closed", "cancelled"}]
Fresh == [pc |-> "idle", attempt |-> 0, dial |-> 0, held |-> None, old |-> None,
          result |-> "none"]

\* close(c.closed) has happened.
isClosed == closer.pc # "idle"

Set(p, k) == thread' = [thread EXCEPT ![p] = k]
Healthy(c) == c \in open /\ c \notin broken
Fault ==
    /\ faults < MaxFaults
    /\ faults' = faults + 1

\* The end of a Run, and the next round of its loop.
Finish(result) == [Fresh EXCEPT !.result = result]
NextAttempt(k) == [Fresh EXCEPT !.pc = "connect", !.attempt = k.attempt + 1]

Retry(k) == IF k.attempt < RunAttempts THEN NextAttempt(k) ELSE Finish("failed")

\* Where a goroutine goes on after a failed connect, a failed command or a
\* disconnect: Run tries again, the listener's outer loop starts over.
Again(p) ==
    IF p \in Listeners THEN [Fresh EXCEPT !.pc = "loop"] ELSE Retry(thread[p])

-----------------------------------------------------------------------------
Init ==
    /\ conn = (CHOOSE c \in ConnId : TRUE)      \* New has connected
    /\ open = {conn} /\ broken = {}
    /\ connectMu = None /\ runMu = None
    /\ thread = [p \in Proc |-> IF p \in Listeners THEN [Fresh EXCEPT !.pc = "loop"] ELSE Fresh]
    /\ closer = [pc |-> "idle", old |-> None]
    /\ faults = 0

Run(p) ==
    /\ p \in Callers /\ thread[p].pc = "idle"
    /\ Set(p, IF isClosed THEN Finish("closed")
              ELSE [Fresh EXCEPT !.pc = "connect", !.attempt = 1])
    /\ UNCHANGED <<conn, open, broken, connectMu, runMu, closer, faults>>

\* connect, before the lock.
Connect(p) ==
    /\ thread[p].pc = "connect"
    /\ Set(p, IF isClosed THEN Again(p)
              ELSE [thread[p] EXCEPT !.pc = IF conn # None THEN "current" ELSE "lockConnect"])
    /\ UNCHANGED <<conn, open, broken, connectMu, runMu, closer, faults>>

\* Mutant: no second look under the lock.
NeedsDial_NoRecheck == TRUE

\* connect, under the lock: someone else may have connected meanwhile.
NeedsDial == conn = None

LockConnect(p) ==
    /\ thread[p].pc = "lockConnect" /\ connectMu = None
    /\ IF NeedsDial
       THEN /\ connectMu' = p
            /\ Set(p, [thread[p] EXCEPT !.pc = "dial", !.dial = 1])
       ELSE /\ UNCHANGED connectMu
            /\ Set(p, [thread[p] EXCEPT !.pc = "current"])
    /\ UNCHANGED <<conn, open, broken, runMu, closer, faults>>

Unknown ==
    {c \in ConnId \ open : c # closer.old /\ \A p \in Proc : c \notin {thread[p].held, thread[p].old}}

Dial(p) ==
    /\ thread[p].pc = "dial" /\ Unknown # {}
    /\ LET c == CHOOSE c \in Unknown : TRUE
       IN  open' = open \cup {c} /\ Set(p, [thread[p] EXCEPT !.pc = "install", !.held = c])
    /\ UNCHANGED <<conn, broken, connectMu, runMu, closer, faults>>

\* Mutant: connectMu stays locked when connect gives up.
ConnectUnlocks_Never(mu) == mu

\* The deferred Unlock of connect.
ConnectUnlocks(mu) == None

DialFails(p) ==
    /\ thread[p].pc = "dial"
    /\ Fault
    /\ IF thread[p].dial < DialAttempts
       THEN Set(p, [thread[p] EXCEPT !.dial = @ + 1]) /\ UNCHANGED connectMu
       ELSE Set(p, Again(p)) /\ connectMu' = ConnectUnlocks(connectMu)
    /\ UNCHANGED <<conn, open, broken, runMu, closer>>

\* swapConn(conn): what was there before is not looked at, nor is closed.
Install(p) ==
    /\ thread[p].pc = "install"
    /\ conn' = thread[p].held
    /\ connectMu' = ConnectUnlocks(connectMu)
    /\ Set(p, [thread[p] EXCEPT !.pc = "current", !.held = None, !.dial = 0])
    /\ UNCHANGED <<open, broken, runMu, closer, faults>>

\* conn := c.currentConn(); it may have been taken away again.
CurrentConn(p) ==
    /\ thread[p].pc = "current"
    /\ Set(p, IF conn = None THEN Again(p)
              ELSE [thread[p] EXCEPT !.held = conn,
                                     !.pc = IF p \in Listeners THEN "subscribe" ELSE "lockRun"])
    /\ UNCHANGED <<conn, open, broken, connectMu, runMu, closer, faults>>

LockRun(p) ==
    /\ thread[p].pc = "lockRun" /\ runMu = None
    /\ runMu' = p
    /\ Set(p, [thread[p] EXCEPT !.pc = "run"])
    /\ UNCHANGED <<conn, open, broken, connectMu, closer, faults>>

\* The command is answered (a refusal by the router ends Run just the same).
RunReplies(p) ==
    /\ thread[p].pc = "run" /\ Healthy(thread[p].held)
    /\ runMu' = None
    /\ Set(p, Finish("ok"))
    /\ UNCHANGED <<conn, open, broken, connectMu, closer, faults>>

\* The command fails because its connection was closed here or broke there.
RunFails(p) ==
    /\ thread[p].pc = "run" /\ ~Healthy(thread[p].held)
    /\ runMu' = None
    /\ Set(p, [thread[p] EXCEPT !.pc = "disconnect", !.held = None])
    /\ UNCHANGED <<conn, open, broken, connectMu, closer, faults>>

\* disconnect takes away whatever connection is current, then closes it.
Disconnect(p) ==
    /\ thread[p].pc = "disconnect"
    /\ conn' = None
    /\ Set(p, [thread[p] EXCEPT !.pc = "closeOld", !.old = conn])
    /\ UNCHANGED <<open, broken, connectMu, runMu, closer, faults>>

\* Run goes on with its next attempt, listenLoop after a failed subscription
\* with its outer loop.  After the end of a stream (held is still set) the
\* break leaves only the select, and the inner loop reads that stream again.
AfterClose(p) ==
    IF p \in Listeners /\ thread[p].held # None
    THEN [thread[p] EXCEPT !.pc = "stream", !.old = None] ELSE Again(p)

CloseOld(p) ==
    /\ thread[p].pc = "closeOld"
    /\ open' = open \ {thread[p].old} /\ broken' = broken \ {thread[p].old}
    /\ Set(p, AfterClose(p))
    /\ UNCHANGED <<conn, connectMu, runMu, closer, faults>>

\* The outer loop of listenLoop.
ListenLoop(p) ==
    /\ thread[p].pc = "loop"
    /\ Set(p, [thread[p] EXCEPT !.pc = IF isClosed THEN "exited" ELSE "connect"])
    /\ UNCHANGED <<conn, open, broken, connectMu, runMu, closer, faults>>

Subscribe(p) ==
    /\ thread[p].pc = "subscribe"
    /\ Set(p, IF Healthy(thread[p].held) THEN [thread[p] EXCEPT !.pc = "stream"]
              ELSE [thread[p] EXCEPT !.pc = "disconnect", !.held = None])
    /\ UNCHANGED <<conn, open, broken, connectMu, runMu, closer, faults>>

\* The router ends the stream: listenLoop returns.
StreamDone(p) ==
    /\ thread[p].pc = "stream" /\ Healthy(thread[p].held)
    /\ Fault
    /\ Set(p, [Fresh EXCEPT !.pc = "exited"])
    /\ UNCHANGED <<conn, open, broken, connectMu, runMu, closer>>

\* The stream of a connection that is gone is closed with a retryable error.
StreamEnds(p) ==
    /\ thread[p].pc = "stream" /\ ~Healthy(thread[p].held)
    /\ Set(p, [thread[p] EXCEPT !.pc = "disconnect"])
    /\ UNCHANGED <<conn, open, broken, connectMu, runMu, closer, faults>>

\* The caller's context ends while it sleeps, dials, waits for a reply or for
\* an event: Run and listenLoop return at once, the connection stays.
Cancelled(p) ==
    /\ thread[p].pc \in {"connect", "dial", "run", "loop", "stream"}
    /\ Fault
    /\ Set(p, IF p \in Listeners THEN [Fresh EXCEPT !.pc = "exited"] ELSE Finish("cancelled"))
    /\ connectMu' = IF connectMu = p THEN None ELSE connectMu
    /\ runMu' = IF runMu = p THEN None ELSE runMu
    /\ UNCHANGED <<conn, open, broken, closer>>

\* The router or the network drops a connection.
Breaks(c) ==
    /\ Healthy(c)
    /\ Fault
    /\ broken' = broken \cup {c}
    /\ UNCHANGED <<conn, open, connectMu, runMu, thread, closer>>

\* Close: close(c.closed), then swapConn(nil), then close the connection.
Close ==
    /\ Closes /\ closer.pc = "idle"
    /\ closer' = [closer EXCEPT !.pc = "swap"]
    /\ UNCHANGED <<conn, open, broken, connectMu, runMu, thread, faults>>

CloseSwap ==
    /\ closer.pc = "swap"
    /\ conn' = None
    /\ closer' = [pc |-> "close", old |-> conn]
    /\ UNCHANGED <<open, broken, connectMu, runMu, thread, faults>>

\* ... and then wait for the listeners, but no longer than the timeout.
CloseReturns ==
    /\ closer.pc = "close"
    /\ open' = open \ {closer.old} /\ broken' = broken \ {closer.old}
    /\ closer' = [pc |-> "done", old |-> None]
    /\ UNCHANGED <<conn, connectMu, runMu, thread, faults>>

-----------------------------------------------------------------------------
Step(p) ==
    \/ Connect(p) \/ LockConnect(p) \/ Dial(p) \/ Install(p) \/ CurrentConn(p)
    \/ LockRun(p) \/ RunReplies(p) \/ RunFails(p) \/ Disconnect(p) \/ CloseOld(p)
    \/ ListenLoop(p) \/ Subscribe(p) \/ StreamEnds(p)

Next ==
    \/ \E p \in Proc : Step(p) \/ DialFails(p) \/ Cancelled(p) \/ StreamDone(p) \/ Run(p)
    \/ \E c \in open : Breaks(c)
    \/ Close \/ CloseSwap \/ CloseReturns

Spec == Init /\ [][Next]_vars

(***************************************************************************)
(* Goroutines are scheduled, commands and dials have deadlines, and Go's   *)
(* mutexes do not starve a waiter.                                         *)
(***************************************************************************)
Fairness ==
    /\ \A p \in Proc : WF_vars(Step(p)) /\ SF_vars(LockConnect(p)) /\ SF_vars(LockRun(p))
    /\ WF_vars(CloseSwap) /\ WF_vars(CloseReturns)
FairSpec == Spec /\ Fairness

-----------------------------------------------------------------------------
TypeOK ==
    /\ conn \in Opt(ConnId) /\ open \subseteq ConnId /\ broken \subseteq open
    /\ connectMu \in Opt(Proc) /\ runMu \in Opt(Proc)
    /\ thread \in [Proc -> Thread]
    /\ closer \in [pc : {"idle", "swap", "close", "done"}, old : Opt(ConnId)]
    /\ faults \in Nat

\* A connection that is open is the current one, or in the hands of exactly
\* the goroutine that will install it or close it: reconnecting callers never
\* overwrite or forget a live connection (client.go 341-397).
Owners(c) ==
    {p \in Proc : thread[p].pc = "install" /\ thread[p].held = c}
      \cup {p \in Proc : thread[p].pc = "closeOld" /\ thread[p].old = c}
NoConnectionLost ==
    /\ \A c \in open : c = conn \/ Owners(c) # {} \/ (closer.pc = "close" /\ closer.old = c)
    /\ conn # None => conn \in open

\* "Run executes one RouterOS command with retry/reconnect logic" (client.go
\* 141): a Run survives fewer faults than it has attempts.
FaultsMasked == \A p \in Callers : thread[p].result # "failed"

\* Every Run returns.
RunsReturn == \A p \in Callers : thread[p].pc # "idle" ~> thread[p].pc = "idle"
=============================================================================
