---------------------------- MODULE WsConnClient ----------------------------
(***************************************************************************)
(* The websocket connection wrapper of websocket/connection/wsConnClient.go *)
(* shared by several goroutines.  One wsConnClient holds at most one       *)
(* gorilla connection (wsc.conn) behind an RWMutex (wsc.mut).  The          *)
(* goroutines call OpenConnection, ReadMessage, WriteMessage, Close and     *)
(* IsOpen concurrently; the remote peer may drop a connection at any time.  *)
(*                                                                         *)
(* Each gorilla connection the wrapper holds (accepted by the server or    *)
(* dialled by OpenConnection) is a number 1..MaxDials and                  *)
(* carries the state of its socket: "open", "stalled" (the peer stopped   *)
(* reading, writes block), "broken" (the peer went away, reads and writes *)
(* fail) or "closed" (Close was called on it locally).                     *)
(* An RLock section of the code (getConn, IsOpen) is one atomic step that  *)
(* needs the write lock free; a Lock section is split into the steps whose *)
(* interleaving with the other goroutines matters.                         *)
(***************************************************************************)
EXTENDS Naturals, FiniteSets

CONSTANTS
    Procs,          \* goroutines sharing one wsConnClient
    MaxDials,       \* bound on the number of successful dials
    CloseCanFail,   \* whether conn.Close() may return an error (TLS close_notify)
    PeerCanStall,   \* whether a peer may stop reading, so that writes block
    NoProc          \* a model value: no goroutine holds wsc.mut

ASSUME /\ Procs # {}
       /\ MaxDials \in Nat \ {0}
       /\ CloseCanFail \in BOOLEAN
       /\ PeerCanStall \in BOOLEAN
       /\ NoProc \notin Procs

NoConn == 0             \* wsc.conn == nil
Conns == 1..MaxDials

VARIABLES
    conn,       \* wsc.conn: the connection the wrapper currently holds
    netState,   \* the socket state of every connection dialled so far
    dialled,    \* how many connections have been dialled
    mutHolder,  \* the goroutine holding wsc.mut for writing, or NoProc
    pc,         \* where each goroutine is
    target      \* the connection a goroutine's in-flight call works on

vars == <<conn, netState, dialled, mutHolder, pc, target>>

Labels == {"idle", "open", "read", "write", "write_io",
           "close", "close_frame", "close_conn"}

TypeOK ==
    /\ conn \in Conns \cup {NoConn}
    /\ netState \in [Conns -> {"unused", "open", "stalled", "broken", "closed"}]
    /\ dialled \in 0..MaxDials
    /\ mutHolder \in Procs \cup {NoProc}
    /\ pc \in [Procs -> Labels]
    /\ target \in [Procs -> Conns \cup {NoConn}]

\* NewWSConnClient: a client-side wrapper without a connection.
NewWSConnClient ==
    /\ conn = NoConn
    /\ netState = [c \in Conns |-> "unused"]
    /\ dialled = 0

\* NewWSConnClientWithConn: a server-side wrapper over the connection the
\* server accepted (numbered 1 here).
NewWSConnClientWithConn ==
    /\ conn = 1
    /\ netState = [c \in Conns |-> IF c = 1 THEN "open" ELSE "unused"]
    /\ dialled = 1

Init ==
    /\ NewWSConnClient \/ NewWSConnClientWithConn
    /\ mutHolder = NoProc
    /\ pc = [p \in Procs |-> "idle"]
    /\ target = [p \in Procs |-> NoConn]

\* wsc.mut.Lock() at the start of a Lock section; the call begins at label l.
LockAndGo(p, l) ==
    /\ pc[p] = "idle"
    /\ mutHolder = NoProc
    /\ mutHolder' = p
    /\ pc' = [pc EXCEPT ![p] = l]

\* The deferred wsc.mut.Unlock() on return.
UnlockAndReturn(p) ==
    /\ mutHolder' = NoProc
    /\ pc' = [pc EXCEPT ![p] = "idle"]
    /\ target' = [target EXCEPT ![p] = NoConn]

-----------------------------------------------------------------------------
(* OpenConnection: under the lock, refuse when a connection is held,       *)
(* otherwise dial and store the result; a failed dial stores nil.          *)

OpenConnection(p) ==
    /\ LockAndGo(p, "open")
    /\ UNCHANGED <<conn, netState, dialled, target>>

\* Mutant: dials even when a connection is already held.
OpenDialNoGuard(p) ==
    /\ pc[p] = "open"
    /\ dialled < MaxDials
    /\ dialled' = dialled + 1
    /\ conn' = dialled + 1
    /\ netState' = [netState EXCEPT ![dialled + 1] = "open"]
    /\ UnlockAndReturn(p)

\* Mutant: the new connection is stored under the previous dial's number.
OpenDialOffByOne(p) ==
    /\ pc[p] = "open"
    /\ \/ /\ conn # NoConn
          /\ UNCHANGED <<conn, netState, dialled>>
       \/ /\ conn = NoConn
          /\ dialled < MaxDials
          /\ dialled' = dialled + 1
          /\ conn' = dialled
          /\ netState' = [netState EXCEPT ![dialled + 1] = "open"]
       \/ /\ conn = NoConn
          /\ UNCHANGED <<conn, netState, dialled>>
    /\ UnlockAndReturn(p)

OpenDial(p) ==
    /\ pc[p] = "open"
    /\ \/ /\ conn # NoConn                 \* ErrConnectionAlreadyOpen
          /\ UNCHANGED <<conn, netState, dialled>>
       \/ /\ conn = NoConn                 \* Dial succeeded
          /\ dialled < MaxDials
          /\ dialled' = dialled + 1
          /\ conn' = dialled + 1
          /\ netState' = [netState EXCEPT ![dialled + 1] = "open"]
       \/ /\ conn = NoConn                 \* Dial failed: conn stays nil
          /\ UNCHANGED <<conn, netState, dialled>>
    /\ UnlockAndReturn(p)

-----------------------------------------------------------------------------
(* ReadMessage: getConn copies wsc.conn under the read lock and releases   *)
(* it; conn.ReadMessage() then runs on the copy with no lock held.         *)

\* Mutant: getConn hands out wsc.conn without its nil check.
ReadMessageNoNilCheck(p) ==
    /\ pc[p] = "idle"
    /\ mutHolder = NoProc
    /\ pc' = [pc EXCEPT ![p] = "read"]
    /\ target' = [target EXCEPT ![p] = conn]
    /\ UNCHANGED <<conn, netState, dialled, mutHolder>>

ReadMessage(p) ==
    /\ pc[p] = "idle"
    /\ mutHolder = NoProc                  \* RLock in getConn
    /\ pc' = [pc EXCEPT ![p] = IF conn = NoConn THEN "idle" ELSE "read"]
    /\ target' = [target EXCEPT ![p] = conn]
    /\ UNCHANGED <<conn, netState, dialled, mutHolder>>

\* conn.ReadMessage() on the copied connection returns (data or an error);
\* reading leaves the socket as it is.
ReadReturn(p) ==
    /\ pc[p] = "read"
    /\ pc' = [pc EXCEPT ![p] = "idle"]
    /\ target' = [target EXCEPT ![p] = NoConn]
    /\ UNCHANGED <<conn, netState, dialled, mutHolder>>

-----------------------------------------------------------------------------
(* WriteMessage: under the lock, ErrConnectionNotOpen on nil, otherwise    *)
(* conn.WriteMessage() with the lock still held.                           *)

\* Mutant: WriteMessage without wsc.mut.Lock().
WriteMessageNoLock(p) ==
    /\ pc[p] = "idle"
    /\ pc' = [pc EXCEPT ![p] = "write"]
    /\ UNCHANGED <<conn, netState, dialled, mutHolder, target>>

WriteMessage(p) ==
    /\ LockAndGo(p, "write")
    /\ UNCHANGED <<conn, netState, dialled, target>>

WriteCheck(p) ==
    /\ pc[p] = "write"
    /\ \/ /\ conn = NoConn                 \* ErrConnectionNotOpen
          /\ UnlockAndReturn(p)
       \/ /\ conn # NoConn
          /\ pc' = [pc EXCEPT ![p] = "write_io"]
          /\ target' = [target EXCEPT ![p] = conn]
          /\ UNCHANGED mutHolder
    /\ UNCHANGED <<conn, netState, dialled>>

\* A write blocks while the peer does not read: gorilla sets no write
\* deadline unless SetWriteDeadline was called, which the wrapper never does.
WriteBlocks(c) == netState[c] = "stalled"

\* conn.WriteMessage() returns; it fails on a broken or closed socket,
\* which the wrapper only reports.
WriteReturn(p) ==
    /\ pc[p] = "write_io"
    /\ ~WriteBlocks(target[p])
    /\ UnlockAndReturn(p)
    /\ UNCHANGED <<conn, netState, dialled>>

-----------------------------------------------------------------------------
(* Close: under the lock, ErrConnectionNotOpen on nil; otherwise write a   *)
(* close frame (its error is only logged), call CloseHandler() (which only *)
(* returns the handler), conn.Close(), and reset wsc.conn to nil only when *)
(* conn.Close() returned no error.                                         *)

\* Mutant: Close without wsc.mut.Lock().
CloseNoLock(p) ==
    /\ pc[p] = "idle"
    /\ pc' = [pc EXCEPT ![p] = "close"]
    /\ UNCHANGED <<conn, netState, dialled, mutHolder, target>>

Close(p) ==
    /\ LockAndGo(p, "close")
    /\ UNCHANGED <<conn, netState, dialled, target>>

CloseCheck(p) ==
    /\ pc[p] = "close"
    /\ \/ /\ conn = NoConn                 \* ErrConnectionNotOpen
          /\ UnlockAndReturn(p)
       \/ /\ conn # NoConn
          /\ pc' = [pc EXCEPT ![p] = "close_frame"]
          /\ target' = [target EXCEPT ![p] = conn]
          /\ UNCHANGED mutHolder
    /\ UNCHANGED <<conn, netState, dialled>>

\* The close frame is written; a write error is logged and ignored.
CloseFrame(p) ==
    /\ pc[p] = "close_frame"
    /\ ~WriteBlocks(target[p])
    /\ pc' = [pc EXCEPT ![p] = "close_conn"]
    /\ UNCHANGED <<conn, netState, dialled, mutHolder, target>>

\* conn.Close() always releases the socket.  It errors on a socket that is
\* already closed, and may error on a first close when CloseCanFail.
CloseConnFails(c) ==
    netState[c] = "closed" \/ CloseCanFail

CloseConn(p) ==
    /\ pc[p] = "close_conn"
    /\ netState' = [netState EXCEPT ![target[p]] = "closed"]
    /\ \/ /\ netState[target[p]] # "closed"  \* success: wsc.conn = nil
          /\ conn' = NoConn
       \/ /\ CloseConnFails(target[p])        \* error returned, conn kept
          /\ UNCHANGED conn
    /\ UnlockAndReturn(p)
    /\ UNCHANGED dialled

\* IsOpen: wsc.conn != nil, read under the read lock.
IsOpen == conn # NoConn

-----------------------------------------------------------------------------
(* The remote peer drops an open connection.                               *)

PeerDrops(c) ==
    /\ netState[c] \in {"open", "stalled"}
    /\ netState' = [netState EXCEPT ![c] = "broken"]
    /\ UNCHANGED <<conn, dialled, mutHolder, pc, target>>

\* The peer stops reading an open connection: its receive window fills.
PeerStalls(c) ==
    /\ PeerCanStall /\ netState[c] = "open"
    /\ netState' = [netState EXCEPT ![c] = "stalled"]
    /\ UNCHANGED <<conn, dialled, mutHolder, pc, target>>

Next ==
    \/ \E p \in Procs :
          \/ OpenConnection(p) \/ OpenDial(p)
          \/ ReadMessage(p) \/ ReadReturn(p)
          \/ WriteMessage(p) \/ WriteCheck(p) \/ WriteReturn(p)
          \/ Close(p) \/ CloseCheck(p) \/ CloseFrame(p) \/ CloseConn(p)
    \/ \E c \in Conns : PeerDrops(c) \/ PeerStalls(c)

Spec == Init /\ [][Next]_vars

\* Every goroutine that holds wsc.mut, or has a read in flight, runs its next
\* step when it can.  Nothing is assumed of the peer.
FairSpec ==
    /\ Spec
    /\ \A p \in Procs :
          /\ WF_vars(OpenDial(p)) /\ WF_vars(ReadReturn(p))
          /\ WF_vars(WriteCheck(p)) /\ WF_vars(WriteReturn(p))
          /\ WF_vars(CloseCheck(p)) /\ WF_vars(CloseFrame(p))
          /\ WF_vars(CloseConn(p))

-----------------------------------------------------------------------------
(* Properties                                                              *)

\* gorilla allows one concurrent writer per connection.  WriteMessage and
\* Close both write (a data frame, the close frame) while holding wsc.mut,
\* so no two goroutines are ever writing on the connection at once.
Writing(p) == pc[p] \in {"write_io", "close_frame"}

WritersSerialized ==
    \A p, q \in Procs : Writing(p) /\ Writing(q) => p = q

\* No goroutine calls into a nil *websocket.Conn: however a Close that
\* clears wsc.conn interleaves with readers, writers and closers, every
\* conn.ReadMessage, conn.WriteMessage, close frame and conn.Close() runs
\* on a connection, because getConn, WriteMessage and Close each check
\* wsc.conn for nil under wsc.mut before using it.
InIO(p) == pc[p] \in {"read", "write_io", "close_frame", "close_conn"}

NoNilConnUse ==
    \A p \in Procs : InIO(p) => target[p] # NoConn

\* Between WriteMessage's or Close's nil check and the I/O that follows it,
\* no other goroutine replaces or clears wsc.conn: the connection a write
\* or a close works on is still the one the wrapper holds.
InFlightOnCurrentConn ==
    \A p \in Procs :
        pc[p] \in {"write_io", "close_frame", "close_conn"} => target[p] = conn

\* The wrapper never loses its reference to a socket it has not closed:
\* every dialled connection that is still open or broken is wsc.conn, so
\* OpenConnection never leaks a live connection and Close never forgets one.
NoLeakedConnection ==
    \A c \in Conns : netState[c] \in {"open", "stalled", "broken"} => c = conn

\* "IsOpen will return true if the connection is open, false otherwise"
\* (wsConnClient.go:75): IsOpen never reports a socket Close has closed.
IsOpenOnlyWhenOpen ==
    IsOpen => netState[conn] # "closed"

\* "Cleanly close the connection by sending a close message and then
\* waiting (with timeout) for the server to close the connection"
\* (wsConnClient.go:113): a Close that holds wsc.mut returns.
CloseReturns ==
    \A p \in Procs :
        pc[p] \in {"close", "close_frame", "close_conn"} ~> pc[p] = "idle"

\* The wrapper implements WsConnAbstract: however the goroutines' lock
\* sections, unlocked reads and the peer's drops and stalls interleave,
\* wsc.conn and the sockets change only as if each OpenConnection and Close
\* took effect at one instant, a Close closing exactly the connection held.
\* A stalled socket is open to the wrapper.  A socket kept after a failed
\* conn.Close() is, to the caller, no connection: the wrapper only refuses
\* to open another (see IsOpenOnlyWhenOpen), which is a stuttering step.
AbsNetState == [c \in Conns |-> IF netState[c] = "stalled" THEN "open" ELSE netState[c]]

AbsConn == IF conn # NoConn /\ netState[conn] = "closed" THEN NoConn ELSE conn

Abstract == INSTANCE WsConnAbstract WITH conn <- AbsConn, netState <- AbsNetState

ImplementsAbstract == Abstract!Spec

=============================================================================
