--------------------------- MODULE WsConnAbstract ---------------------------
(***************************************************************************)
(* What websocket/connection/wsConnClient.go promises its callers: one     *)
(* wrapper holds at most one connection, and each of its methods takes     *)
(* effect at one instant.  OpenConnection dials only when no connection is *)
(* held; Close closes the connection held and forgets it; reads, writes    *)
(* and IsOpen change nothing the wrapper holds.  The remote peer may break *)
(* an open connection at any time.                                         *)
(***************************************************************************)
EXTENDS Naturals

CONSTANTS
    MaxDials        \* bound on the number of successful dials

NoConn == 0
Conns == 1..MaxDials

VARIABLES
    conn,       \* the connection the wrapper holds, or NoConn
    netState,   \* the socket state of every connection dialled so far
    dialled     \* how many connections have been dialled

vars == <<conn, netState, dialled>>

\* A wrapper starts without a connection (NewWSConnClient) or holding the
\* one a server accepted (NewWSConnClientWithConn).
Init ==
    \/ /\ conn = NoConn
       /\ netState = [c \in Conns |-> "unused"]
       /\ dialled = 0
    \/ /\ conn = 1
       /\ netState = [c \in Conns |-> IF c = 1 THEN "open" ELSE "unused"]
       /\ dialled = 1

\* OpenConnection on a wrapper without a connection: a successful dial.
\* A failed dial, and OpenConnection on a wrapper that holds one, change
\* nothing.
Open ==
    /\ conn = NoConn
    /\ dialled < MaxDials
    /\ dialled' = dialled + 1
    /\ conn' = dialled + 1
    /\ netState' = [netState EXCEPT ![dialled + 1] = "open"]

\* Close on a wrapper holding a connection: the socket is closed and the
\* wrapper holds none.
Close ==
    /\ conn # NoConn
    /\ netState' = [netState EXCEPT ![conn] = "closed"]
    /\ conn' = NoConn
    /\ UNCHANGED dialled

PeerDrops(c) ==
    /\ netState[c] = "open"
    /\ netState' = [netState EXCEPT ![c] = "broken"]
    /\ UNCHANGED <<conn, dialled>>

Next == Open \/ Close \/ \E c \in Conns : PeerDrops(c)

Spec == Init /\ [][Next]_vars

=============================================================================
