------------------------- MODULE TransceiversHolder -------------------------
(***************************************************************************)
(* The websocket server's registry, websocket/server/                      *)
(* transceiversAndConnHolder.go: a map from a connection's ID to its       *)
(* transceiver and connection, behind an RWMutex.  Each method is one      *)
(* critical section and so one atomic step.                                *)
(*                                                                         *)
(* The server side wraps each accepted socket with NewWSConnClientWithConn, *)
(* whose ID is the wrapper's address ("%p").  Addresses are a small set;   *)
(* the runtime reuses an address only once nothing references the old     *)
(* wrapper (the registry, its listener, a broadcast snapshot).  A          *)
(* connection's listener removes its ID when Listen reports the socket     *)
(* closed; broadcasters (getAll takes only the read lock, so several run   *)
(* at once) send over their getAll copy, one connection at a time, while  *)
(* connections come and go.                                                *)
(***************************************************************************)
EXTENDS Naturals, FiniteSets

CONSTANTS
    Addrs,      \* heap addresses a wrapper may get
    Senders,    \* goroutines broadcasting a payload
    NoID        \* the ID "" of a wrapper built by NewWSConnClient

ASSUME NoID \notin Addrs

VARIABLES
    reg,        \* transceiverAndConn: ID -> the wrapper (its address) registered
    listening,  \* wrappers whose listener goroutine runs
    snapshot,   \* each broadcaster's getAll copy still to send to
    sending     \* the broadcasters in the middle of a broadcast

vars == <<reg, listening, snapshot, sending>>

\* A wrapper is reachable while the registry, its listener or the
\* broadcaster's copy refers to it.
Reachable == {reg[id] : id \in DOMAIN reg} \cup listening
             \cup UNION {{snapshot[s][id] : id \in DOMAIN snapshot[s]} : s \in Senders}

\* newTransceiversAndConnHolder: an empty map.
Init ==
    /\ reg = [id \in {} |-> NoID]
    /\ listening = {}
    /\ snapshot = [s \in Senders |-> [id \in {} |-> NoID]]
    /\ sending = {}

\* NewWSConnClientWithConn: clientID = fmt.Sprintf("%p", wsc); GetID
\* returns it.
GetID(c) == c

\* th.transceiverAndConn[conn.GetID()] = {transceiver, conn}: overwrites an
\* entry with the same ID.
addTransceiverAndConn(c) ==
    reg' = [id \in DOMAIN reg \cup {GetID(c)} |->
              IF id = GetID(c) THEN c ELSE reg[id]]

\* Mutant: the entry is overwritten with an empty tuple instead of deleted.
removeZeroEntry(id) ==
    reg' = [i \in DOMAIN reg |-> IF i = id THEN NoID ELSE reg[i]]

\* delete(th.transceiverAndConn, id): nothing happens for an absent ID.
remove(id) ==
    reg' = [i \in DOMAIN reg \ {id} |-> reg[i]]

\* getAll: a copy of the map taken under the read lock.
getAll == reg

-----------------------------------------------------------------------------
\* The server accepts a socket, wraps it at a free address, registers it and
\* starts its listener.
Accept ==
    /\ \E c \in Addrs \ Reachable :
          /\ addTransceiverAndConn(c)
          /\ listening' = listening \cup {c}
    /\ UNCHANGED <<snapshot, sending>>

\* Listen returns closed: the listener removes the connection's ID and exits.
ListenerExits(c) ==
    /\ c \in listening
    /\ remove(GetID(c))
    /\ listening' = listening \ {c}
    /\ UNCHANGED <<snapshot, sending>>

BroadcastStart(s) ==
    /\ s \notin sending
    /\ snapshot' = [snapshot EXCEPT ![s] = getAll]
    /\ sending' = sending \cup {s}
    /\ UNCHANGED <<reg, listening>>

\* Send to one connection of the copy (an error on a closed socket is only
\* reported).
BroadcastSend(s, id) ==
    /\ s \in sending
    /\ id \in DOMAIN snapshot[s]
    /\ snapshot' = [snapshot EXCEPT ![s] =
                          [i \in DOMAIN snapshot[s] \ {id} |-> snapshot[s][i]]]
    /\ UNCHANGED <<reg, listening, sending>>

BroadcastDone(s) ==
    /\ s \in sending /\ DOMAIN snapshot[s] = {}
    /\ sending' = sending \ {s}
    /\ UNCHANGED <<reg, listening, snapshot>>

Next ==
    \/ Accept
    \/ \E c \in Addrs : ListenerExits(c)
    \/ \E s \in Senders :
          \/ BroadcastStart(s) \/ BroadcastDone(s)
          \/ \E id \in Addrs \cup {NoID} : BroadcastSend(s, id)

Spec == Init /\ [][Next]_vars

-----------------------------------------------------------------------------
(* Properties                                                              *)

TypeOK ==
    /\ DOMAIN reg \subseteq Addrs \cup {NoID}
    /\ \A id \in DOMAIN reg : reg[id] \in Addrs
    /\ listening \subseteq Addrs
    /\ \A s \in Senders : DOMAIN snapshot[s] \subseteq Addrs \cup {NoID}
    /\ sending \subseteq Senders

=============================================================================
