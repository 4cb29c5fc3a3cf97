-------------------------- MODULE KadDhtDiscoverer --------------------------
(***************************************************************************)
(* The optimized KadDhtDiscoverer (spec 4.3, 5) around its constructor,   *)
(* NewOptimizedKadDhtDiscovererWithInitFunc of                             *)
(* p2p/libp2p/discovery/export_test.go.  The constructor checks its        *)
(* arguments, makes the unbuffered chanInit and errChanInit, wraps the     *)
(* host, and starts processLoop.  The rest of the discoverer is not in the *)
(* repository and follows the spec: Bootstrap hands a request to           *)
(* processLoop over chanInit and waits for the answer on errChanInit;      *)
(* processLoop runs the initialization (under mutKadDht) one request at a  *)
(* time, and the successful one starts the discovery task: the           *)
(* initial-connection retry loop and the seeder and refresh loops.         *)
(* Cancelling the context passed to the constructor stops the discoverer;  *)
(* every channel operation and suspension selects on the context too.      *)
(***************************************************************************)
EXTENDS Naturals

CONSTANTS
    Callers,            \* goroutines calling Bootstrap
    Args,               \* constructor arguments the node may pass
    MinInterval,        \* minIntervalForSeedersReconnection
    NoCaller

ASSUME NoCaller \notin Callers

-----------------------------------------------------------------------------
\* prepareArguments (spec 4.3): a nil logger or an invalid sharder fails.
prepareArguments(arg) ==
    IF ~arg.loggerOK THEN [err |-> "ErrNilLogger"]
    ELSE IF ~arg.sharderOK THEN [err |-> "ErrInvalidSharder"]
    ELSE [sharder |-> TRUE]

NewOptimizedKadDhtDiscoverer(arg) ==
    LET s == prepareArguments(arg) IN
    IF "err" \in DOMAIN s THEN s
    ELSE IF arg.SeedersReconnectionInterval < MinInterval
         THEN [err |-> "ErrInvalidSeedersReconnectionInterval"]
    ELSE IF ~arg.hostOK
         THEN [err |-> "NewHostWithConnectionManagement"]
    ELSE [status |-> "NotInitialized"]

VARIABLES
    built,      \* the constructor returned a discoverer (and started processLoop)
    status,     \* okdd.status: NotInitialized, Initialized or Stopped
    failed,     \* the last initialization failed (createKadDhtHandler)
    cancelled,  \* the discoverer's context is done
    loopPc,     \* processLoop: "none", "select", "init", "reply", "exited"
    initReq,    \* the caller whose request processLoop is serving
    reply,      \* the error processLoop will send on errChanInit
    callerPc,   \* each Bootstrap caller: "idle", "send", "wait", "done"
    tasks,      \* discovery tasks started
    initConn,   \* the initial-connection loop: "none", "trying",
                \* "sleeping", "connected" or "aborted"
    signals,    \* completion signals it has sent
    periodic    \* the periodic loops still running ("seeders", "refresh")

vars == <<built, status, failed, cancelled, loopPc, initReq, reply, callerPc,
          tasks, initConn, signals, periodic>>

bgVars == <<initConn, signals, periodic>>

\* metrics/factory NewConnectionsWatcher: the watcher the node passes in
\* ArgKadDht.ConnectionWatcher, selected by its configured type; printOK
\* says whether metrics.NewPrintConnectionsWatcher (its time to live and
\* logger checks) returned a watcher or an error.
NewConnectionsWatcher(connectionsWatcherType, printOK) ==
    CASE connectionsWatcherType = "print" /\ printOK -> [watcher |-> "print"]
      [] connectionsWatcherType = "print" -> [err |-> "NewPrintConnectionsWatcher"]
      [] connectionsWatcherType \in {"disabled", ""} -> [watcher |-> "disabled"]
      [] OTHER -> [err |-> "ErrUnknownConnectionWatcherType"]

\* The node builds the connections watcher, then the discoverer over it; an
\* error of either leaves no discoverer and no processLoop.
Init ==
    /\ \E arg \in Args, printOK \in BOOLEAN :
          LET w == NewConnectionsWatcher(arg.watcherType, printOK)
              d == NewOptimizedKadDhtDiscoverer(arg)
          IN  /\ built = ~("err" \in DOMAIN w \/ "err" \in DOMAIN d)
              /\ loopPc = IF built THEN "select" ELSE "none"   \* go okdd.processLoop
    /\ status = "NotInitialized"
    /\ failed = FALSE /\ cancelled = FALSE
    /\ initReq = NoCaller /\ reply = "none"
    /\ callerPc = [c \in Callers |-> "idle"]
    /\ tasks = 0
    /\ initConn = "none" /\ signals = 0 /\ periodic = {}

Bootstrap(c) ==
    /\ built /\ callerPc[c] = "idle"
    /\ callerPc' = [callerPc EXCEPT ![c] = "send"]
    /\ UNCHANGED <<built, status, failed, cancelled, loopPc, initReq, reply, tasks, bgVars>>

\* okdd.chanInit <- struct{}{}: a rendezvous with processLoop's select.
HandOff(c) ==
    /\ callerPc[c] = "send" /\ loopPc = "select"
    /\ callerPc' = [callerPc EXCEPT ![c] = "wait"]
    /\ loopPc' = "init" /\ initReq' = c
    /\ UNCHANGED <<built, status, failed, cancelled, reply, tasks, bgVars>>

\* Mutant: only the wait for the answer selects on the context.
ShortCircuitWaitOnly(c) ==
    /\ callerPc[c] = "wait" /\ cancelled
    /\ callerPc' = [callerPc EXCEPT ![c] = "done"]
    /\ UNCHANGED <<built, status, failed, cancelled, loopPc, initReq, reply, tasks, bgVars>>

\* Bootstrap's send or wait returns the context's error once it is done.
ShortCircuit(c) ==
    /\ callerPc[c] \in {"send", "wait"} /\ cancelled
    /\ callerPc' = [callerPc EXCEPT ![c] = "done"]
    /\ UNCHANGED <<built, status, failed, cancelled, loopPc, initReq, reply, tasks, bgVars>>

\* The discovery task a successful initialization starts: the
\* initial-connection loop and the seeder and refresh loops (spec 4.3).
StartTask(ok) ==
    IF ok THEN /\ initConn' = "trying" /\ periodic' = {"seeders", "refresh"}
               /\ UNCHANGED signals
          ELSE UNCHANGED bgVars

\* Mutant: only an initialized discoverer refuses a second init.
LoopInitIgnoresStop ==
    /\ loopPc = "init"
    /\ IF status = "Initialized"
       THEN /\ reply' = "ErrPeerDiscoveryProcessAlreadyStarted"
            /\ UNCHANGED <<status, failed, tasks, bgVars>>
       ELSE \E ok \in BOOLEAN :
              /\ status' = IF ok THEN "Initialized" ELSE status
              /\ failed' = ~ok
              /\ tasks' = IF ok THEN tasks + 1 ELSE tasks
              /\ reply' = IF ok THEN "nil" ELSE "create error"
              /\ StartTask(ok)
    /\ loopPc' = "reply"
    /\ UNCHANGED <<built, cancelled, initReq, callerPc>>

\* init under mutKadDht: ErrPeerDiscoveryProcessAlreadyStarted unless
\* NotInitialized; createKadDhtHandler may fail; on success the status
\* becomes Initialized and go findPeers starts the discovery task.
LoopInit ==
    /\ loopPc = "init"
    /\ IF status # "NotInitialized"
       THEN /\ reply' = "ErrPeerDiscoveryProcessAlreadyStarted"
            /\ UNCHANGED <<status, failed, tasks, bgVars>>
       ELSE \E ok \in BOOLEAN :
              /\ status' = IF ok THEN "Initialized" ELSE status
              /\ failed' = ~ok
              /\ tasks' = IF ok THEN tasks + 1 ELSE tasks
              /\ reply' = IF ok THEN "nil" ELSE "create error"
              /\ StartTask(ok)
    /\ loopPc' = "reply"
    /\ UNCHANGED <<built, cancelled, initReq, callerPc>>

\* okdd.errChanInit <- err: a rendezvous with the waiting caller, or the
\* context is done and processLoop goes back to its select.
LoopReply ==
    /\ loopPc = "reply"
    /\ \/ /\ callerPc[initReq] = "wait"
          /\ callerPc' = [callerPc EXCEPT ![initReq] = "done"]
       \/ /\ cancelled
          /\ UNCHANGED callerPc
    /\ loopPc' = "select" /\ initReq' = NoCaller /\ reply' = "none"
    /\ UNCHANGED <<built, status, failed, cancelled, tasks, bgVars>>

\* case <-ctx.Done(): processLoop returns.
LoopExit ==
    /\ loopPc = "select" /\ cancelled
    /\ loopPc' = "exited"
    /\ UNCHANGED <<built, status, failed, cancelled, initReq, reply, callerPc, tasks, bgVars>>

\* The owner cancels arg.Context: the discoverer is stopped (spec 4.3, 5).
Cancel ==
    /\ built /\ ~cancelled
    /\ status' = "Stopped" /\ cancelled' = TRUE
    /\ UNCHANGED <<built, failed, loopPc, initReq, reply, callerPc, tasks, bgVars>>

-----------------------------------------------------------------------------
(* The background task (spec 4.3, 5).  The initial-connection loop tries   *)
(* to connect to one peer of the initial list, signals completion when one *)
(* connection succeeds and stops, and otherwise suspends for the retry     *)
(* interval; the suspension selects on the context.  The seeder and        *)
(* refresh loops act on the host and the DHT every interval; only their    *)
(* end on cancellation is modelled.                                        *)

loopVars == <<built, status, failed, cancelled, loopPc, initReq, reply, callerPc, tasks>>

\* One attempt over the initial peers list; a dial already under way
\* completes whether or not the context is cancelled meanwhile.
InitialConnAttempt ==
    /\ initConn = "trying"
    /\ \E ok \in BOOLEAN :
          /\ initConn' = IF ok THEN "connected" ELSE "sleeping"
          /\ signals' = IF ok THEN signals + 1 ELSE signals
    /\ UNCHANGED <<periodic, loopVars>>

\* Mutant: the suspension is a plain sleep that ignores the context.
InitialConnSelectTimerOnly ==
    /\ initConn = "sleeping"
    /\ initConn' = "trying"
    /\ UNCHANGED <<signals, periodic, loopVars>>

\* select { case <-time.After(retry): try again; case <-ctx.Done(): return }
InitialConnSelect ==
    /\ initConn = "sleeping"
    /\ \/ initConn' = "trying"
       \/ cancelled /\ initConn' = "aborted"
    /\ UNCHANGED <<signals, periodic, loopVars>>

\* A periodic loop's select sees ctx.Done() and returns.
PeriodicLoopExits(l) ==
    /\ l \in periodic /\ cancelled
    /\ periodic' = periodic \ {l}
    /\ UNCHANGED <<initConn, signals, loopVars>>

Next ==
    \/ \E c \in Callers : Bootstrap(c) \/ HandOff(c) \/ ShortCircuit(c)
    \/ LoopInit \/ LoopReply \/ LoopExit \/ Cancel
    \/ InitialConnAttempt \/ InitialConnSelect
    \/ \E l \in {"seeders", "refresh"} : PeriodicLoopExits(l)

\* Every runnable goroutine is scheduled: processLoop and the callers.  A
\* caller blocked sending on chanInit waits in the channel's FIFO queue, so
\* it is served by one of the loop's returns to its select (strong
\* fairness), however many other callers compete.
\* The background loops run; a select whose context case stays ready is
\* eventually resolved by it, since Go picks uniformly among ready cases.
Fairness ==
    /\ WF_vars(LoopInit) /\ WF_vars(LoopReply) /\ WF_vars(LoopExit)
    /\ \A c \in Callers : SF_vars(HandOff(c)) /\ WF_vars(ShortCircuit(c))
    /\ WF_vars(InitialConnAttempt) /\ WF_vars(InitialConnSelect)
    /\ SF_vars(InitialConnSelect /\ initConn' = "aborted")
    /\ \A l \in {"seeders", "refresh"} : WF_vars(PeriodicLoopExits(l))

Spec == Init /\ [][Next]_vars /\ Fairness

-----------------------------------------------------------------------------
(* Properties                                                              *)

TypeOK ==
    /\ built \in BOOLEAN /\ failed \in BOOLEAN /\ cancelled \in BOOLEAN
    /\ status \in {"NotInitialized", "Initialized", "Stopped"}
    /\ loopPc \in {"none", "select", "init", "reply", "exited"}
    /\ initReq \in Callers \cup {NoCaller}
    /\ (loopPc \in {"init", "reply"}) <=> initReq # NoCaller
    /\ callerPc \in [Callers -> {"idle", "send", "wait", "done"}]
    /\ tasks \in Nat
    /\ initConn \in {"none", "trying", "sleeping", "connected", "aborted"}
    /\ signals \in Nat
    /\ periodic \subseteq {"seeders", "refresh"}

\* Every Bootstrap call returns: blocked on the unbuffered chanInit behind
\* other callers, or on errChanInit while its request runs, it is answered
\* or released by the context, even when processLoop has already exited.
BootstrapReturns ==
    \A c \in Callers : callerPc[c] \in {"send", "wait"} ~> callerPc[c] = "done"

\* Cancelling the context stops every background loop: the initial-
\* connection loop suspended between failed attempts wakes and returns,
\* and the seeder and refresh loops return.
BackgroundLoopsStop ==
    cancelled ~> (initConn \in {"none", "connected", "aborted"} /\ periodic = {})

\* The discoverer's state as spec 4.3 names it.
AbsStatus ==
    CASE status = "NotInitialized" /\ loopPc = "init" -> "Initializing"
      [] status = "NotInitialized" /\ failed          -> "Error"
      [] OTHER                                       -> status

\* The discoverer implements the abstract state machine of KadDhtAbstract:
\* no step leaves Stopped or Initialized for another initialization, and
\* the task starts only as an initialization succeeds.
Abstract == INSTANCE KadDhtAbstract WITH status <- AbsStatus, task <- tasks > 0

ImplementsAbstract == Abstract!Spec

=============================================================================
