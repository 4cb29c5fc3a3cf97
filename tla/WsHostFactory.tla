---------------------------- MODULE WsHostFactory ----------------------------
(***************************************************************************)
(* websocket/factory/factoryHost.go and websocket/payloadConverter.go, as   *)
(* the two example programs of websocket/examples/sendreceive use them.    *)
(*                                                                         *)
(* CreateWebSocketHost builds a payload converter over the configured      *)
(* marshaller and a server or a client host from the configuration.  The   *)
(* server example sends a numbered message every tick, counting only the   *)
(* sends that succeed, until interrupted, then closes its host.  The       *)
(* client example installs a payload handler, waits for the interrupt,     *)
(* closes its host, and closes it again in a deferred call.  The hosts'    *)
(* sources are not in the repository: a host is the record of the          *)
(* arguments the factory gives it; its constructor may return an error,   *)
(* and its Send may fail (no client connected) or return an error after   *)
(* delivering (no acknowledgement in time).                               *)
(***************************************************************************)
EXTENDS Naturals, Sequences

CONSTANTS
    Configs,        \* WebSocketConfig values and marshallers the mains may use
    Nil,            \* a nil marshaller
    MaxTicks,       \* bound on the server example's loop iterations
    MaxSignals      \* bound on the signals sent to the process

ASSUME MaxTicks \in Nat /\ MaxSignals \in Nat

-----------------------------------------------------------------------------
(* payloadConverter.go                                                     *)

\* Mutant: the check.IfNil guard is missing.
NewWebSocketPayloadConverterNoNilCheck(marshaller) == [marshaller |-> marshaller]

\* NewWebSocketPayloadConverter: ErrNilMarshaller for a nil marshaller.
NewWebSocketPayloadConverter(marshaller) ==
    IF marshaller = Nil THEN [err |-> "ErrNilMarshaller"]
    ELSE [marshaller |-> marshaller]

\* ConstructPayload marshals the message; ExtractWsMessage unmarshals it and
\* fails on bytes that are not an encoded WsMessage.
ConstructPayload(conv, wsMessage) == <<conv.marshaller, wsMessage>>

ExtractWsMessage(conv, payload) ==
    IF payload[1] = conv.marshaller THEN payload[2] ELSE [err |-> "unmarshal"]

-----------------------------------------------------------------------------
(* factoryHost.go: the arguments each host constructor receives.           *)

HostArgs(kind, cfg, conv) ==
    [kind |-> kind,
     RetryDurationInSeconds |-> cfg.RetryDurationInSec,
     WithAcknowledge |-> cfg.WithAcknowledge,
     URL |-> cfg.URL,
     PayloadConverter |-> conv,
     BlockingAckOnError |-> cfg.BlockingAckOnError,
     DropMessagesIfNoConnection |-> cfg.DropMessagesIfNoConnection,
     AckTimeoutInSeconds |-> cfg.AcknowledgeTimeoutInSec,
     PayloadVersion |-> cfg.Version]

\* The host constructor's result: hostOK says whether NewWebSocketServer or
\* NewWebSocketClient (not in the repository) returned a host or an error.
NewHost(kind, args, hostOK) ==
    IF hostOK THEN args ELSE [err |-> kind]

\* Mutant: the retry duration and the acknowledgement timeout are swapped.
createWebSocketClientSwapped(a, hostOK) ==
    LET conv == NewWebSocketPayloadConverter(a.Marshaller) IN
    IF "err" \in DOMAIN conv THEN conv
    ELSE NewHost("NewWebSocketClient", [HostArgs("client", a.WebSocketConfig, conv) EXCEPT
            !.RetryDurationInSeconds = a.WebSocketConfig.AcknowledgeTimeoutInSec,
            !.AckTimeoutInSeconds = a.WebSocketConfig.RetryDurationInSec],
                 hostOK)

createWebSocketClient(a, hostOK) ==
    LET conv == NewWebSocketPayloadConverter(a.Marshaller) IN
    IF "err" \in DOMAIN conv THEN conv
    ELSE NewHost("NewWebSocketClient",
                 HostArgs("client", a.WebSocketConfig, conv), hostOK)

createWebSocketServer(a, hostOK) ==
    LET conv == NewWebSocketPayloadConverter(a.Marshaller) IN
    IF "err" \in DOMAIN conv THEN conv
    ELSE NewHost("NewWebSocketServer",
                 HostArgs("server", a.WebSocketConfig, conv), hostOK)

CreateWebSocketHost(a, hostOK) ==
    CASE a.WebSocketConfig.Mode = "server" -> createWebSocketServer(a, hostOK)
      [] a.WebSocketConfig.Mode = "client" -> createWebSocketClient(a, hostOK)
      [] OTHER -> [err |-> "ErrInvalidWebSocketHostMode"]

IsErr(h) == "err" \in DOMAIN h

-----------------------------------------------------------------------------
VARIABLES
    hostArgs,   \* the ArgsWebSocketHost the main builds
    host,       \* what CreateWebSocketHost returned
    pc,         \* the main's position
    count,      \* the server example's count
    ticks,      \* loop iterations so far
    delivered,  \* history: the payloads of the sends that reached the
                \* clients, as a receiver's converter extracts them
    closes,     \* calls of host.Close()
    notified,   \* signal.Notify(interrupt, SIGINT, SIGTERM) has run
    pending,    \* signals in the interrupt channel's buffer
    sigs        \* SIGINT or SIGTERM sent to the process so far

vars == <<hostArgs, host, pc, count, ticks, delivered, closes,
          notified, pending, sigs>>

mainVars == <<hostArgs, host, count, ticks, delivered, closes>>

\* The example mains, and the configurations a main may build: a server or
\* client mode or another one, a marshaller or nil.
Init ==
    /\ hostArgs \in Configs
    /\ host = [err |-> "none"]
    /\ pc = "create"
    /\ count = 0 /\ ticks = 0 /\ delivered = <<>> /\ closes = 0
    /\ notified = FALSE /\ pending = 0 /\ sigs = 0

\* main: CreateWebSocketHost; on error log it and return.
Create ==
    /\ pc = "create"
    /\ \E hostOK \in BOOLEAN : host' = CreateWebSocketHost(hostArgs, hostOK)
    /\ pc' = IF IsErr(host') THEN "done"
             ELSE IF host'.kind = "server" THEN "notify" ELSE "handler"
    /\ UNCHANGED <<hostArgs, count, ticks, delivered, closes,
                   notified, pending, sigs>>

\* interrupt := make(chan os.Signal, 1); signal.Notify(interrupt, ...).
\* The server then starts its timer and enters its loop; the client waits.
Notify ==
    /\ pc = "notify"
    /\ notified' = TRUE
    /\ pc' = IF host.kind = "server" THEN "send" ELSE "wait"
    /\ UNCHANGED <<mainVars, pending, sigs>>

\* Mutant: an unbuffered channel keeps a signal only when main is receiving.
BufferSignalUnbuffered ==
    IF pc \in {"wait", "select"} THEN 1 ELSE pending

\* os/signal sends without blocking: a signal finding the one-slot buffer
\* full is dropped.
BufferSignal == IF pending < 1 THEN pending + 1 ELSE pending

\* The OS delivers SIGINT or SIGTERM.  Before signal.Notify the runtime's
\* default action ends the process at once, without deferred calls.
Signal ==
    /\ pc \notin {"done", "killed"} /\ sigs < MaxSignals
    /\ sigs' = sigs + 1
    /\ IF notified THEN pending' = BufferSignal /\ UNCHANGED pc
                   ELSE pc' = "killed" /\ UNCHANGED pending
    /\ UNCHANGED <<mainVars, notified>>

\* The message of an iteration: "message #count" on topic "test", carried in
\* a WsMessage the host's converter encodes.
WsMessage(n) == [Payload |-> n, Topic |-> "test"]

\* What Send does: "ok" delivers and returns nil; "lost" returns an error
\* with nothing delivered (no client connected); "unacked" delivers and
\* returns an error (the acknowledgement did not arrive in time).
SendOutcomes == {"ok", "lost", "unacked"}

\* The payloads a Send adds to the receivers' history.
Sent(r) ==
    IF r # "lost" THEN Append(delivered,
                 ExtractWsMessage(host.PayloadConverter,
                     ConstructPayload(host.PayloadConverter, WsMessage(count))).Payload)
    ELSE delivered

ServerSend ==
    /\ pc = "send" /\ ticks < MaxTicks
    /\ \E r \in SendOutcomes :
          /\ count' = IF r = "ok" THEN count + 1 ELSE count
          /\ delivered' = Sent(r)
    /\ ticks' = ticks + 1
    /\ pc' = "select"
    /\ UNCHANGED <<hostArgs, host, closes, notified, pending, sigs>>

\* Mutant: the interrupt returns from main instead of from the loop.
ServerSelectReturn ==
    /\ pc = "select"
    /\ \/ /\ ticks < MaxTicks /\ pc' = "send" /\ UNCHANGED pending
       \/ /\ pending = 1 /\ pending' = 0 /\ pc' = "done"
    /\ UNCHANGED <<mainVars, notified, sigs>>

\* select: the timer fires (next iteration), or a buffered signal is
\* received and returns from the loop's closure.  Both may be ready.
ServerSelect ==
    /\ pc = "select"
    /\ \/ /\ ticks < MaxTicks /\ pc' = "send" /\ UNCHANGED pending
       \/ /\ pending = 1 /\ pending' = 0 /\ pc' = "close"
    /\ UNCHANGED <<mainVars, notified, sigs>>

\* Client example: SetPayloadHandler (an error is only logged).
ClientSetHandler ==
    /\ pc = "handler"
    /\ pc' = "notify"
    /\ UNCHANGED <<mainVars, notified, pending, sigs>>

\* <-interrupt
ClientInterrupt ==
    /\ pc = "wait" /\ pending = 1
    /\ pending' = 0
    /\ pc' = "close"
    /\ UNCHANGED <<mainVars, notified, sigs>>

\* err = host.Close(); log.LogIfError(err).
CloseCall == closes' = closes + 1

\* The main closes its host; for the client the deferred Close runs on
\* return.
CloseHost ==
    /\ pc \in {"close", "deferred"}
    /\ CloseCall
    /\ pc' = IF pc = "close" /\ host.kind = "client" THEN "deferred" ELSE "done"
    /\ UNCHANGED <<hostArgs, host, count, ticks, delivered,
                   notified, pending, sigs>>

Next ==
    \/ Create \/ Notify \/ Signal \/ ServerSend \/ ServerSelect
    \/ ClientSetHandler \/ ClientInterrupt \/ CloseHost

Spec == Init /\ [][Next]_vars

\* main runs whenever it can; its select chooses uniformly among the ready
\* cases, so a buffered signal is not passed over for the timer forever.
\* Nothing is assumed of when signals are sent.
FairSpec ==
    /\ Spec
    /\ WF_vars(Create) /\ WF_vars(Notify) /\ WF_vars(ServerSend)
    /\ WF_vars(ServerSelect) /\ SF_vars(ServerSelect /\ pc' = "close")
    /\ WF_vars(ClientSetHandler) /\ WF_vars(ClientInterrupt)
    /\ WF_vars(CloseHost)

-----------------------------------------------------------------------------
(* Properties                                                              *)

TypeOK ==
    /\ hostArgs \in Configs
    /\ pc \in {"create", "notify", "send", "select", "handler", "wait",
              "close", "deferred", "done", "killed"}
    /\ count \in 0..MaxTicks /\ ticks \in 0..MaxTicks
    /\ delivered \in Seq(0..MaxTicks)
    /\ closes \in 0..2
    /\ notified \in BOOLEAN /\ pending \in 0..1 /\ sigs \in 0..MaxSignals
    /\ \/ IsErr(host)
       \/ host.PayloadConverter.marshaller \in
             {c.Marshaller : c \in Configs} \ {Nil}

\* Once created, a host is an error when the mode is neither server nor
\* client or the marshaller is nil; otherwise it is the host constructor's
\* error, or a host given every field of the configuration under the name
\* the host expects.
HostMatchesConfig ==
    host # [err |-> "none"] =>
        LET cfg == hostArgs.WebSocketConfig IN
        IF cfg.Mode \notin {"server", "client"} \/ hostArgs.Marshaller = Nil
        THEN IsErr(host)
        ELSE \/ IsErr(host)
             \/ /\ host.kind = cfg.Mode
                /\ host.RetryDurationInSeconds = cfg.RetryDurationInSec
                /\ host.AckTimeoutInSeconds = cfg.AcknowledgeTimeoutInSec
                /\ host.WithAcknowledge = cfg.WithAcknowledge
                /\ host.PayloadVersion = cfg.Version
                /\ host.PayloadConverter.marshaller = hostArgs.Marshaller

\* The server example's receivers get "message #0", "message #1", ... in
\* order with no number skipped, however Send's successes, losses and
\* unacknowledged deliveries interleave: a number repeats only right after
\* itself, when a Send that delivered it returned an error and the next
\* iteration resent it; and the numbers delivered are those below count,
\* with count itself only when its last Send was delivered but erred.
DeliveredNumbers == {delivered[i] : i \in DOMAIN delivered}

HostClosedOnExit ==
    (pc = "done" /\ ~IsErr(host)) =>
        closes = IF host.kind = "client" THEN 2 ELSE 1

\* SIGINT or SIGTERM ends the example program: the runtime kills it before
\* signal.Notify has run, and afterwards the signal waits in the interrupt
\* channel's one-slot buffer, even when it arrives while the server is in
\* Send, until main receives it and closes its host.
InterruptEndsProgram == sigs > 0 ~> pc \in {"done", "killed"}

=============================================================================
