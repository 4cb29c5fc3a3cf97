-------------------------- MODULE MC_WsHostFactory --------------------------
EXTENDS WsHostFactory

CONSTANTS jsonMarshaller

\* The examples' WebSocketConfig (retry 1 s, acknowledgement timeout 10 s),
\* with acknowledgement on or off, in server, client or an unknown mode, over
\* the JSON marshaller or a nil one.
MCConfigs ==
    {[WebSocketConfig |->
        [URL |-> "localhost:12345", Mode |-> mode, RetryDurationInSec |-> 1,
         WithAcknowledge |-> ack, BlockingAckOnError |-> FALSE,
         DropMessagesIfNoConnection |-> FALSE, AcknowledgeTimeoutInSec |-> 10,
         Version |-> 1],
      Marshaller |-> m] :
        mode \in {"server", "client", "tcp"}, ack \in BOOLEAN,
        m \in {jsonMarshaller, Nil}}

=============================================================================
