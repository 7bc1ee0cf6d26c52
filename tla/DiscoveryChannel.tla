-------------------------- MODULE DiscoveryChannel --------------------------
(***************************************************************************)
(* The contract between the producers of discovery data (loaders, push     *)
(* endpoints) and the message processor: the message types of              *)
(* discovery/core, the buffered Go channel that startDiscovery creates     *)
(* and the context that every goroutine of one discovery runtime shares.   *)
(***************************************************************************)
EXTENDS Integers, Sequences, FiniteSets

CONSTANTS
  Names,       \* device names as the external source spells them
  Ports,       \* explicit port numbers (0 stands for "no port given")
  IDs,         \* snapshot identifiers a loader may generate (uuids)
  PushID,      \* an identifier used by a push endpoint, never by a loader
  NoID,        \* the identifier of no snapshot
  BufferSize   \* capacity of the channel (--discovery-buffer-size)

ASSUME NamesAssumption == IsFiniteSet(Names)
ASSUME BufferAssumption == BufferSize \in Nat \ {0}
ASSUME PortAssumption == Ports \subseteq Nat \ {0}
ASSUME IdAssumption == PushID \notin IDs /\ NoID \notin IDs \cup {PushID}

VARIABLES
  channel,     \* batches sent and not yet received, oldest first
  ctxDone      \* the context of the runtime is cancelled

DiscoveredTarget == [name : Names, port : Ports \cup {0}]

\* One chunk of a snapshot. A chunk index or count that does not fit is a
\* value the processor has to reject, so both range over the integers.
DiscoverySnapshot ==
  [type : {"snapshot"}, id : IDs \cup {PushID}, index : Int, total : Int,
   targets : Seq(DiscoveredTarget)]

DiscoveryEvent ==
  [type : {"event"}, action : {"apply", "delete"}, target : DiscoveredTarget]

DiscoveryMessage == DiscoverySnapshot \cup DiscoveryEvent

\* Faulty variant of sendMessages: the buffer has no bound.
sendMessagesUnbounded(messages) == channel' = Append(channel, messages)

\* The select of sendMessages: a send needs room in the buffer. When the
\* context is also done Go picks either ready case, so a cancelled context
\* does not exclude the send.
sendMessages(messages) ==
  /\ Len(channel) < BufferSize
  /\ channel' = Append(channel, messages)

ChannelTypeOK ==
  /\ channel \in Seq(Seq(DiscoveryMessage))
  /\ Len(channel) <= BufferSize
  /\ ctxDone \in BOOLEAN
=============================================================================
