---------------------------- MODULE NatsPublisher ----------------------------
(***************************************************************************)
(* The NATS transmitter (src/transmitter_nats.rs, src/nats.rs) and the     *)
(* client behind it.  `publish` returns once the message is in the channel *)
(* of the client: a task of the client writes the channel to the           *)
(* connection, and connects again when the connection breaks.  That task,  *)
(* the connection and the broker are not code of the program.              *)
(***************************************************************************)
EXTENDS Naturals, Sequences, Functions

CONSTANTS
  Messages,         \* messages, each scheduled once
  ChannelCapacity   \* how many commands the client's channel holds

ASSUME ChannelAssumption == ChannelCapacity \in Nat \ {0}

VARIABLES
  connection,   \* the client's: "none" before it is made, "up" or "down"
  channel,      \* messages in the client's channel
  wire,         \* messages written and not arrived yet
  received,     \* messages the broker received
  lost          \* messages that will not arrive

natsVars == <<connection, channel, wire, received, lost>>

NatsInit ==
  /\ connection = "none"
  /\ channel = <<>>
  /\ wire = <<>>
  /\ received = <<>>
  /\ lost = {}

\* connect_to_nats
Connect ==
  /\ connection = "none"
  /\ connection' = "up"
  /\ UNCHANGED <<channel, wire, received, lost>>

\* Mutant: a full channel is not waited for.
TryPublish(m) ==
  /\ connection # "none"
  /\ channel' = IF Len(channel) < ChannelCapacity THEN Append(channel, m)
                ELSE channel
  /\ UNCHANGED <<connection, wire, received, lost>>

\* transmit: waits for room in the channel, and for nothing else.
Publish(m) ==
  /\ connection # "none"
  /\ Len(channel) < ChannelCapacity
  /\ channel' = Append(channel, m)
  /\ UNCHANGED <<connection, wire, received, lost>>

-----------------------------------------------------------------------------
(***************************************************************************)
(* The client's own task, the connection and the broker.                   *)
(***************************************************************************)

Write ==
  /\ connection = "up"
  /\ channel # <<>>
  /\ channel' = Tail(channel)
  /\ wire' = Append(wire, Head(channel))
  /\ UNCHANGED <<connection, received, lost>>

Receive ==
  /\ wire # <<>>
  /\ wire' = Tail(wire)
  /\ received' = Append(received, Head(wire))
  /\ UNCHANGED <<connection, channel, lost>>

\* What was written and did not arrive is not written again.
Break ==
  /\ connection = "up"
  /\ connection' = "down"
  /\ wire' = <<>>
  /\ lost' = lost \cup Range(wire)
  /\ UNCHANGED <<channel, received>>

Reconnect ==
  /\ connection = "down"
  /\ connection' = "up"
  /\ UNCHANGED <<channel, wire, received, lost>>

\* The process ends and the channel with it; bytes the operating system has
\* may arrive still.
Disconnect ==
  /\ connection' = "none"
  /\ channel' = <<>>
  /\ \/ /\ UNCHANGED wire
        /\ lost' = lost \cup Range(channel)
     \/ /\ wire' = <<>>
        /\ lost' = lost \cup Range(wire) \cup Range(channel)
  /\ UNCHANGED received

-----------------------------------------------------------------------------
\* Every message that was published and may be received, or was.
Pipeline == received \o wire \o channel

NatsTypeOK ==
  /\ connection \in {"none", "up", "down"}
  /\ channel \in Seq(Messages)
  /\ Len(channel) <= ChannelCapacity
  /\ wire \in Seq(Messages)
  /\ received \in Seq(Messages)
  /\ lost \subseteq Messages
=============================================================================
