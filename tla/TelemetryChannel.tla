-------------------------- MODULE TelemetryChannel --------------------------
(***************************************************************************)
(* What the DDR ring promises between the FPGA writer and the UDP sender:  *)
(* a queue of records.  Records enter in the order they were made, some    *)
(* never enter (the writer drops what does not fit), the one at the head   *)
(* is forwarded at most once, and a reset of the transport empties the     *)
(* queue.                                                                  *)
(***************************************************************************)
EXTENDS Integers, Sequences

CONSTANT MaxRecords

VARIABLES
    chan,       \* published records that are not yet consumed
    last,       \* the record in the last datagram
    published   \* the record published last

channelVars == <<chan, last, published>>

ChannelInit == chan = <<>> /\ last = 0 /\ published = 0

Publish ==
    \E id \in published + 1 .. MaxRecords :
        /\ chan' = Append(chan, id)
        /\ published' = id
        /\ UNCHANGED last

Forward ==
    /\ chan # <<>>
    /\ Head(chan) > last
    /\ last' = Head(chan)
    /\ UNCHANGED <<chan, published>>

Consume ==
    /\ chan # <<>>
    /\ chan' = Tail(chan)
    /\ UNCHANGED <<last, published>>

Reset ==
    /\ chan' = <<>>
    /\ UNCHANGED <<last, published>>

ChannelNext == Publish \/ Forward \/ Consume \/ Reset

\* The promise as a specification: the ring is a first-in first-out queue
\* that forwards a record at most once.
ChannelSpec == ChannelInit /\ [][ChannelNext]_channelVars
=============================================================================
