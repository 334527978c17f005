---------------------------- MODULE FrameChannel ----------------------------
(***************************************************************************)
(* What the outbound half of a Transport Reactor promises (spec section    *)
(* 4.1): messages handed to send_message are written to the peer whole, in *)
(* the order they were enqueued, each once, for as long as the connection  *)
(* is open.  Once it closes (stopped or failed) nothing more is written    *)
(* and what is still queued is dropped.                                    *)
(***************************************************************************)
EXTENDS Sequences

CONSTANT Msgs      \* the messages that can be enqueued

VARIABLES
    queue,   \* enqueued, not yet written
    wire,    \* written to the peer, in order
    open     \* the connection is neither stopped nor failed

vars == <<queue, wire, open>>

Init == queue = <<>> /\ wire = <<>> /\ open = TRUE

Enqueue(m) ==
    /\ queue' = Append(queue, m)
    /\ UNCHANGED <<wire, open>>

Transmit ==
    /\ open
    /\ queue # <<>>
    /\ wire' = Append(wire, Head(queue))
    /\ queue' = Tail(queue)
    /\ UNCHANGED open

Close ==
    /\ open
    /\ open' = FALSE
    /\ UNCHANGED <<queue, wire>>

Next == (\E m \in Msgs : Enqueue(m)) \/ Transmit \/ Close

\* Only the order and integrity of what is written.
Spec == Init /\ [][Next]_vars

\* ... and a message queued on an open connection is written without
\* waiting for anything else to happen.
LiveSpec == Spec /\ WF_vars(Transmit)

=============================================================================
