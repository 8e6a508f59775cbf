----------------------------- MODULE SignalStream -----------------------------
(***************************************************************************)
(* What Connection promises about the messages the daemon originates: the  *)
(* signals form one queue and the incoming method calls another; each is   *)
(* taken once, in the order the daemon sent it, only by dispatch() and     *)
(* never inside a synchronous outgoing call.  Closing the connection loses *)
(* a suffix of the queues, the part still in the socket.                   *)
(***************************************************************************)
EXTENDS Integers, Sequences, SequencesExt

VARIABLES
    signals,      \* signals sent to this connection and not dispatched
    incoming,     \* method calls sent to it and not handed to a server
    calling,      \* a synchronous outgoing call is in progress
    dispatching,  \* dispatch() is on the stack
    open          \* the connection has not been closed

vars == <<signals, incoming, calling, dispatching, open>>

Init ==
    /\ signals = <<>> /\ incoming = <<>>
    /\ calling = FALSE /\ dispatching = FALSE /\ open = TRUE

\* One message is added at the end.
Grows(queue, longer) == longer # <<>> /\ queue = Front(longer)

Arrive ==
    /\ open
    /\ \/ Grows(signals, signals') /\ UNCHANGED incoming
       \/ Grows(incoming, incoming') /\ UNCHANGED signals
    /\ UNCHANGED <<calling, dispatching, open>>

Take ==
    /\ dispatching /\ ~calling
    /\ \/ signals # <<>> /\ signals' = Tail(signals) /\ UNCHANGED incoming
       \/ incoming # <<>> /\ incoming' = Tail(incoming) /\ UNCHANGED signals
    /\ UNCHANGED <<calling, dispatching, open>>

Disconnect ==
    /\ open /\ open' = FALSE
    /\ \E n \in 0..Len(signals) : signals' = SubSeq(signals, 1, n)
    /\ \E n \in 0..Len(incoming) : incoming' = SubSeq(incoming, 1, n)

\* calling and dispatching are the client's own; they move without the queues,
\* and dispatching never starts inside a call.
Work ==
    /\ \/ UNCHANGED dispatching
       \/ ~calling /\ ~calling' /\ dispatching' = ~dispatching
    /\ UNCHANGED <<signals, incoming, open>>

Next == Arrive \/ Take \/ Disconnect \/ Work

Spec == Init /\ [][Next]_vars
=============================================================================
