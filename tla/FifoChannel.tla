---------------------------- MODULE FifoChannel ----------------------------
(***************************************************************************)
(* What a channel promises, whatever its capacity and however its tasks are *)
(* parked and woken: the values that were accepted form one queue, each is  *)
(* given to one receiver, in the order of acceptance, and nothing is given  *)
(* to anyone after the channel is closed.  Closing hands the values of the  *)
(* senders that still wait, the youngest ones, back to them.                *)
(***************************************************************************)
EXTENDS Sequences, Naturals

CONSTANTS Values, Receivers

VARIABLES
    queue,    \* the accepted values that nobody has received
    given,    \* the values given to each receiver
    closed

vars == <<queue, given, closed>>

Init ==
    /\ queue = <<>>
    /\ given = [r \in Receivers |-> <<>>]
    /\ closed = FALSE

Put(v) ==
    /\ ~closed
    /\ queue' = Append(queue, v)
    /\ UNCHANGED <<given, closed>>

Take(r) ==
    /\ ~closed
    /\ queue # <<>>
    /\ given' = [given EXCEPT ![r] = Append(@, Head(queue))]
    /\ queue' = Tail(queue)
    /\ UNCHANGED closed

\* A value is put into an empty channel and taken at once.
Pass(v, r) ==
    /\ ~closed
    /\ queue = <<>>
    /\ given' = [given EXCEPT ![r] = Append(@, v)]
    /\ UNCHANGED <<queue, closed>>

Close ==
    /\ closed' = TRUE
    /\ \E k \in 0 .. Len(queue) : queue' = SubSeq(queue, 1, k)
    /\ UNCHANGED given

Next ==
    \/ \E v \in Values : Put(v)
    \/ \E r \in Receivers : Take(r)
    \/ \E v \in Values, r \in Receivers : Pass(v, r)
    \/ Close

Spec == Init /\ [][Next]_vars

=============================================================================
