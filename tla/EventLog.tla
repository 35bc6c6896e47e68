-------------------------------- MODULE EventLog --------------------------------
(*****************************************************************************)
(* What the event processor promises: events of a uuid are printed in the    *)
(* order in which they were accepted, each once; those that are not printed  *)
(* are lost from the front, the oldest ones first.                           *)
(*****************************************************************************)
EXTENDS Naturals, Sequences

CONSTANT Uuid       \* what a worker is created for: pid, tid and name of a thread

VARIABLES
    accepted,       \* number of events accepted so far; it numbers the next one
    pending,        \* uuid -> numbers of the events that may still be printed
    printed         \* uuid -> numbers of the events that were printed

vars == <<accepted, pending, printed>>

Init ==
    /\ accepted = 0
    /\ pending = [u \in Uuid |-> {}]
    /\ printed = [u \in Uuid |-> << >>]

\* The next event is for u.
Accept(u) ==
    /\ accepted' = accepted + 1
    /\ pending' = [pending EXCEPT ![u] = @ \cup {accepted + 1}]
    /\ UNCHANGED printed

\* The next event is one that is never printed.
Ignore ==
    /\ accepted' = accepted + 1
    /\ UNCHANGED <<pending, printed>>

\* The oldest is printed.
Emit(u) ==
    \E n \in pending[u] :
        /\ \A m \in pending[u] : n <= m
        /\ printed' = [printed EXCEPT ![u] = Append(@, n)]
        /\ pending' = [pending EXCEPT ![u] = @ \ {n}]
        /\ UNCHANGED accepted

\* All up to n are lost with the worker that was to print them.
Lose(u, n) ==
    /\ pending' = [pending EXCEPT ![u] = {m \in @ : m > n}]
    /\ UNCHANGED <<accepted, printed>>

Next ==
    \/ Ignore
    \/ \E u \in Uuid : \/ Accept(u)
                       \/ Emit(u)
                       \/ \E n \in 1..accepted : Lose(u, n)

Spec == Init /\ [][Next]_vars

=============================================================================
