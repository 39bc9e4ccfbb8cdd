----------------------------- MODULE ReliableSend -----------------------------
(***************************************************************************)
(* What send() of a mailbox promises to its caller: the call returns only  *)
(* after the receiving mailbox has accepted the message, and every message *)
(* is accepted once.  Queues, signals and automata are not visible here.   *)
(***************************************************************************)
EXTENDS Naturals, Sequences

CONSTANTS
    Senders,    \* the mailboxes
    Messages    \* the messages, each sent at most once

VARIABLES
    pending,    \* pending[m]: the set of messages m waits in send() for, at most one
    taken,      \* the messages that receivers have accepted
    returned    \* the messages whose send() has returned

vars == <<pending, taken, returned>>

Init ==
    /\ pending = [m \in Senders |-> {}]
    /\ taken = {}
    /\ returned = {}

(* m calls send() with a message nobody has sent before.                   *)
Submit(m, msg) ==
    /\ pending[m] = {}
    /\ msg \notin taken \cup returned \cup UNION {pending[n] : n \in Senders}
    /\ pending' = [pending EXCEPT ![m] = {msg}]
    /\ UNCHANGED <<taken, returned>>

(* The receiver takes the message m waits for.                             *)
Take(m, msg) ==
    /\ msg \in pending[m]
    /\ msg \notin taken
    /\ taken' = taken \cup {msg}
    /\ UNCHANGED <<pending, returned>>

(* send() of m returns.                                                    *)
Return(m, msg) ==
    /\ msg \in pending[m]
    /\ msg \in taken
    /\ pending' = [pending EXCEPT ![m] = {}]
    /\ returned' = returned \cup {msg}
    /\ UNCHANGED taken

Next == \E m \in Senders, msg \in Messages : Submit(m, msg) \/ Take(m, msg) \/ Return(m, msg)

(* Whoever has called send() gets its message through and gets it back.    *)
Fairness ==
    \A m \in Senders : /\ WF_vars(\E msg \in Messages : Take(m, msg))
                       /\ WF_vars(\E msg \in Messages : Return(m, msg))

Spec == Init /\ [][Next]_vars /\ Fairness
=============================================================================
