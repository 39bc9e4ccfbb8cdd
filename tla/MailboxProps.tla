---------------------------- MODULE MailboxProps ----------------------------
(***************************************************************************)
(* What the mailbox protocol is relied on for, and the abstract            *)
(* specification of send() that it implements.                             *)
(***************************************************************************)
EXTENDS Mailbox

DataTypes == {"MESSAGE", "MESSAGE_CONNECTIONLESS"}

(* The message is in the hands of the owner of d, or in its automaton that *)
(* has finished and hands it out when receive() returns.                   *)
Delivered(d, msg) ==
    \/ \E i \in DOMAIN received[d] : received[d][i] = msg
    \/ finished[d] /\ buffer[d] = msg

SendReturns(m) == call[m] = "send" /\ call'[m] = "idle"

(* A mailbox between two calls whose automaton was left in the middle of a  *)
(* handshake by an event it has no transition for.                         *)
Wedged(m) == call[m] = "idle" /\ errorStatus[m] # "AUT_OK"

-----------------------------------------------------------------------------
(* When send() returns, the receiver has the message.  This is the         *)
(* guarantee documented for SimplifiedMailbox::send; it is about every     *)
(* interleaving of handshakes, holds and full queues.                      *)
SendDelivers ==
    [][\A m \in Mailboxes :
          SendReturns(m) => Delivered(buffer[m].dst, buffer[m])]_vars

(* Whatever the topology, send() does not go wrong quietly and carry on:   *)
(* it returns with the message delivered, or it leaves its own automaton   *)
(* in the middle of the handshake.                                         *)
SendDeliversOrWedges ==
    [][\A m \in Mailboxes :
          SendReturns(m) => \/ Delivered(buffer[m].dst, buffer[m])
                            \/ Wedged(m)']_vars

(* An event without a transition raises the error status that the next     *)
(* event with a transition would lower (mautomat.cpp), and nobody calls    *)
(* clearErrorStatus or reset.  In a mailbox that status is never lowered:  *)
(* whatever is called on it later, its automaton does not move again for   *)
(* as long as the process lives.                                           *)
WedgeIsPermanent ==
    [][\A m \in Mailboxes :
          call[m] # "exited" /\ errorStatus[m] # "AUT_OK"
             => errorStatus'[m] = errorStatus[m] /\ state'[m] = state[m]]_vars

(* The owner of d gets the messages of one sender in the order in which    *)
(* they were sent, none twice, and none that was meant for somebody else.  *)
ReceivedInOrder ==
    \A d \in Mailboxes : \A i, j \in DOMAIN received[d] :
       /\ received[d][i].dst = d
       /\ i < j /\ received[d][i].src = received[d][j].src
             => received[d][i].id < received[d][j].id

(* std::queue::front() is never called on an empty waiting list, and a     *)
(* sender that was told to HOLD is never forgotten by a mailbox that goes  *)
(* idle: the idle state is the one that matches the list.                  *)
IdleStateMatchesWaitingList ==
    \A m \in Mailboxes :
       /\ state[m] = "IdleQueueNotEmpty" => waitingList[m] # <<>>
       /\ state[m] = "IdleQueueEmpty" => waitingList[m] = <<>>

SendStates == {"RTS_Sent", "HoldState", "WaitingACK", "ActionSuccessfulyEnded"}

ReceiveStates == {"WaitingRTS", "WaitingMSG", "ActionSuccessfulyEnded"}

(* The automaton of m is where the call its owner is in wants it to be, or *)
(* it has been left behind with its error status raised; a call that has   *)
(* returned left nothing of itself behind (the finished flag, the lifted   *)
(* time limit).                                                            *)
CallMatchesAutomaton ==
    \A m \in Mailboxes :
       /\ finished[m] <=> state[m] = "ActionSuccessfulyEnded"
       /\ errorStatus[m] # "AUT_OK"
             => state[m] \notin IdleStates \cup {"ActionSuccessfulyEnded"}
       /\ call[m] = "idle" => state[m] \in IdleStates \/ errorStatus[m] # "AUT_OK"
       /\ call[m] = "send" => state[m] \in SendStates \/ errorStatus[m] # "AUT_OK"
       /\ call[m] = "receive" => state[m] \in ReceiveStates \/ errorStatus[m] # "AUT_OK"
       /\ override[m] => call[m] \in {"receive", "exited"}

(* The places in which the request of m to d can be: on its way, held,     *)
(* cleared, answered.  Occurrences in a queue are told apart by position.  *)
Occurrences(q, type, src) == {i \in DOMAIN queue[q] : queue[q][i].type = type
                                                   /\ queue[q][i].src = src}

InOutbox(m, type, d) == outbox[m].type = type /\ outbox[m].dst = d

Requests(m, d) ==
    ({"outbox"} \X {i \in {0} : InOutbox(m, "RTS", d)})
    \cup ({"queue"} \X Occurrences(d, "RTS", m))
    \cup ({"held"} \X {i \in DOMAIN waitingList[d] : waitingList[d][i] = m})

Clearances(m, d) ==
    ({"cts outbox"} \X {i \in {0} : InOutbox(d, "CTS", m)})
    \cup ({"cts queue"} \X Occurrences(m, "CTS", d))

Transfers(m, d) ==
    ({"msg outbox"} \X {i \in {0} : InOutbox(m, "MESSAGE", d)})
    \cup ({"msg queue"} \X Occurrences(d, "MESSAGE", m))

Acknowledgements(m, d) ==
    ({"ack outbox"} \X {i \in {0} : InOutbox(d, "ACK", m)})
    \cup ({"ack queue"} \X Occurrences(m, "ACK", d))

(* A handshake is always in exactly one place: no request is lost or       *)
(* doubled while it is queued, held, cleared or acknowledged.              *)
OneTokenPerHandshake ==
    \A m, d \in Mailboxes :
       LET before == Cardinality(Requests(m, d)) + Cardinality(Clearances(m, d))
           after == Cardinality(Transfers(m, d)) + Cardinality(Acknowledgements(m, d))
           sending == call[m] = "send" /\ buffer[m].dst = d
       IN /\ before = (IF sending /\ state[m] \in {"RTS_Sent", "HoldState"} THEN 1 ELSE 0)
          /\ after = (IF sending /\ state[m] = "WaitingACK" THEN 1 ELSE 0)

(* A receiver has cleared at most one sender, and it is the one whose      *)
(* message it waits for: no two senders transfer to it at the same time.   *)
ClearedSenderIsExpected ==
    \A m, d \in Mailboxes :
       Clearances(m, d) \cup Transfers(m, d) # {}
          => state[d] = "WaitingMSG" /\ buffer[d].dst = m /\ call[d] = "receive"

(* Nothing of a handshake is lost, doubled or meant for a receiver that    *)
(* waits for somebody else.                                                *)
HandshakesIntact == OneTokenPerHandshake /\ ClearedSenderIsExpected

(* No process is killed by a message its mailbox does not expect.          *)
NoFatalError == \A m \in Mailboxes : call[m] # "exited"

(* Every send() returns as long as the receivers keep calling receive().   *)
EverySendReturns == \A m \in Mailboxes : call[m] = "send" ~> call[m] # "send"

(* A receive() with a time limit returns although the limit is lifted once *)
(* a sender was cleared (OVERRIDE_NORMAL): the sender always follows up.   *)
TimedReceiveReturns ==
    \A m \in Mailboxes :
       call[m] = "receive" /\ "TIMED" \in options[m] ~> call[m] # "receive"

(* The calls of the API return.                                            *)
EveryCallReturns == EverySendReturns /\ TimedReceiveReturns

-----------------------------------------------------------------------------
(* The mapping to ReliableSend.  A message is pending while its send() has *)
(* not returned and taken from the moment the receiver acknowledges it.    *)
LinkMessages ==
    {[type |-> "MESSAGE", src |-> link[1], dst |-> link[2], id |-> i] :
        link \in Links, i \in 1 .. MaxSends}

PendingOf(m) == IF call[m] = "send" THEN {buffer[m]} ELSE {}

TakenMessages == {msg \in LinkMessages : Delivered(msg.dst, msg)}

(* Numbers rise, so a message of m that is neither pending nor unsent has  *)
(* been returned from.                                                     *)
ReturnedMessages ==
    {msg \in TakenMessages : msg \notin PendingOf(msg.src)}

Promise == INSTANCE ReliableSend
              WITH Senders <- Mailboxes, Messages <- LinkMessages,
                   pending <- [m \in Mailboxes |-> PendingOf(m)],
                   taken <- TakenMessages, returned <- ReturnedMessages

(* The handshake implements what send() promises.                          *)
ImplementsReliableSend == Promise!Spec
=============================================================================
