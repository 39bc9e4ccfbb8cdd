------------------------------- MODULE Mailbox -------------------------------
(***************************************************************************)
(* The connection-oriented mailbox protocol of MailboxAPI and              *)
(* MailboxAutomaton.  A mailbox is a POSIX message queue with a name, used *)
(* by the one thread that owns it.  send() performs a handshake            *)
(*                                                                         *)
(*      sender                          receiver                           *)
(*        | ---- RTS ------------------->  |                               *)
(*        | <--- CTS ------------------    |  (or HOLD now and CTS later)  *)
(*        | ---- MESSAGE --------------->  |                               *)
(*        | <--- ACK ------------------    |                               *)
(*                                                                         *)
(* and sendConnectionless() just puts the message into the queue.  Every   *)
(* mailbox drives a Mealy automaton with the messages it takes from its    *)
(* queue; mq_send blocks while the queue of the destination is full.       *)
(***************************************************************************)
EXTENDS Integers, Sequences, FiniteSets

CONSTANTS
    Mailboxes,   \* the names of the mailboxes of the system
    NoName,      \* the empty name "" of a default constructed message
    Links,       \* pairs <<m, d>>: the owner of m calls send(d, ...)
    Notices,     \* pairs <<m, d>>: the owner of m calls sendConnectionless(d, ...)
    Listeners,   \* the mailboxes whose owner calls receive()
    Options,     \* the flag sets that receive() is called with
    QueueSize,   \* mq_maxmsg of every queue (Settings > Mailbox > queue_size)
    MaxSends,    \* bound: messages one mailbox starts to send
    MaxSignals,  \* bound: signals that interrupt a system call
    MaxCrashes   \* bound: processes killed from outside

Flags == {"NORMAL", "TIMED", "NONBLOCKING", "IGNORE_QUEUE"}

ASSUME MailboxAssumption ==
    /\ NoName \notin Mailboxes
    /\ Links \subseteq Mailboxes \X Mailboxes
    /\ Notices \subseteq Mailboxes \X Mailboxes
    /\ Listeners \subseteq Mailboxes
    /\ Options \subseteq SUBSET Flags
    /\ QueueSize \in Nat \ {0}
    /\ MaxSends \in Nat
    /\ MaxSignals \in Nat
    /\ MaxCrashes \in Nat

VARIABLES
    queue,        \* queue[m]: the POSIX message queue m reads from
    state,        \* m_iCurrentStateID of the automaton
    errorStatus,  \* m_iErrorStatus of the automaton
    finished,     \* m_bFinished
    buffer,       \* m_messageBuffer
    waitingList,  \* m_qWaitingList: the senders that were told to HOLD
    override,     \* m_timedReceiveOverride = OVERRIDE_NORMAL
    outbox,       \* the message mq_send was called with and has not queued yet
    call,         \* the API call the owner of the mailbox is in
    options,      \* the argument of the last receive()
    sent,         \* number of messages the owner has started to send
    received,     \* the messages receive() has returned to the owner
    result,       \* the type of the message the last receive() returned
    signals,      \* number of signals so far
    crashes       \* number of crashes so far

automatonVars == <<state, errorStatus, finished, buffer, waitingList, override>>
ownerVars == <<call, options, sent, received, result>>
faultVars == <<signals, crashes>>
vars == <<queue, automatonVars, outbox, ownerVars, faultVars>>

-----------------------------------------------------------------------------
States == {"IdleQueueEmpty", "IdleQueueNotEmpty", "RTS_Sent", "HoldState",
           "WaitingACK", "WaitingRTS", "WaitingMSG", "ActionSuccessfulyEnded"}

IdleStates == {"IdleQueueEmpty", "IdleQueueNotEmpty"}

Signals == {"RTS", "CTS", "HOLD", "ACK"}

Types == Signals \cup {"MESSAGE", "MESSAGE_CONNECTIONLESS", "EMPTY", "TIMED_OUT",
                       "SYSCALL_INTERRUPTED", "ERROR"}

(* The number of a message stands for its payload; 0 is the null pointer.  *)
Message == [type : Types, src : Mailboxes \cup {NoName},
            dst : Mailboxes \cup {NoName}, id : 0 .. MaxSends]

EmptyMessage == [type |-> "ERROR", src |-> NoName, dst |-> NoName, id |-> 0]

Signal(m, d, type) == [type |-> type, src |-> m, dst |-> d, id |-> 0]

(* What the receiveImmediate functions make up when mq_receive fails.      *)
Failure(type) == [type |-> type, src |-> NoName, dst |-> NoName, id |-> 0]

Idle(m) == call[m] = "idle" /\ outbox[m] = EmptyMessage

TaskCompleted(m) == finished[m] \/ errorStatus[m] # "AUT_OK"

-----------------------------------------------------------------------------
(* The automaton.  A row is <<state, event, next state, action>>.          *)

TransitionTable == {
    <<"IdleQueueEmpty", "StartReceiving", "WaitingRTS", "Void">>,
    <<"IdleQueueEmpty", "RTS_Received", "IdleQueueNotEmpty", "EnqueueAndHold">>,
    <<"IdleQueueEmpty", "InitSending", "RTS_Sent", "SendRTS">>,
    <<"IdleQueueEmpty", "StartReceivingIgnoreQueue", "WaitingRTS", "Void">>,
    <<"IdleQueueNotEmpty", "InitSending", "RTS_Sent", "SendRTS">>,
    <<"IdleQueueNotEmpty", "StartReceiving", "WaitingMSG", "DequeueAndCTS">>,
    <<"IdleQueueNotEmpty", "RTS_Received", "IdleQueueNotEmpty", "EnqueueAndHold">>,
    <<"IdleQueueNotEmpty", "StartReceivingIgnoreQueue", "WaitingRTS", "Void">>,
    <<"RTS_Sent", "RTS_Received", "RTS_Sent", "EnqueueAndHold">>,
    <<"RTS_Sent", "HOLD_Received", "HoldState", "Void">>,
    <<"RTS_Sent", "CTS_Received", "WaitingACK", "SendMsg">>,
    <<"RTS_Sent", "ValidMsgConnectionless", "RTS_Sent", "Void">>,
    <<"HoldState", "RTS_Received", "HoldState", "EnqueueAndHold">>,
    <<"HoldState", "CTS_Received", "WaitingACK", "SendMsg">>,
    <<"HoldState", "ValidMsgConnectionless", "HoldState", "Void">>,
    <<"WaitingACK", "RTS_Received", "WaitingACK", "EnqueueAndHold">>,
    <<"WaitingACK", "ACK_Received", "ActionSuccessfulyEnded", "SetFinishedFlag">>,
    <<"WaitingACK", "ValidMsgConnectionless", "WaitingACK", "Void">>,
    <<"WaitingRTS", "RTS_Received", "WaitingMSG", "SendCTS">>,
    <<"WaitingRTS", "TimedOut", "ActionSuccessfulyEnded", "SaveMessage">>,
    <<"WaitingRTS", "ValidMsgConnectionless", "ActionSuccessfulyEnded", "SaveMessage">>,
    <<"WaitingMSG", "RTS_Received", "WaitingMSG", "EnqueueAndHold">>,
    <<"WaitingMSG", "TimedOut", "WaitingMSG", "Void">>,
    <<"WaitingMSG", "ValidMsg", "ActionSuccessfulyEnded", "SendACK">>,
    <<"WaitingMSG", "ValidMsgConnectionless", "WaitingMSG", "Void">>,
    <<"ActionSuccessfulyEnded", "RTS_Received", "ActionSuccessfulyEnded", "EnqueueAndHold">>,
    <<"ActionSuccessfulyEnded", "ResetQueueEmpty", "IdleQueueEmpty", "ClearFinishedFlag">>,
    <<"ActionSuccessfulyEnded", "ResetQueueNotEmpty", "IdleQueueNotEmpty", "ClearFinishedFlag">>}

(* The actions of the table.  m runs the action on the message msg of the  *)
(* event while its m_messageBuffer holds b.                                *)

DoVoid(m, b) ==
    /\ buffer' = [buffer EXCEPT ![m] = b]
    /\ UNCHANGED <<finished, waitingList, override, outbox>>

DoClearFinishedFlag(m) ==
    /\ finished' = [finished EXCEPT ![m] = FALSE]
    /\ buffer' = [buffer EXCEPT ![m] = EmptyMessage]
    /\ override' = [override EXCEPT ![m] = FALSE]
    /\ UNCHANGED <<waitingList, outbox>>

DoSetFinishedFlag(m, b) ==
    /\ finished' = [finished EXCEPT ![m] = TRUE]
    /\ buffer' = [buffer EXCEPT ![m] = b]
    /\ UNCHANGED <<waitingList, override, outbox>>

(* Mutant: the message is pushed instead of the name of its source.        *)
DoEnqueueMessage(m, msg, b) ==
    /\ outbox' = [outbox EXCEPT ![m] = Signal(m, msg.src, "HOLD")]
    /\ waitingList' = [waitingList EXCEPT ![m] = Append(@, msg)]
    /\ buffer' = [buffer EXCEPT ![m] = b]
    /\ UNCHANGED <<finished, override>>

DoEnqueueAndHold(m, msg, b) ==
    /\ outbox' = [outbox EXCEPT ![m] = Signal(m, msg.src, "HOLD")]
    /\ waitingList' = [waitingList EXCEPT ![m] = Append(@, msg.src)]
    /\ buffer' = [buffer EXCEPT ![m] = b]
    /\ UNCHANGED <<finished, override>>

DoSendRTS(m, msg) ==
    /\ buffer' = [buffer EXCEPT ![m] = msg]
    /\ outbox' = [outbox EXCEPT ![m] = Signal(m, msg.dst, "RTS")]
    /\ UNCHANGED <<finished, waitingList, override>>

(* Mutant: front() without pop().                                          *)
DoPeekAndCTS(m, b) ==
    LET destination == Head(waitingList[m]) IN
    /\ outbox' = [outbox EXCEPT ![m] = Signal(m, destination, "CTS")]
    /\ buffer' = [buffer EXCEPT ![m] = [b EXCEPT !.dst = destination]]
    /\ UNCHANGED <<waitingList, finished, override>>

DoDequeueAndCTS(m, b) ==
    LET destination == Head(waitingList[m]) IN
    /\ waitingList' = [waitingList EXCEPT ![m] = Tail(@)]
    /\ outbox' = [outbox EXCEPT ![m] = Signal(m, destination, "CTS")]
    /\ buffer' = [buffer EXCEPT ![m] = [b EXCEPT !.dst = destination]]
    /\ UNCHANGED <<finished, override>>

(* Mutant: the sender does not wait for the acknowledgement.               *)
DoSendMsgAndFinish(m, b) ==
    /\ outbox' = [outbox EXCEPT ![m] = b]
    /\ buffer' = [buffer EXCEPT ![m] = b]
    /\ finished' = [finished EXCEPT ![m] = TRUE]
    /\ UNCHANGED <<waitingList, override>>

DoSendMsg(m, b) ==
    /\ outbox' = [outbox EXCEPT ![m] = b]
    /\ buffer' = [buffer EXCEPT ![m] = b]
    /\ UNCHANGED <<finished, waitingList, override>>

(* Mutant: the receiver does not note whom it has cleared.                 *)
DoSendCTSOnly(m, msg, b) ==
    /\ buffer' = [buffer EXCEPT ![m] = b]
    /\ outbox' = [outbox EXCEPT ![m] = Signal(m, msg.src, "CTS")]
    /\ override' = [override EXCEPT ![m] = TRUE]
    /\ UNCHANGED <<finished, waitingList>>

DoSendCTS(m, msg, b) ==
    /\ buffer' = [buffer EXCEPT ![m] = [b EXCEPT !.dst = msg.src]]
    /\ outbox' = [outbox EXCEPT ![m] = Signal(m, msg.src, "CTS")]
    /\ override' = [override EXCEPT ![m] = TRUE]
    /\ UNCHANGED <<finished, waitingList>>

DoSendACK(m, msg) ==
    /\ outbox' = [outbox EXCEPT ![m] = Signal(m, msg.src, "ACK")]
    /\ buffer' = [buffer EXCEPT ![m] = msg]
    /\ finished' = [finished EXCEPT ![m] = TRUE]
    /\ UNCHANGED <<waitingList, override>>

(* doSetTimedOutStatus and doSaveReceivedMessage have the same body.       *)
DoSaveMessage(m, msg) ==
    /\ buffer' = [buffer EXCEPT ![m] = msg]
    /\ finished' = [finished EXCEPT ![m] = TRUE]
    /\ UNCHANGED <<waitingList, override, outbox>>

Perform(action, m, msg, b) ==
    \/ action = "Void" /\ DoVoid(m, b)
    \/ action = "ClearFinishedFlag" /\ DoClearFinishedFlag(m)
    \/ action = "SetFinishedFlag" /\ DoSetFinishedFlag(m, b)
    \/ action = "EnqueueAndHold" /\ DoEnqueueAndHold(m, msg, b)
    \/ action = "SendRTS" /\ DoSendRTS(m, msg)
    \/ action = "DequeueAndCTS" /\ DoDequeueAndCTS(m, b)
    \/ action = "SendMsg" /\ DoSendMsg(m, b)
    \/ action = "SendCTS" /\ DoSendCTS(m, msg, b)
    \/ action = "SendACK" /\ DoSendACK(m, msg)
    \/ action = "SaveMessage" /\ DoSaveMessage(m, msg)

(* Mutant: a sender that is held, or that meets a request of its own       *)
(* receiver, takes this for success.                                       *)
RowsEarlyEnd(m, event) ==
    IF state[m] = "RTS_Sent" /\ event \in {"HOLD_Received", "ValidMsg"}
    THEN {<<"RTS_Sent", event, "ActionSuccessfulyEnded", "SetFinishedFlag">>}
    ELSE {row \in TransitionTable : row[1] = state[m] /\ row[2] = event}

Rows(m, event) ==
    {row \in TransitionTable : row[1] = state[m] /\ row[2] = event}

(* An event with a row: the new state is entered and the action is run.    *)
Accept(m, event, msg, b) ==
    \E row \in Rows(m, event) :
       /\ state' = [state EXCEPT ![m] = row[3]]
       /\ errorStatus' = [errorStatus EXCEPT ![m] = "AUT_OK"]
       /\ Perform(row[4], m, msg, b)

(* Mutant: the automaton is reset.                                         *)
RejectAndReset(m, event, b) ==
    /\ Rows(m, event) = {}
    /\ state' = [state EXCEPT ![m] = "IdleQueueEmpty"]
    /\ errorStatus' = [errorStatus EXCEPT ![m] = "AUT_NEXT_STATE_NOK"]
    /\ buffer' = [buffer EXCEPT ![m] = b]
    /\ UNCHANGED <<finished, waitingList, outbox>>

(* An event without a row only raises AUT_NEXT_STATE_NOK; the next event   *)
(* that has a row lowers it again.                                         *)
Reject(m, event, b) ==
    /\ Rows(m, event) = {}
    /\ errorStatus' = [errorStatus EXCEPT ![m] = "AUT_NEXT_STATE_NOK"]
    /\ buffer' = [buffer EXCEPT ![m] = b]
    /\ UNCHANGED <<state, finished, waitingList, outbox>>

ProcessEvent(m, event, msg, b) ==
    \/ Accept(m, event, msg, b)
    \/ Reject(m, event, b) /\ UNCHANGED override

-----------------------------------------------------------------------------
(* SimplifiedMailbox: from a message to an event.                          *)

FromPeer(m, msg) == msg.src = buffer[m].dst

(* A message no branch recognises is a Fatal_Error.                        *)
ParseMessage(m, msg) ==
    CASE msg.type \in {"TIMED_OUT", "EMPTY"} -> "TimedOut"
      [] msg.type = "RTS" /\ ~FromPeer(m, msg) -> "RTS_Received"
      [] msg.type = "CTS" /\ FromPeer(m, msg) -> "CTS_Received"
      [] msg.type = "HOLD" /\ FromPeer(m, msg) -> "HOLD_Received"
      [] msg.type = "ACK" /\ FromPeer(m, msg) -> "ACK_Received"
      [] msg.type = "MESSAGE_CONNECTIONLESS" -> "ValidMsgConnectionless"
      [] msg.type \in {"RTS", "MESSAGE", "SYSCALL_INTERRUPTED"} /\ FromPeer(m, msg) -> "ValidMsg"
      [] OTHER -> "FatalError"

Exit(m) ==
    /\ call' = [call EXCEPT ![m] = "exited"]
    /\ outbox' = [outbox EXCEPT ![m] = EmptyMessage]
    /\ UNCHANGED <<automatonVars, options, sent, received, result>>

(* One round of the loops of send() and receive(): parse and process.      *)
Handle(m, msg) ==
    LET event == ParseMessage(m, msg) IN
    \/ event = "FatalError" /\ Exit(m)
    \/ /\ event # "FatalError"
       /\ ProcessEvent(m, event, msg, buffer[m])
       /\ UNCHANGED ownerVars

-----------------------------------------------------------------------------
(* The loops of send() and receive() wait in receiveImmediate.             *)

Waiting(m) ==
    /\ call[m] \in {"send", "receive"}
    /\ outbox[m] = EmptyMessage
    /\ ~TaskCompleted(m)

(* Mutant: the limit is lifted for good.                                   *)
ReceiveOptionsOverridden(m) == {"NORMAL"}

(* send() waits without a limit; receive() uses its argument until the     *)
(* automaton overrides it.                                                 *)
ReceiveOptions(m) ==
    IF call[m] = "send" \/ override[m] THEN {"NORMAL"} ELSE options[m]

ReceiveImmediate(m) ==
    /\ Waiting(m)
    /\ queue[m] # <<>>
    /\ queue' = [queue EXCEPT ![m] = Tail(@)]
    /\ Handle(m, Head(queue[m]))
    /\ UNCHANGED faultVars

(* ETIMEDOUT of the timed and EAGAIN of the nonblocking receive.           *)
NothingReceived(m) ==
    /\ Waiting(m)
    /\ queue[m] = <<>>
    /\ \/ "TIMED" \in ReceiveOptions(m) /\ Handle(m, Failure("TIMED_OUT"))
       \/ /\ "TIMED" \notin ReceiveOptions(m)
          /\ "NONBLOCKING" \in ReceiveOptions(m)
          /\ Handle(m, Failure("EMPTY"))
    /\ UNCHANGED <<queue, faultVars>>

(* Mutant: the newest message is taken first.                              *)
SendImmediateUrgent(m) ==
    LET msg == outbox[m] IN
    /\ msg # EmptyMessage
    /\ Len(queue[msg.dst]) < QueueSize
    /\ queue' = [queue EXCEPT ![msg.dst] = <<msg>> \o @]
    /\ outbox' = [outbox EXCEPT ![m] = EmptyMessage]
    /\ UNCHANGED <<automatonVars, ownerVars, faultVars>>

(* mq_send: the message enters the queue of its destination, or the caller *)
(* stays blocked while that queue is full.                                 *)
SendImmediate(m) ==
    LET msg == outbox[m] IN
    /\ msg # EmptyMessage
    /\ Len(queue[msg.dst]) < QueueSize
    /\ queue' = [queue EXCEPT ![msg.dst] = Append(@, msg)]
    /\ outbox' = [outbox EXCEPT ![m] = EmptyMessage]
    /\ UNCHANGED <<automatonVars, ownerVars, faultVars>>

-----------------------------------------------------------------------------
(* The API calls of the owner.                                             *)

SendConnectionless(m, d) ==
    LET msg == [type |-> "MESSAGE_CONNECTIONLESS", src |-> m, dst |-> d,
                id |-> sent[m] + 1] IN
    /\ Idle(m)
    /\ <<m, d>> \in Notices
    /\ sent[m] < MaxSends
    /\ sent' = [sent EXCEPT ![m] = @ + 1]
    /\ buffer' = [buffer EXCEPT ![m] = msg]
    /\ outbox' = [outbox EXCEPT ![m] = msg]
    /\ UNCHANGED <<queue, state, errorStatus, finished, waitingList, override,
                   call, options, received, result, faultVars>>

Send(m, d) ==
    LET msg == [type |-> "MESSAGE", src |-> m, dst |-> d, id |-> sent[m] + 1] IN
    /\ Idle(m)
    /\ <<m, d>> \in Links
    /\ sent[m] < MaxSends
    /\ sent' = [sent EXCEPT ![m] = @ + 1]
    /\ call' = [call EXCEPT ![m] = "send"]
    /\ ProcessEvent(m, "InitSending", msg, msg)
    /\ UNCHANGED <<queue, options, received, result, faultVars>>

(* The assignment of DONT_OVERRIDE on entry has no effect: the override is *)
(* off whenever no receive() is running (CallMatchesAutomaton).           *)
Receive(m, flags) ==
    LET event == IF "IGNORE_QUEUE" \in flags THEN "StartReceivingIgnoreQueue"
                                             ELSE "StartReceiving" IN
    /\ Idle(m)
    /\ m \in Listeners
    /\ call' = [call EXCEPT ![m] = "receive"]
    /\ options' = [options EXCEPT ![m] = flags]
    /\ ProcessEvent(m, event, EmptyMessage, buffer[m])
    /\ UNCHANGED <<queue, sent, received, result, faultVars>>

(* Mutant: the senders on hold are forgotten.                              *)
ResetEventQueueEmpty(m) == "ResetQueueEmpty"

ResetEvent(m) ==
    IF waitingList[m] = <<>> THEN "ResetQueueEmpty" ELSE "ResetQueueNotEmpty"

Completed(m, api) == call[m] = api /\ outbox[m] = EmptyMessage /\ TaskCompleted(m)

ReturnFromSend(m) ==
    /\ Completed(m, "send")
    /\ ProcessEvent(m, ResetEvent(m), EmptyMessage, buffer[m])
    /\ call' = [call EXCEPT ![m] = "idle"]
    /\ UNCHANGED <<queue, options, sent, received, result, faultVars>>

(* receive() hands out a copy of m_messageBuffer, whatever it holds.       *)
ReturnFromReceive(m) ==
    LET copy == buffer[m]
        released == [copy EXCEPT !.id = 0] IN
    /\ Completed(m, "receive")
    /\ result' = [result EXCEPT ![m] = copy.type]
    /\ received' = [received EXCEPT ![m] = IF copy.id = 0 THEN @ ELSE Append(@, copy)]
    /\ \/ Accept(m, ResetEvent(m), EmptyMessage, released)
       \/ /\ Reject(m, ResetEvent(m), released)
          /\ override' = [override EXCEPT ![m] = FALSE]
    /\ call' = [call EXCEPT ![m] = "idle"]
    /\ UNCHANGED <<queue, options, sent, faultVars>>

-----------------------------------------------------------------------------
(* Faults: a signal whose handler interrupts the system call m is blocked  *)
(* in, the death of a process, and its restart by the process manager.     *)

Interrupt(m) ==
    /\ signals < MaxSignals
    /\ signals' = signals + 1
    /\ \/ /\ Waiting(m)
          /\ queue[m] = <<>>
          /\ "TIMED" \in ReceiveOptions(m) \/ "NONBLOCKING" \notin ReceiveOptions(m)
          /\ Handle(m, Failure("SYSCALL_INTERRUPTED"))
       \/ /\ outbox[m] # EmptyMessage
          /\ Len(queue[outbox[m].dst]) = QueueSize
          /\ Exit(m)
    /\ UNCHANGED <<queue, crashes>>

Crash(m) ==
    /\ crashes < MaxCrashes
    /\ call[m] # "exited"
    /\ crashes' = crashes + 1
    /\ Exit(m)
    /\ UNCHANGED <<queue, signals>>

(* The constructor drains the queue a previous owner of the name left.     *)
Restart(m) ==
    /\ MaxCrashes > 0
    /\ call[m] = "exited"
    /\ call' = [call EXCEPT ![m] = "idle"]
    /\ queue' = [queue EXCEPT ![m] = <<>>]
    /\ state' = [state EXCEPT ![m] = "IdleQueueEmpty"]
    /\ errorStatus' = [errorStatus EXCEPT ![m] = "AUT_OK"]
    /\ finished' = [finished EXCEPT ![m] = FALSE]
    /\ buffer' = [buffer EXCEPT ![m] = EmptyMessage]
    /\ waitingList' = [waitingList EXCEPT ![m] = <<>>]
    /\ override' = [override EXCEPT ![m] = FALSE]
    /\ UNCHANGED <<outbox, options, sent, received, result, faultVars>>

-----------------------------------------------------------------------------
Init ==
    /\ queue = [m \in Mailboxes |-> <<>>]
    /\ state = [m \in Mailboxes |-> "IdleQueueEmpty"]
    /\ errorStatus = [m \in Mailboxes |-> "AUT_OK"]
    /\ finished = [m \in Mailboxes |-> FALSE]
    /\ buffer = [m \in Mailboxes |-> EmptyMessage]
    /\ waitingList = [m \in Mailboxes |-> <<>>]
    /\ override = [m \in Mailboxes |-> FALSE]
    /\ outbox = [m \in Mailboxes |-> EmptyMessage]
    /\ call = [m \in Mailboxes |-> "idle"]
    /\ options = [m \in Mailboxes |-> {"NORMAL"}]
    /\ sent = [m \in Mailboxes |-> 0]
    /\ received = [m \in Mailboxes |-> <<>>]
    /\ result = [m \in Mailboxes |-> "EMPTY"]
    /\ signals = 0
    /\ crashes = 0

(* What the thread inside an API call does next, without the owner's help. *)
Progress(m) ==
    \/ ReceiveImmediate(m)
    \/ NothingReceived(m)
    \/ SendImmediate(m)
    \/ ReturnFromSend(m)
    \/ ReturnFromReceive(m)

Listen(m) == \E flags \in Options : Receive(m, flags)

Owner(m) ==
    \/ \E d \in Mailboxes : Send(m, d) \/ SendConnectionless(m, d)
    \/ Listen(m)

Fault(m) == Interrupt(m) \/ Crash(m) \/ Restart(m)

Next == \E m \in Mailboxes : Progress(m) \/ Owner(m) \/ Fault(m)

(* A thread inside a call is scheduled again, and the main loops of the    *)
(* listening processes call receive() again; nobody has to send.           *)
Fairness == \A m \in Mailboxes : WF_vars(Progress(m)) /\ WF_vars(Listen(m))

Spec == Init /\ [][Next]_vars

FairSpec == Spec /\ Fairness

-----------------------------------------------------------------------------
TypeOK ==
    /\ queue \in [Mailboxes -> Seq(Message)]
    /\ state \in [Mailboxes -> States]
    /\ errorStatus \in [Mailboxes -> {"AUT_OK", "AUT_NEXT_STATE_NOK"}]
    /\ finished \in [Mailboxes -> BOOLEAN]
    /\ buffer \in [Mailboxes -> Message]
    /\ waitingList \in [Mailboxes -> Seq(Mailboxes \cup {NoName})]
    /\ override \in [Mailboxes -> BOOLEAN]
    /\ outbox \in [Mailboxes -> Message]
    /\ call \in [Mailboxes -> {"idle", "send", "receive", "exited"}]
    /\ options \in [Mailboxes -> SUBSET Flags]
    /\ sent \in [Mailboxes -> 0 .. MaxSends]
    /\ received \in [Mailboxes -> Seq(Message)]
    /\ result \in [Mailboxes -> Types]
    /\ signals \in 0 .. MaxSignals
    /\ crashes \in 0 .. MaxCrashes
=============================================================================
