---------------------------- MODULE MailboxProofs ----------------------------
(***************************************************************************)
(* Theorems about the mailbox protocol, for every set of mailboxes, every  *)
(* topology of links and every queue size.                                 *)
(*                                                                         *)
(* The inductive invariant joins three facts that need each other: typing  *)
(* needs a waiting list that is not empty when its front is taken, this    *)
(* needs the idle state to match the list, and the list matches after a    *)
(* call only because the call and its automaton agree on where they are.   *)
(***************************************************************************)
EXTENDS MailboxProps, TLAPS

Inv == TypeOK /\ IdleStateMatchesWaitingList /\ CallMatchesAutomaton

(* What processEvent changes, typed.                                       *)
AutomatonTypeOK ==
    /\ state \in [Mailboxes -> States]
    /\ errorStatus \in [Mailboxes -> {"AUT_OK", "AUT_NEXT_STATE_NOK"}]
    /\ finished \in [Mailboxes -> BOOLEAN]
    /\ buffer \in [Mailboxes -> Message]
    /\ waitingList \in [Mailboxes -> Seq(Mailboxes \cup {NoName})]
    /\ override \in [Mailboxes -> BOOLEAN]
    /\ outbox \in [Mailboxes -> Message]

-----------------------------------------------------------------------------
(* Messages that the code makes up are messages.                           *)
LEMMA MadeUpMessages ==
    /\ EmptyMessage \in Message
    /\ \A type \in Types : Failure(type) \in Message
    /\ \A m \in Mailboxes, d \in Mailboxes \cup {NoName}, type \in Types :
          Signal(m, d, type) \in Message
BY MailboxAssumption DEF EmptyMessage, Message, Failure, Signal, Types, Signals

(* The rows of the table lead from states to states, and end a task        *)
(* exactly when their action sets the finished flag.                       *)
LEMMA RowFacts ==
    \A row \in TransitionTable :
       /\ row[1] \in States /\ row[3] \in States
       /\ row[1] \in IdleStates => row[4] \notin {"SetFinishedFlag", "SaveMessage", "SendACK"}
       /\ (row[3] = "ActionSuccessfulyEnded" /\ row[1] # "ActionSuccessfulyEnded")
             <=> row[4] \in {"SetFinishedFlag", "SaveMessage", "SendACK"}
       /\ row[4] = "DequeueAndCTS" <=> row[1] = "IdleQueueNotEmpty" /\ row[2] = "StartReceiving"
       /\ row[4] = "ClearFinishedFlag" <=> row[3] \in IdleStates /\ row[2] # "RTS_Received"
       /\ row[4] = "ClearFinishedFlag" => row[1] = "ActionSuccessfulyEnded"
       /\ row[4] = "SendCTS" => row[1] = "WaitingRTS"
       /\ row[1] \in {"RTS_Sent", "HoldState", "WaitingACK"} => row[3] \in SendStates
       /\ row[1] \in {"WaitingRTS", "WaitingMSG"} => row[3] \in ReceiveStates
BY DEF TransitionTable, States, IdleStates, SendStates, ReceiveStates

-----------------------------------------------------------------------------
(* Reading a row: an event that is accepted follows a row of the table.    *)
LEMMA RowOfEvent ==
    ASSUME NEW m \in Mailboxes, NEW event, NEW row \in Rows(m, event)
    PROVE  row \in TransitionTable /\ row[1] = state[m] /\ row[2] = event
BY DEF Rows

(* Every action of the table keeps the types of what it assigns; taking    *)
(* the front of the waiting list does because the list is not empty.       *)
LEMMA PerformType ==
    ASSUME AutomatonTypeOK, NEW m \in Mailboxes, NEW action,
           NEW msg \in Message, NEW b \in Message,
           action = "DequeueAndCTS" => waitingList[m] # <<>>,
           Perform(action, m, msg, b)
    PROVE  /\ finished' \in [Mailboxes -> BOOLEAN]
           /\ buffer' \in [Mailboxes -> Message]
           /\ waitingList' \in [Mailboxes -> Seq(Mailboxes \cup {NoName})]
           /\ override' \in [Mailboxes -> BOOLEAN]
           /\ outbox' \in [Mailboxes -> Message]
<1>1. msg.src \in Mailboxes \cup {NoName} /\ msg.dst \in Mailboxes \cup {NoName}
  BY DEF Message
<1>2. \A d \in Mailboxes \cup {NoName} : [b EXCEPT !.dst = d] \in Message
  BY DEF Message
<1>3. \A d \in Mailboxes \cup {NoName}, type \in Signals : Signal(m, d, type) \in Message
  BY MadeUpMessages DEF Types
<1>4. EmptyMessage \in Message
  BY MadeUpMessages
<1>a. CASE action = "Void" /\ DoVoid(m, b)
  BY <1>a DEF DoVoid, AutomatonTypeOK
<1>b. CASE action = "ClearFinishedFlag" /\ DoClearFinishedFlag(m)
  BY <1>b, <1>4 DEF DoClearFinishedFlag, AutomatonTypeOK
<1>c. CASE action = "SetFinishedFlag" /\ DoSetFinishedFlag(m, b)
  BY <1>c DEF DoSetFinishedFlag, AutomatonTypeOK
<1>d. CASE action = "EnqueueAndHold" /\ DoEnqueueAndHold(m, msg, b)
  BY <1>d, <1>1, <1>3 DEF DoEnqueueAndHold, AutomatonTypeOK, Signals
<1>e. CASE action = "SendRTS" /\ DoSendRTS(m, msg)
  BY <1>e, <1>1, <1>3 DEF DoSendRTS, AutomatonTypeOK, Signals
<1>f. CASE action = "DequeueAndCTS" /\ DoDequeueAndCTS(m, b)
  <2>1. /\ Head(waitingList[m]) \in Mailboxes \cup {NoName}
        /\ Tail(waitingList[m]) \in Seq(Mailboxes \cup {NoName})
    BY <1>f DEF AutomatonTypeOK
  <2> QED  BY <1>f, <2>1, <1>2, <1>3 DEF DoDequeueAndCTS, AutomatonTypeOK, Signals
<1>g. CASE action = "SendMsg" /\ DoSendMsg(m, b)
  BY <1>g DEF DoSendMsg, AutomatonTypeOK
<1>h. CASE action = "SendCTS" /\ DoSendCTS(m, msg, b)
  BY <1>h, <1>1, <1>2, <1>3 DEF DoSendCTS, AutomatonTypeOK, Signals
<1>i. CASE action = "SendACK" /\ DoSendACK(m, msg)
  BY <1>i, <1>1, <1>3 DEF DoSendACK, AutomatonTypeOK, Signals
<1>j. CASE action = "SaveMessage" /\ DoSaveMessage(m, msg)
  BY <1>j DEF DoSaveMessage, AutomatonTypeOK
<1> QED
  BY <1>a, <1>b, <1>c, <1>d, <1>e, <1>f, <1>g, <1>h, <1>i, <1>j DEF Perform

LEMMA AcceptType ==
    ASSUME AutomatonTypeOK, IdleStateMatchesWaitingList,
           NEW m \in Mailboxes, NEW event, NEW msg \in Message, NEW b \in Message,
           Accept(m, event, msg, b)
    PROVE  AutomatonTypeOK'
<1>1. PICK row \in Rows(m, event) :
         /\ state' = [state EXCEPT ![m] = row[3]]
         /\ errorStatus' = [errorStatus EXCEPT ![m] = "AUT_OK"]
         /\ Perform(row[4], m, msg, b)
  BY DEF Accept
<1>2. row \in TransitionTable /\ row[1] = state[m]
  BY RowOfEvent
<1>3. row[3] \in States /\ (row[4] = "DequeueAndCTS" => waitingList[m] # <<>>)
  BY <1>2, RowFacts DEF IdleStateMatchesWaitingList
<1>4. /\ state' \in [Mailboxes -> States]
      /\ errorStatus' \in [Mailboxes -> {"AUT_OK", "AUT_NEXT_STATE_NOK"}]
  BY <1>1, <1>3 DEF AutomatonTypeOK
<1> QED
  BY <1>1, <1>3, <1>4, PerformType DEF AutomatonTypeOK

LEMMA RejectType ==
    ASSUME AutomatonTypeOK, NEW m \in Mailboxes, NEW event, NEW b \in Message,
           Reject(m, event, b), override' \in [Mailboxes -> BOOLEAN]
    PROVE  AutomatonTypeOK'
BY DEF Reject, AutomatonTypeOK

(* processEvent keeps the types of the automaton and of what it sends.     *)
LEMMA ProcessEventType ==
    ASSUME AutomatonTypeOK, IdleStateMatchesWaitingList,
           NEW m \in Mailboxes, NEW event, NEW msg \in Message, NEW b \in Message,
           ProcessEvent(m, event, msg, b)
    PROVE  AutomatonTypeOK'
BY AcceptType, RejectType DEF ProcessEvent, AutomatonTypeOK

-----------------------------------------------------------------------------
(* Only the mailbox that runs processEvent changes, and its waiting list   *)
(* only shrinks when a sender is cleared.                                  *)
LEMMA PerformFrame ==
    ASSUME AutomatonTypeOK, NEW m \in Mailboxes, NEW action,
           NEW msg \in Message, NEW b \in Message, Perform(action, m, msg, b)
    PROVE  /\ \A n \in Mailboxes \ {m} :
                 /\ finished'[n] = finished[n] /\ waitingList'[n] = waitingList[n]
                 /\ override'[n] = override[n]
           /\ finished'[m] = IF action = "ClearFinishedFlag" THEN FALSE
                             ELSE finished[m] \/ action \in {"SetFinishedFlag", "SaveMessage", "SendACK"}
           /\ override'[m] = IF action = "ClearFinishedFlag" THEN FALSE
                             ELSE override[m] \/ action = "SendCTS"
           /\ action \notin {"EnqueueAndHold", "DequeueAndCTS"}
                 => waitingList'[m] = waitingList[m]
<1> USE DEF AutomatonTypeOK
<1>a. CASE action = "Void" /\ DoVoid(m, b)
  BY <1>a DEF DoVoid
<1>b. CASE action = "ClearFinishedFlag" /\ DoClearFinishedFlag(m)
  BY <1>b DEF DoClearFinishedFlag
<1>c. CASE action = "SetFinishedFlag" /\ DoSetFinishedFlag(m, b)
  BY <1>c DEF DoSetFinishedFlag
<1>d. CASE action = "EnqueueAndHold" /\ DoEnqueueAndHold(m, msg, b)
  BY <1>d DEF DoEnqueueAndHold
<1>e. CASE action = "SendRTS" /\ DoSendRTS(m, msg)
  BY <1>e DEF DoSendRTS
<1>f. CASE action = "DequeueAndCTS" /\ DoDequeueAndCTS(m, b)
  BY <1>f DEF DoDequeueAndCTS
<1>g. CASE action = "SendMsg" /\ DoSendMsg(m, b)
  BY <1>g DEF DoSendMsg
<1>h. CASE action = "SendCTS" /\ DoSendCTS(m, msg, b)
  BY <1>h DEF DoSendCTS
<1>i. CASE action = "SendACK" /\ DoSendACK(m, msg)
  BY <1>i DEF DoSendACK
<1>j. CASE action = "SaveMessage" /\ DoSaveMessage(m, msg)
  BY <1>j DEF DoSaveMessage
<1> QED
  BY <1>a, <1>b, <1>c, <1>d, <1>e, <1>f, <1>g, <1>h, <1>i, <1>j DEF Perform

(* The part of the invariant that is about one mailbox.                    *)
Coherent(m) ==
    /\ state[m] = "IdleQueueNotEmpty" => waitingList[m] # <<>>
    /\ state[m] = "IdleQueueEmpty" => waitingList[m] = <<>>
    /\ finished[m] <=> state[m] = "ActionSuccessfulyEnded"
    /\ errorStatus[m] # "AUT_OK"
          => state[m] \notin IdleStates \cup {"ActionSuccessfulyEnded"}
    /\ call[m] = "idle" => state[m] \in IdleStates \/ errorStatus[m] # "AUT_OK"
    /\ call[m] = "send" => state[m] \in SendStates \/ errorStatus[m] # "AUT_OK"
    /\ call[m] = "receive" => state[m] \in ReceiveStates \/ errorStatus[m] # "AUT_OK"
    /\ override[m] => call[m] \in {"receive", "exited"}

LEMMA CoherentEverywhere ==
    IdleStateMatchesWaitingList /\ CallMatchesAutomaton <=> \A m \in Mailboxes : Coherent(m)
BY DEF IdleStateMatchesWaitingList, CallMatchesAutomaton, Coherent

LEMMA CoherentFrame ==
    ASSUME AutomatonTypeOK, NEW m \in Mailboxes, NEW n \in Mailboxes, Coherent(n),
           state'[n] = state[n], errorStatus'[n] = errorStatus[n],
           finished'[n] = finished[n], waitingList'[n] = waitingList[n],
           override'[n] = override[n],
           call'[n] = call[n] \/ call'[n] = "exited"
    PROVE  Coherent(n)'
BY DEF Coherent

(* A mailbox that does not run processEvent stays coherent.                *)
LEMMA ProcessEventFrame ==
    ASSUME AutomatonTypeOK, NEW m \in Mailboxes, NEW event,
           NEW msg \in Message, NEW b \in Message,
           ProcessEvent(m, event, msg, b)
    PROVE  \A n \in Mailboxes \ {m} :
             /\ state'[n] = state[n] /\ errorStatus'[n] = errorStatus[n]
             /\ finished'[n] = finished[n] /\ waitingList'[n] = waitingList[n]
             /\ override'[n] = override[n]
<1>1. CASE Accept(m, event, msg, b)
  <2>1. PICK row \in Rows(m, event) :
           /\ state' = [state EXCEPT ![m] = row[3]]
           /\ errorStatus' = [errorStatus EXCEPT ![m] = "AUT_OK"]
           /\ Perform(row[4], m, msg, b)
    BY <1>1 DEF Accept
  <2> QED  BY <2>1, PerformFrame DEF AutomatonTypeOK
<1>2. CASE Reject(m, event, b) /\ UNCHANGED override
  BY <1>2 DEF Reject, AutomatonTypeOK
<1> QED  BY <1>1, <1>2 DEF ProcessEvent

(* A round of the loops of send() and receive() keeps the call and its     *)
(* automaton together.                                                     *)
LEMMA RoundIsCoherent ==
    ASSUME AutomatonTypeOK, NEW m \in Mailboxes, Coherent(m), NEW event,
           NEW msg \in Message, NEW b \in Message,
           call[m] \in {"send", "receive"}, ~TaskCompleted(m),
           ProcessEvent(m, event, msg, b), call' = call
    PROVE  Coherent(m)'
<1>1. /\ errorStatus[m] = "AUT_OK" /\ ~finished[m]
      /\ call[m] = "send" => state[m] \in {"RTS_Sent", "HoldState", "WaitingACK"}
      /\ call[m] = "receive" => state[m] \in {"WaitingRTS", "WaitingMSG"}
  BY DEF TaskCompleted, Coherent, SendStates, ReceiveStates
<1>2. CASE Accept(m, event, msg, b)
  <2>1. PICK row \in Rows(m, event) :
           /\ state' = [state EXCEPT ![m] = row[3]]
           /\ errorStatus' = [errorStatus EXCEPT ![m] = "AUT_OK"]
           /\ Perform(row[4], m, msg, b)
    BY <1>2 DEF Accept
  <2>2. row \in TransitionTable /\ row[1] = state[m]
    BY RowOfEvent
  <2>3. /\ state'[m] = row[3] /\ errorStatus'[m] = "AUT_OK"
    BY <2>1 DEF AutomatonTypeOK
  <2>4. /\ state'[m] = "ActionSuccessfulyEnded"
              <=> row[4] \in {"SetFinishedFlag", "SaveMessage", "SendACK"}
        /\ row[4] # "ClearFinishedFlag"
        /\ row[4] = "SendCTS" => call[m] = "receive"
        /\ call[m] = "send" => state'[m] \in SendStates
        /\ call[m] = "receive" => state'[m] \in ReceiveStates
    BY <1>1, <2>2, <2>3, RowFacts
  <2>5. /\ finished'[m] <=> state'[m] = "ActionSuccessfulyEnded"
        /\ override'[m] => override[m] \/ row[4] = "SendCTS"
    BY <1>1, <2>1, <2>4, PerformFrame
  <2> QED  BY <2>3, <2>4, <2>5 DEF Coherent, SendStates, ReceiveStates, IdleStates
<1>3. CASE Reject(m, event, b) /\ UNCHANGED override
  BY <1>1, <1>3 DEF Reject, AutomatonTypeOK, Coherent, SendStates, ReceiveStates, IdleStates
<1> QED  BY <1>2, <1>3 DEF ProcessEvent

(* The first event of send() and of receive() finds an idle automaton, or  *)
(* one that was left behind and rejects it.                                *)
LEMMA StartIsCoherent ==
    ASSUME AutomatonTypeOK, NEW m \in Mailboxes, Coherent(m), call[m] = "idle",
           NEW api \in {"send", "receive"}, NEW event,
           event \in (IF api = "send" THEN {"InitSending"}
                      ELSE {"StartReceiving", "StartReceivingIgnoreQueue"}),
           NEW msg \in Message, NEW b \in Message,
           ProcessEvent(m, event, msg, b), call'[m] = api
    PROVE  Coherent(m)'
<1>1. ~override[m] /\ (state[m] \in IdleStates \/ errorStatus[m] # "AUT_OK")
  BY DEF Coherent
<1>2. CASE Accept(m, event, msg, b)
  <2>1. PICK row \in Rows(m, event) :
           /\ state' = [state EXCEPT ![m] = row[3]]
           /\ errorStatus' = [errorStatus EXCEPT ![m] = "AUT_OK"]
           /\ Perform(row[4], m, msg, b)
    BY <1>2 DEF Accept
  <2>2. row \in TransitionTable /\ row[1] = state[m] /\ row[2] = event
    BY RowOfEvent
  <2>3. /\ row[1] \in IdleStates
        /\ row[3] \in (IF api = "send" THEN {"RTS_Sent"} ELSE {"WaitingRTS", "WaitingMSG"})
        /\ row[4] \in {"Void", "SendRTS", "DequeueAndCTS"}
    BY <2>2 DEF TransitionTable, IdleStates
  <2>4. ~finished[m]
    BY <2>2, <2>3 DEF Coherent, IdleStates
  <2>5. ~finished'[m] /\ ~override'[m]
    BY <1>1, <2>1, <2>3, <2>4, PerformFrame
  <2>6. state'[m] = row[3] /\ errorStatus'[m] = "AUT_OK"
    BY <2>1 DEF AutomatonTypeOK
  <2> QED  BY <2>3, <2>5, <2>6 DEF Coherent, IdleStates, SendStates, ReceiveStates
<1>3. CASE Reject(m, event, b) /\ UNCHANGED override
  <2>1. state[m] \notin IdleStates
    <3> SUFFICES ASSUME state[m] \in IdleStates PROVE FALSE
      OBVIOUS
    <3>1. \E row \in TransitionTable : row[1] = state[m] /\ row[2] = event
      <4>1. /\ <<"IdleQueueEmpty", "StartReceiving", "WaitingRTS", "Void">> \in TransitionTable
            /\ <<"IdleQueueEmpty", "InitSending", "RTS_Sent", "SendRTS">> \in TransitionTable
            /\ <<"IdleQueueEmpty", "StartReceivingIgnoreQueue", "WaitingRTS", "Void">> \in TransitionTable
            /\ <<"IdleQueueNotEmpty", "InitSending", "RTS_Sent", "SendRTS">> \in TransitionTable
            /\ <<"IdleQueueNotEmpty", "StartReceiving", "WaitingMSG", "DequeueAndCTS">> \in TransitionTable
            /\ <<"IdleQueueNotEmpty", "StartReceivingIgnoreQueue", "WaitingRTS", "Void">> \in TransitionTable
        BY DEF TransitionTable
      <4> QED  BY <4>1 DEF IdleStates
    <3> QED  BY <1>3, <3>1 DEF Reject, Rows
  <2> QED  BY <1>1, <1>3, <2>1 DEF Reject, AutomatonTypeOK, Coherent
<1> QED  BY <1>2, <1>3 DEF ProcessEvent

(* The last event of a call, a reset, brings a finished automaton home to  *)
(* the idle state that matches its waiting list.                           *)
LEMMA ReturnIsCoherent ==
    ASSUME AutomatonTypeOK, NEW m \in Mailboxes, Coherent(m),
           call[m] \in {"send", "receive"}, TaskCompleted(m), call'[m] = "idle",
           NEW msg \in Message, NEW b \in Message,
           \/ Accept(m, ResetEvent(m), msg, b)
           \/ /\ Reject(m, ResetEvent(m), b)
              /\ \/ override' = [override EXCEPT ![m] = FALSE]
                 \/ call[m] = "send" /\ UNCHANGED override
    PROVE  Coherent(m)'
<1>1. CASE Accept(m, ResetEvent(m), msg, b)
  <2>1. PICK row \in Rows(m, ResetEvent(m)) :
           /\ state' = [state EXCEPT ![m] = row[3]]
           /\ errorStatus' = [errorStatus EXCEPT ![m] = "AUT_OK"]
           /\ Perform(row[4], m, msg, b)
    BY <1>1 DEF Accept
  <2>2. row \in TransitionTable /\ row[2] = ResetEvent(m)
    BY RowOfEvent
  <2>3. /\ row[3] = (IF waitingList[m] = <<>> THEN "IdleQueueEmpty" ELSE "IdleQueueNotEmpty")
        /\ row[4] = "ClearFinishedFlag"
    BY <2>2 DEF TransitionTable, ResetEvent
  <2>4. /\ state'[m] = row[3] /\ errorStatus'[m] = "AUT_OK"
        /\ ~finished'[m] /\ ~override'[m] /\ waitingList'[m] = waitingList[m]
    BY <2>1, <2>3, PerformFrame DEF AutomatonTypeOK
  <2> QED  BY <2>3, <2>4 DEF Coherent, IdleStates
<1>2. CASE Reject(m, ResetEvent(m), b)
  <2>1. state[m] # "ActionSuccessfulyEnded"
    <3>1. /\ <<"ActionSuccessfulyEnded", "ResetQueueEmpty", "IdleQueueEmpty", "ClearFinishedFlag">> \in TransitionTable
          /\ <<"ActionSuccessfulyEnded", "ResetQueueNotEmpty", "IdleQueueNotEmpty", "ClearFinishedFlag">> \in TransitionTable
      BY DEF TransitionTable
    <3> QED  BY <1>2, <3>1 DEF Reject, Rows, ResetEvent
  <2>2. errorStatus[m] # "AUT_OK" /\ state[m] \notin IdleStates
    BY <2>1 DEF TaskCompleted, Coherent
  <2>3. ~override'[m]
    BY <1>1, <1>2, <2>1 DEF Coherent, AutomatonTypeOK, Accept
  <2> QED  BY <1>2, <2>1, <2>2, <2>3 DEF Reject, AutomatonTypeOK, Coherent
<1> QED  BY <1>1, <1>2

-----------------------------------------------------------------------------
(* The invariant, one mailbox at a time.                                   *)
IInv == TypeOK /\ \A m \in Mailboxes : Coherent(m)

LEMMA InvSplit == Inv <=> IInv
BY CoherentEverywhere DEF Inv, IInv

LEMMA TypeOfAutomaton == TypeOK => AutomatonTypeOK
BY DEF TypeOK, AutomatonTypeOK

(* The actions below change one mailbox; the others stay coherent.         *)
LEMMA OthersCoherent ==
    ASSUME IInv, NEW m \in Mailboxes, Coherent(m)',
           \A n \in Mailboxes \ {m} :
             /\ state'[n] = state[n] /\ errorStatus'[n] = errorStatus[n]
             /\ finished'[n] = finished[n] /\ waitingList'[n] = waitingList[n]
             /\ override'[n] = override[n] /\ call'[n] = call[n]
    PROVE  \A n \in Mailboxes : Coherent(n)'
<1> SUFFICES ASSUME NEW n \in Mailboxes PROVE Coherent(n)'
  OBVIOUS
<1>1. CASE n = m
  BY <1>1
<1>2. CASE n # m
  BY <1>2, CoherentFrame, TypeOfAutomaton DEF IInv
<1> QED  BY <1>1, <1>2

LEMMA InitInv == Init => IInv
<1> SUFFICES ASSUME Init PROVE IInv
  OBVIOUS
<1>1. EmptyMessage \in Message
  BY MadeUpMessages
<1>2. TypeOK
  BY <1>1, MailboxAssumption DEF Init, TypeOK, States, Types, Flags
<1>3. ASSUME NEW m \in Mailboxes PROVE Coherent(m)
  BY DEF Init, Coherent, IdleStates
<1> QED  BY <1>2, <1>3 DEF IInv

LEMMA ExitInv ==
    ASSUME IInv, NEW m \in Mailboxes, Exit(m),
           queue' \in [Mailboxes -> Seq(Message)],
           signals' \in 0 .. MaxSignals, crashes' \in 0 .. MaxCrashes
    PROVE  IInv'
<1>1. TypeOK'
  BY MadeUpMessages DEF IInv, TypeOK, Exit, automatonVars
<1>2. ASSUME NEW n \in Mailboxes PROVE Coherent(n)'
  BY <1>1, CoherentFrame, TypeOfAutomaton DEF IInv, TypeOK, Exit, automatonVars, Coherent
<1> QED  BY <1>1, <1>2 DEF IInv

(* A round of a loop with a message taken from the queue or made up.       *)
LEMMA HandleInv ==
    ASSUME IInv, NEW m \in Mailboxes, NEW msg \in Message, Waiting(m), Handle(m, msg),
           queue' \in [Mailboxes -> Seq(Message)],
           signals' \in 0 .. MaxSignals, crashes' \in 0 .. MaxCrashes
    PROVE  IInv'
<1>1. CASE Exit(m)
  BY <1>1, ExitInv
<1>2. CASE ProcessEvent(m, ParseMessage(m, msg), msg, buffer[m]) /\ UNCHANGED ownerVars
  <2>1. AutomatonTypeOK /\ IdleStateMatchesWaitingList /\ buffer[m] \in Message /\ Coherent(m)
    BY TypeOfAutomaton, CoherentEverywhere, InvSplit DEF IInv, Inv, TypeOK
  <2>2. TypeOK'
    BY <1>2, <2>1, ProcessEventType DEF IInv, TypeOK, AutomatonTypeOK, ownerVars
  <2>3. Coherent(m)'
    BY <1>2, <2>1, RoundIsCoherent DEF Waiting, ownerVars
  <2>4. \A n \in Mailboxes : Coherent(n)'
    BY <1>2, <2>1, <2>3, ProcessEventFrame, OthersCoherent DEF ownerVars
  <2> QED  BY <2>2, <2>4 DEF IInv
<1> QED  BY <1>1, <1>2 DEF Handle

LEMMA ReceiveImmediateInv ==
    ASSUME IInv, NEW m \in Mailboxes, ReceiveImmediate(m)
    PROVE  IInv'
<1>1. Head(queue[m]) \in Message /\ Tail(queue[m]) \in Seq(Message)
  BY DEF IInv, TypeOK, ReceiveImmediate
<1>2. /\ queue' \in [Mailboxes -> Seq(Message)]
      /\ signals' \in 0 .. MaxSignals /\ crashes' \in 0 .. MaxCrashes
  BY <1>1 DEF IInv, TypeOK, ReceiveImmediate, faultVars
<1> QED  BY <1>1, <1>2, HandleInv DEF ReceiveImmediate

LEMMA NothingReceivedInv ==
    ASSUME IInv, NEW m \in Mailboxes, NothingReceived(m)
    PROVE  IInv'
<1>1. Failure("TIMED_OUT") \in Message /\ Failure("EMPTY") \in Message
  BY MadeUpMessages DEF Types
<1>2. /\ queue' \in [Mailboxes -> Seq(Message)]
      /\ signals' \in 0 .. MaxSignals /\ crashes' \in 0 .. MaxCrashes
  BY DEF IInv, TypeOK, NothingReceived, faultVars
<1> QED  BY <1>1, <1>2, HandleInv DEF NothingReceived

LEMMA SendImmediateInv ==
    ASSUME IInv, NEW m \in Mailboxes, SendImmediate(m)
    PROVE  IInv'
<1>1. outbox[m] \in Message
  BY DEF IInv, TypeOK
<1>2. queue' \in [Mailboxes -> Seq(Message)]
  <2>1. PICK d : queue' = [queue EXCEPT ![d] = Append(queue[d], outbox[m])]
    BY DEF SendImmediate
  <2>2. queue \in [Mailboxes -> Seq(Message)]
    BY DEF IInv, TypeOK
  <2>3. CASE d \in Mailboxes
    <3>1. Append(queue[d], outbox[m]) \in Seq(Message)
      BY <1>1, <2>2, <2>3
    <3> QED  BY <2>1, <2>2, <3>1
  <2>4. CASE d \notin Mailboxes
    BY <2>1, <2>2, <2>4
  <2> QED  BY <2>3, <2>4
<1>3. TypeOK'
  BY <1>2, MadeUpMessages DEF IInv, TypeOK, SendImmediate, automatonVars, ownerVars, faultVars
<1>4. ASSUME NEW n \in Mailboxes PROVE Coherent(n)'
  BY CoherentFrame, TypeOfAutomaton DEF IInv, SendImmediate, automatonVars, ownerVars
<1> QED  BY <1>3, <1>4 DEF IInv

LEMMA SendConnectionlessInv ==
    ASSUME IInv, NEW m \in Mailboxes, NEW d \in Mailboxes, SendConnectionless(m, d)
    PROVE  IInv'
<1>1. sent[m] + 1 \in 0 .. MaxSends
  BY MailboxAssumption DEF IInv, TypeOK, SendConnectionless
<1>2. [type |-> "MESSAGE_CONNECTIONLESS", src |-> m, dst |-> d, id |-> sent[m] + 1] \in Message
  BY <1>1 DEF Message, Types
<1>3. TypeOK'
  BY <1>1, <1>2 DEF IInv, TypeOK, SendConnectionless, faultVars
<1>4. ASSUME NEW n \in Mailboxes PROVE Coherent(n)'
  BY CoherentFrame, TypeOfAutomaton DEF IInv, SendConnectionless
<1> QED  BY <1>3, <1>4 DEF IInv

LEMMA SendInv ==
    ASSUME IInv, NEW m \in Mailboxes, NEW d \in Mailboxes, Send(m, d)
    PROVE  IInv'
<1> DEFINE msg == [type |-> "MESSAGE", src |-> m, dst |-> d, id |-> sent[m] + 1]
<1>1. sent[m] + 1 \in 0 .. MaxSends
  BY MailboxAssumption DEF IInv, TypeOK, Send
<1>2. msg \in Message
  BY <1>1 DEF Message, Types
<1>3. ProcessEvent(m, "InitSending", msg, msg) /\ call[m] = "idle"
  BY DEF Send, Idle
<1> HIDE DEF msg
<1>4. AutomatonTypeOK /\ IdleStateMatchesWaitingList /\ Coherent(m)
  BY TypeOfAutomaton, InvSplit DEF IInv, Inv
<1>5. TypeOK'
  BY <1>1, <1>2, <1>3, <1>4, ProcessEventType DEF IInv, TypeOK, AutomatonTypeOK, Send, faultVars
<1>6. call'[m] = "send" /\ \A n \in Mailboxes \ {m} : call'[n] = call[n]
  BY DEF IInv, TypeOK, Send
<1>7. Coherent(m)'
  BY <1>2, <1>3, <1>4, <1>6, StartIsCoherent
<1>8. \A n \in Mailboxes : Coherent(n)'
  BY <1>2, <1>3, <1>4, <1>6, <1>7, ProcessEventFrame, OthersCoherent
<1> QED  BY <1>5, <1>8 DEF IInv

LEMMA ReceiveInv ==
    ASSUME IInv, NEW m \in Mailboxes, NEW flags \in Options, Receive(m, flags)
    PROVE  IInv'
<1> DEFINE event == IF "IGNORE_QUEUE" \in flags THEN "StartReceivingIgnoreQueue"
                                                ELSE "StartReceiving"
<1>1. flags \in SUBSET Flags
  BY MailboxAssumption
<1>2. ProcessEvent(m, event, EmptyMessage, buffer[m]) /\ call[m] = "idle"
  BY DEF Receive, Idle
<1>3. event \in {"StartReceiving", "StartReceivingIgnoreQueue"}
  OBVIOUS
<1> HIDE DEF event
<1>4. /\ AutomatonTypeOK /\ IdleStateMatchesWaitingList /\ Coherent(m)
      /\ EmptyMessage \in Message /\ buffer[m] \in Message
  BY TypeOfAutomaton, InvSplit, MadeUpMessages DEF IInv, Inv, TypeOK
<1>5. TypeOK'
  BY <1>1, <1>2, <1>4, ProcessEventType DEF IInv, TypeOK, AutomatonTypeOK, Receive, faultVars
<1>6. call'[m] = "receive" /\ \A n \in Mailboxes \ {m} : call'[n] = call[n]
  BY DEF IInv, TypeOK, Receive
<1>7. Coherent(m)'
  BY <1>2, <1>3, <1>4, <1>6, StartIsCoherent
<1>8. \A n \in Mailboxes : Coherent(n)'
  BY <1>2, <1>4, <1>6, <1>7, ProcessEventFrame, OthersCoherent
<1> QED  BY <1>5, <1>8 DEF IInv

LEMMA ReturnFromSendInv ==
    ASSUME IInv, NEW m \in Mailboxes, ReturnFromSend(m)
    PROVE  IInv'
<1>1. /\ ProcessEvent(m, ResetEvent(m), EmptyMessage, buffer[m])
      /\ call[m] = "send" /\ TaskCompleted(m)
  BY DEF ReturnFromSend, Completed
<1>2. /\ AutomatonTypeOK /\ IdleStateMatchesWaitingList /\ Coherent(m)
      /\ EmptyMessage \in Message /\ buffer[m] \in Message
  BY TypeOfAutomaton, InvSplit, MadeUpMessages DEF IInv, Inv, TypeOK
<1>3. TypeOK'
  BY <1>1, <1>2, ProcessEventType DEF IInv, TypeOK, AutomatonTypeOK, ReturnFromSend, faultVars
<1>4. call'[m] = "idle" /\ \A n \in Mailboxes \ {m} : call'[n] = call[n]
  BY DEF IInv, TypeOK, ReturnFromSend
<1>5. Coherent(m)'
  BY <1>1, <1>2, <1>4, ReturnIsCoherent DEF ProcessEvent
<1>6. \A n \in Mailboxes : Coherent(n)'
  BY <1>1, <1>2, <1>4, <1>5, ProcessEventFrame, OthersCoherent
<1> QED  BY <1>3, <1>6 DEF IInv

(* receive() ends like send(), with the copy of the buffer handed out and  *)
(* the override of the time limit taken back.                              *)
LEMMA ReturnFromReceiveInv ==
    ASSUME IInv, NEW m \in Mailboxes, ReturnFromReceive(m)
    PROVE  IInv'
<1> DEFINE released == [buffer[m] EXCEPT !.id = 0]
<1>1. buffer[m] \in Message /\ EmptyMessage \in Message
  BY MadeUpMessages DEF IInv, TypeOK
<1>2. released \in Message
  BY <1>1, MailboxAssumption DEF Message
<1>3. /\ call[m] = "receive" /\ TaskCompleted(m)
      /\ \/ Accept(m, ResetEvent(m), EmptyMessage, released)
         \/ /\ Reject(m, ResetEvent(m), released)
            /\ override' = [override EXCEPT ![m] = FALSE]
  BY DEF ReturnFromReceive, Completed
<1> HIDE DEF released
<1>4. AutomatonTypeOK /\ IdleStateMatchesWaitingList /\ Coherent(m)
  BY TypeOfAutomaton, InvSplit DEF IInv, Inv
<1>5. AutomatonTypeOK'
  BY <1>1, <1>2, <1>3, <1>4, AcceptType, RejectType DEF AutomatonTypeOK
<1>6. /\ received' \in [Mailboxes -> Seq(Message)]
      /\ result' \in [Mailboxes -> Types]
  <2>1. /\ received \in [Mailboxes -> Seq(Message)] /\ result \in [Mailboxes -> Types]
        /\ buffer[m].type \in Types
    BY <1>1 DEF IInv, TypeOK, Message
  <2>2. /\ received' = [received EXCEPT ![m] = IF buffer[m].id = 0 THEN received[m]
                                                ELSE Append(received[m], buffer[m])]
        /\ result' = [result EXCEPT ![m] = buffer[m].type]
    BY DEF ReturnFromReceive
  <2>3. Append(received[m], buffer[m]) \in Seq(Message)
    BY <1>1, <2>1
  <2> QED  BY <2>1, <2>2, <2>3
<1>7. TypeOK'
  BY <1>5, <1>6 DEF IInv, TypeOK, AutomatonTypeOK, ReturnFromReceive, faultVars
<1>8. call'[m] = "idle" /\ \A n \in Mailboxes \ {m} : call'[n] = call[n]
  BY DEF IInv, TypeOK, ReturnFromReceive
<1>9. Coherent(m)'
  <2>1. CASE Accept(m, ResetEvent(m), EmptyMessage, released)
    BY <1>1, <1>2, <1>3, <1>4, <1>8, <2>1, ReturnIsCoherent
  <2>2. CASE Reject(m, ResetEvent(m), released) /\ override' = [override EXCEPT ![m] = FALSE]
    BY <1>1, <1>2, <1>3, <1>4, <1>8, <2>2, ReturnIsCoherent
  <2> QED  BY <1>3, <2>1, <2>2
<1>10. \A n \in Mailboxes \ {m} :
          /\ state'[n] = state[n] /\ errorStatus'[n] = errorStatus[n]
          /\ finished'[n] = finished[n] /\ waitingList'[n] = waitingList[n]
          /\ override'[n] = override[n]
  <2>1. CASE Accept(m, ResetEvent(m), EmptyMessage, released)
    BY <1>1, <1>2, <1>4, <2>1, ProcessEventFrame DEF ProcessEvent
  <2>2. CASE Reject(m, ResetEvent(m), released) /\ override' = [override EXCEPT ![m] = FALSE]
    BY <1>4, <2>2 DEF Reject, AutomatonTypeOK
  <2> QED  BY <1>3, <2>1, <2>2
<1>11. \A n \in Mailboxes : Coherent(n)'
  BY <1>8, <1>9, <1>10, OthersCoherent
<1> QED  BY <1>7, <1>11 DEF IInv

LEMMA FaultInv ==
    ASSUME IInv, NEW m \in Mailboxes, Fault(m)
    PROVE  IInv'
<1>1. CASE Interrupt(m)
  <2>1. /\ queue' \in [Mailboxes -> Seq(Message)]
        /\ signals' \in 0 .. MaxSignals /\ crashes' \in 0 .. MaxCrashes
    BY <1>1, MailboxAssumption DEF IInv, TypeOK, Interrupt
  <2>2. Failure("SYSCALL_INTERRUPTED") \in Message
    BY MadeUpMessages DEF Types
  <2> QED  BY <1>1, <2>1, <2>2, HandleInv, ExitInv DEF Interrupt
<1>2. CASE Crash(m)
  <2>1. /\ queue' \in [Mailboxes -> Seq(Message)]
        /\ signals' \in 0 .. MaxSignals /\ crashes' \in 0 .. MaxCrashes
    BY <1>2, MailboxAssumption DEF IInv, TypeOK, Crash
  <2> QED  BY <1>2, <2>1, ExitInv DEF Crash
<1>3. CASE Restart(m)
  <2>1. TypeOK'
    BY <1>3, MadeUpMessages DEF IInv, TypeOK, Restart, faultVars, States
  <2>2. Coherent(m)'
    BY <1>3 DEF IInv, TypeOK, Restart, Coherent, IdleStates
  <2>3. \A n \in Mailboxes : Coherent(n)'
    BY <1>3, <2>2, OthersCoherent DEF IInv, TypeOK, Restart
  <2> QED  BY <2>1, <2>3 DEF IInv
<1> QED  BY <1>1, <1>2, <1>3 DEF Fault

LEMMA StutterInv == IInv /\ UNCHANGED vars => IInv'
BY DEF IInv, TypeOK, Coherent, vars, automatonVars, ownerVars, faultVars

LEMMA NextInv == IInv /\ [Next]_vars => IInv'
<1> SUFFICES ASSUME IInv, [Next]_vars PROVE IInv'
  OBVIOUS
<1>1. ASSUME NEW m \in Mailboxes, Progress(m) PROVE IInv'
  BY <1>1, ReceiveImmediateInv, NothingReceivedInv, SendImmediateInv,
     ReturnFromSendInv, ReturnFromReceiveInv DEF Progress
<1>2. ASSUME NEW m \in Mailboxes, Owner(m) PROVE IInv'
  BY <1>2, SendInv, SendConnectionlessInv, ReceiveInv DEF Owner, Listen
<1>3. ASSUME NEW m \in Mailboxes, Fault(m) PROVE IInv'
  BY <1>3, FaultInv
<1>4. CASE UNCHANGED vars
  BY <1>4, StutterInv
<1> QED  BY <1>1, <1>2, <1>3, <1>4 DEF Next

-----------------------------------------------------------------------------
(* The invariant holds for every topology, with signals, crashes and       *)
(* restarts: the variables keep their types, an idle automaton is in the   *)
(* state that matches its waiting list, and call and automaton agree.      *)
THEOREM MailboxInvariant == Spec => []Inv
<1>1. Spec => []IInv
  BY InitInv, NextInv, PTL DEF Spec
<1> QED  BY <1>1, InvSplit, PTL

(* The variables of the mailboxes keep their types.                        *)
THEOREM MailboxTypeCorrect == Spec => []TypeOK
<1>1. Inv => TypeOK
  BY DEF Inv
<1> QED  BY <1>1, MailboxInvariant, PTL

(* std::queue::front() is never called on an empty waiting list, and no    *)
(* mailbox goes idle in the wrong one of its two idle states.              *)
THEOREM WaitingListSafe == Spec => []IdleStateMatchesWaitingList
<1>1. Inv => IdleStateMatchesWaitingList
  BY DEF Inv
<1> QED  BY <1>1, MailboxInvariant, PTL

(* A call and the automaton it drives agree, or the automaton was left     *)
(* behind with its error status raised.                                    *)
THEOREM CallAndAutomatonAgree == Spec => []CallMatchesAutomaton
<1>1. Inv => CallMatchesAutomaton
  BY DEF Inv
<1> QED  BY <1>1, MailboxInvariant, PTL

-----------------------------------------------------------------------------
(* No row leads out of a state in the middle of a handshake on the events  *)
(* that the API calls begin and end with.                                  *)
LEMMA NoWayOut ==
    ASSUME AutomatonTypeOK, NEW m \in Mailboxes, Coherent(m), errorStatus[m] # "AUT_OK",
           NEW event \in {"InitSending", "StartReceiving", "StartReceivingIgnoreQueue",
                         "ResetQueueEmpty", "ResetQueueNotEmpty"}
    PROVE  Rows(m, event) = {}
<1>1. state[m] \notin IdleStates \cup {"ActionSuccessfulyEnded"}
  BY DEF Coherent
<1>2. \A row \in TransitionTable :
         row[2] = event => row[1] \in IdleStates \cup {"ActionSuccessfulyEnded"}
  BY DEF TransitionTable, IdleStates
<1> QED  BY <1>1, <1>2 DEF Rows

LEMMA RejectKeeps ==
    ASSUME AutomatonTypeOK, NEW m \in Mailboxes, NEW event, NEW b, Reject(m, event, b)
    PROVE  errorStatus'[m] = "AUT_NEXT_STATE_NOK" /\ state' = state
BY DEF Reject, AutomatonTypeOK

LEMMA ExitKeeps ==
    ASSUME NEW m \in Mailboxes, NEW w \in Mailboxes, Exit(m)
    PROVE  errorStatus' = errorStatus /\ state' = state
BY DEF Exit, automatonVars

(* One step of m, seen from a wedged mailbox w.                            *)
LEMMA WedgedStep ==
    ASSUME IInv, NEW w \in Mailboxes, call[w] # "exited", errorStatus[w] # "AUT_OK",
           NEW m \in Mailboxes, Progress(m) \/ Owner(m) \/ Fault(m)
    PROVE  errorStatus'[w] = errorStatus[w] /\ state'[w] = state[w]
<1> DEFINE Same == errorStatus'[w] = errorStatus[w] /\ state'[w] = state[w]
<1>1. /\ AutomatonTypeOK /\ IdleStateMatchesWaitingList /\ Coherent(w) /\ buffer[m] \in Message
      /\ EmptyMessage \in Message /\ errorStatus[w] = "AUT_NEXT_STATE_NOK"
      /\ \A k \in {"TIMED_OUT", "EMPTY", "SYSCALL_INTERRUPTED"} : Failure(k) \in Message
  BY TypeOfAutomaton, InvSplit, MadeUpMessages DEF IInv, Inv, TypeOK, Types
<1>2. ASSUME NEW event \in {"InitSending", "StartReceiving", "StartReceivingIgnoreQueue",
                           "ResetQueueEmpty", "ResetQueueNotEmpty"},
             NEW msg \in Message, NEW b \in Message,
             Accept(m, event, msg, b) \/ Reject(m, event, b)
      PROVE  Same
  <2>1. CASE m # w /\ Accept(m, event, msg, b)
    BY <1>1, <2>1, ProcessEventFrame DEF ProcessEvent
  <2>2. CASE m # w /\ Reject(m, event, b)
    BY <1>1, <2>2 DEF Reject, AutomatonTypeOK
  <2>3. CASE m = w
    <3>1. ~Accept(m, event, msg, b)
      BY <1>1, <2>3, NoWayOut DEF Accept
    <3> QED  BY <1>1, <1>2, <2>3, <3>1, RejectKeeps
  <2> QED  BY <1>2, <2>1, <2>2, <2>3
<1>3. ASSUME NEW msg \in Message, Waiting(m), Handle(m, msg) PROVE Same
  <2>1. CASE Exit(m)
    BY <2>1, ExitKeeps
  <2>2. CASE ProcessEvent(m, ParseMessage(m, msg), msg, buffer[m])
    <3>1. m # w
      BY <1>1, <1>3 DEF Waiting, TaskCompleted
    <3> QED  BY <1>1, <2>2, <3>1, ProcessEventFrame
  <2> QED  BY <1>3, <2>1, <2>2 DEF Handle
<1>4. CASE ReceiveImmediate(m)
  <2>1. Head(queue[m]) \in Message
    BY <1>4 DEF IInv, TypeOK, ReceiveImmediate
  <2> QED  BY <1>3, <1>4, <2>1 DEF ReceiveImmediate
<1>5. CASE NothingReceived(m)
  BY <1>1, <1>3, <1>5 DEF NothingReceived
<1>6. CASE SendImmediate(m)
  BY <1>6 DEF SendImmediate, automatonVars
<1>7. CASE ReturnFromSend(m)
  BY <1>1, <1>2, <1>7 DEF ReturnFromSend, ProcessEvent, ResetEvent
<1>8. CASE ReturnFromReceive(m)
  <2>1. [buffer[m] EXCEPT !.id = 0] \in Message
    BY <1>1, MailboxAssumption DEF Message
  <2>2. ResetEvent(m) \in {"ResetQueueEmpty", "ResetQueueNotEmpty"}
    BY DEF ResetEvent
  <2> QED  BY <1>1, <1>2, <1>8, <2>1, <2>2 DEF ReturnFromReceive
<1>9. CASE Owner(m)
  <2>1. ASSUME NEW d \in Mailboxes, Send(m, d) PROVE Same
    <3>1. sent[m] + 1 \in 0 .. MaxSends
      BY <2>1, MailboxAssumption DEF IInv, TypeOK, Send
    <3>2. [type |-> "MESSAGE", src |-> m, dst |-> d, id |-> sent[m] + 1] \in Message
      BY <3>1 DEF Message, Types
    <3> QED  BY <1>2, <2>1, <3>2 DEF Send, ProcessEvent
  <2>2. ASSUME NEW d \in Mailboxes, SendConnectionless(m, d) PROVE Same
    BY <2>2 DEF SendConnectionless
  <2>3. ASSUME NEW flags \in Options, Receive(m, flags) PROVE Same
    BY <1>1, <1>2, <2>3 DEF Receive, ProcessEvent
  <2> QED  BY <1>9, <2>1, <2>2, <2>3 DEF Owner, Listen
<1>10. CASE Interrupt(m)
  BY <1>1, <1>3, <1>10, ExitKeeps DEF Interrupt
<1>11. CASE Crash(m)
  BY <1>11, ExitKeeps DEF Crash
<1>12. CASE Restart(m)
  <2>1. m # w
    BY <1>12 DEF Restart
  <2> QED  BY <1>1, <1>12, <2>1 DEF Restart, AutomatonTypeOK
<1> QED
  BY <1>4, <1>5, <1>6, <1>7, <1>8, <1>9, <1>10, <1>11, <1>12 DEF Progress, Fault

(* A mailbox whose automaton has rejected an event is out of order for as  *)
(* long as its process lives, in every topology and under every fault.     *)
THEOREM WedgedForever == Spec => WedgeIsPermanent
<1>1. IInv /\ [Next]_vars
        => [\A m \in Mailboxes :
              call[m] # "exited" /\ errorStatus[m] # "AUT_OK"
                 => errorStatus'[m] = errorStatus[m] /\ state'[m] = state[m]]_vars
  BY WedgedStep DEF Next
<1>2. Spec => []IInv
  BY InitInv, NextInv, PTL DEF Spec
<1> QED  BY <1>1, <1>2, PTL DEF Spec, WedgeIsPermanent
=============================================================================
