----------------------------- MODULE DoorControl -----------------------------
(***************************************************************************)
(* The access decisions of the main application: the pair of automata      *)
(* MainAutomaton and KeypadAutomaton, the deadline timer of a request, and *)
(* the database gateway that answers.                                      *)
(*                                                                         *)
(* Two threads drive the keypad automaton without a lock: the main loop,   *)
(* with the messages of the hardware daemon and of the gateway, and the    *)
(* callback of the timer (SIGEV_THREAD).  MAutomat::processEvent looks a   *)
(* transition up, then assigns the state, then runs the action, so the     *)
(* steps of the two can interleave there.                                  *)
(*                                                                         *)
(* Messages travel by SimplifiedMailbox::send, which blocks.  The gateway  *)
(* is one loop of receive, process and send the reply: it takes the next   *)
(* request only after its reply was received.  A request sent to a gateway *)
(* that still owes a reply therefore collides with that reply.  As the run *)
(* system of Mailbox shows, the gateway's mailbox is then left with an     *)
(* error status that nobody clears, and send() returns to the main loop    *)
(* with its own mailbox in the same condition or, when the gateway had     *)
(* been told to HOLD, never returns.                                       *)
(***************************************************************************)
EXTENDS Naturals, Sequences

CONSTANTS
    Commands,     \* the requests the keypad is used for
    MaxMessages   \* bound: messages of the hardware daemon

(* The events of ADD, REMOVE and SET_CLNC are the same.                    *)
AdminCommands == {"ADD", "REMOVE", "SET_CLNC"}
GuestCommands == {"GUEST_ACCESS_ENABLE", "GUEST_ACCESS_DISABLE"}
AllCommands == AdminCommands \cup GuestCommands \cup {"AUTHENTICATE"}

ASSUME DoorControlAssumption ==
    /\ Commands \subseteq AllCommands
    /\ MaxMessages \in Nat

VARIABLES
    keypad,       \* m_iCurrentStateID of KeypadAutomaton
    main,         \* m_iCurrentStateID of MainAutomaton
    guestAccess,  \* m_bGuestAccessEnable
    timer,        \* m_deadlineTimer is armed
    thread,       \* what the main loop and the timer callback are executing
    gateway,      \* the number of the request the gateway processes, or 0
    wedged,       \* a request has collided with a reply
    asked,        \* the requests sent so far
    answers,      \* the replies received so far
    openings,     \* the replies the door was opened on
    cancelled,    \* the requests the user has cancelled
    timeouts,     \* the number of waits that have timed out
    messages,     \* the number of messages of the hardware daemon
    overlap       \* the two threads were inside the automata together

historyVars == <<asked, answers, openings, cancelled, timeouts, messages>>
vars == <<keypad, main, guestAccess, timer, thread, gateway, wedged,
          historyVars, overlap>>

-----------------------------------------------------------------------------
Waiting == {"WaitingDatabase_Request", "WaitingDatabase_Authorize",
            "WaitingDatabase_Authorize_GuestAccessEnable",
            "WaitingDatabase_Authorize_GuestAccessDisable"}

KeypadStates == Waiting \cup {"Idle"}

Failures == {"Error", "InvalidCommand", "InvalidParameter", "InsufficientPermissions"}

Requests == {"ReceivedRequest", "ReceiveAuthorizeRequest"}

Events == Failures \cup Requests \cup {"Success", "Success_Guest", "TimedOut",
             "GuestAccessEnable", "GuestAccessDisable", "Cancel", "Enter"}

(* Mutant: a cancelled wait is over.                                       *)
CancelRowsToIdle == {<<state, "Cancel", "Idle", "CancelAction">> : state \in Waiting}

(* Mutant: a cancelled wait goes on unchanged.                             *)
CancelRowsStay == {<<state, "Cancel", state, "CancelAction">> : state \in Waiting}

CancelRows ==
    {<<state, "Cancel", "WaitingDatabase_Request", "CancelAction">> : state \in Waiting}

(* A row is <<state, event, next state, action>>.  doSignalSuccess,        *)
(* doSignalTimeout and the doSignal functions of the failures change the   *)
(* same state: SignalResult.                                               *)
TransitionTable == CancelRows \cup
    {<<"Idle", "ReceivedRequest", "WaitingDatabase_Request", "SendRequestToDB">>,
     <<"Idle", "ReceiveAuthorizeRequest", "WaitingDatabase_Authorize", "SendRequestToDB">>,
     <<"Idle", "GuestAccessEnable",
       "WaitingDatabase_Authorize_GuestAccessEnable", "SendRequestToDB">>,
     <<"Idle", "GuestAccessDisable",
       "WaitingDatabase_Authorize_GuestAccessDisable", "SendRequestToDB">>,
     <<"Idle", "Cancel", "Idle", "Void">>,
     <<"WaitingDatabase_Request", "Success", "Idle", "SignalResult">>,
     <<"WaitingDatabase_Authorize", "Success", "Idle", "OpenDoors">>,
     <<"WaitingDatabase_Authorize", "Success_Guest", "Idle", "OpenDoorsIfAuthorized">>}
    \cup {<<state, event, "Idle", "SignalResult">> :
             state \in Waiting, event \in Failures \cup {"TimedOut"}}
    \cup {<<"WaitingDatabase_Authorize_GuestAccessEnable", event, "Idle",
            "EnableGuestAccess">> : event \in {"Success", "Success_Guest"}}
    \cup {<<"WaitingDatabase_Authorize_GuestAccessDisable", event, "Idle",
            "DisableGuestAccess">> : event \in {"Success", "Success_Guest"}}
    \cup {<<"WaitingDatabase_Request", event, "WaitingDatabase_Request",
            "SignalBusy">> : event \in Requests}
    \cup {<<state, event, "WaitingDatabase_Authorize", "SignalBusy">> :
             state \in Waiting \ {"WaitingDatabase_Request"}, event \in Requests}

Rows(event) == {row \in TransitionTable : row[1] = keypad /\ row[2] = event}

-----------------------------------------------------------------------------
(* From messages to events.                                                *)

KeypadMessages == Commands \cup {"Cancel", "Enter"}

KeypadEvent(command) ==
    CASE command \in AdminCommands -> "ReceivedRequest"
      [] command = "AUTHENTICATE" -> "ReceiveAuthorizeRequest"
      [] command = "GUEST_ACCESS_ENABLE" -> "GuestAccessEnable"
      [] command = "GUEST_ACCESS_DISABLE" -> "GuestAccessDisable"
      [] OTHER -> command

(* The replies of the gateway; a CLEARANCE is above, at or below that of a *)
(* guest, which is 0.                                                      *)
Clearances == {"CLEARANCE_EMPLOYEE", "CLEARANCE_GUEST", "CLEARANCE_NON_EMPLOYEE"}
Statuses == {"SUCCESS", "ERROR", "INVALID_PARAMETER", "INSUFFICIENT_PERMISSIONS"}

Replies(command) ==
    CASE command = "AUTHENTICATE" -> Clearances \cup {"INVALID_PARAMETER"}
      [] command \in GuestCommands -> Statuses \ {"ERROR"}
      [] OTHER -> Statuses

(* Mutant: a clearance is not preprocessed.                                *)
ReplyEventUnprocessed(reply) ==
    CASE reply \in {"SUCCESS"} -> "Success"
      [] reply \in Clearances -> "ReceivedClearanceFromDB"
      [] reply = "INSUFFICIENT_PERMISSIONS" -> "InsufficientPermissions"
      [] reply = "ERROR" -> "Error"
      [] OTHER -> "InvalidParameter"

ReplyEvent(reply) ==
    CASE reply \in {"SUCCESS", "CLEARANCE_EMPLOYEE"} -> "Success"
      [] reply = "CLEARANCE_GUEST" -> "Success_Guest"
      [] reply \in {"CLEARANCE_NON_EMPLOYEE", "INSUFFICIENT_PERMISSIONS"}
            -> "InsufficientPermissions"
      [] reply = "ERROR" -> "Error"
      [] OTHER -> "InvalidParameter"

-----------------------------------------------------------------------------
(* The threads.  A thread is at rest, or in processEvent of the keypad     *)
(* automaton: before the lookup ("event"), before the assignment of the    *)
(* state ("enter"), or in an action that still has to send, start or stop  *)
(* the timer, or tell MainAutomaton that it has finished.                  *)

Threads == {"mainLoop", "callback"}

Steps == {"rest", "event", "enter", "send", "start", "stop", "finish",
          "blocked", "aborted"}

Actions == {"Void", "SendRequestToDB", "SignalResult", "OpenDoors",
            "OpenDoorsIfAuthorized", "EnableGuestAccess", "DisableGuestAccess",
            "SignalBusy", "CancelAction"}

AtRest == [step |-> "rest", event |-> "Enter", content |-> "Enter",
           next |-> "Idle", action |-> "Void"]

Received(event, content) ==
    [step |-> "event", event |-> event, content |-> content,
     next |-> "Idle", action |-> "Void"]

Inside(th) == th.step \notin {"rest", "send", "blocked", "aborted"}

(* Thread t goes on as th.                                                 *)
Continue(t, th) ==
    /\ thread' = [thread EXCEPT ![t] = th]
    /\ overlap' = (overlap \/ \A u \in Threads : Inside(thread'[u]))

Proceed(t, step) == Continue(t, [thread[t] EXCEPT !.step = step])

Return(t) == Continue(t, AtRest)

Take(t, row) ==
    Continue(t, [thread[t] EXCEPT !.step = "enter", !.next = row[3], !.action = row[4]])

-----------------------------------------------------------------------------
(* The main loop receives.  MainAutomaton accepts a message of either      *)
(* sender in both of its states, becomes busy and forwards it.             *)

KeypadMessage(msg) ==
    /\ thread["mainLoop"].step = "rest"
    /\ ~wedged
    /\ messages < MaxMessages
    /\ messages' = messages + 1
    /\ main' = "Busy_KeypadRFID"
    /\ Continue("mainLoop", Received(KeypadEvent(msg), msg))
    /\ UNCHANGED <<keypad, guestAccess, timer, gateway, wedged, asked, answers,
                   openings, cancelled, timeouts>>

DatabaseReply(reply) ==
    /\ thread["mainLoop"].step = "rest"
    /\ ~wedged
    /\ gateway # 0
    /\ reply \in Replies(asked[gateway])
    /\ answers' = Append(answers, [request |-> gateway, reply |-> reply])
    /\ gateway' = 0
    /\ main' = "Busy_KeypadRFID"
    /\ Continue("mainLoop", Received(ReplyEvent(reply), reply))
    /\ UNCHANGED <<keypad, guestAccess, timer, wedged, asked, openings,
                   cancelled, timeouts, messages>>

(* The next receive() on the wedged mailbox hands out the request that was *)
(* to be sent.  Its source is the main application itself, so it becomes   *)
(* the null event, on which MAutomat::processEvent resets MainAutomaton.   *)
ReceiveEcho ==
    /\ thread["mainLoop"].step = "rest"
    /\ wedged
    /\ main = "Busy_KeypadRFID"
    /\ main' = "Idle"
    /\ UNCHANGED <<keypad, guestAccess, timer, thread, gateway, wedged,
                   historyVars, overlap>>

(* The timer fires.  Its callback is over before it can fire again.        *)
Expire ==
    /\ timer
    /\ thread["callback"].step = "rest"
    /\ timer' = FALSE
    /\ Continue("callback", Received("TimedOut", "Enter"))
    /\ UNCHANGED <<keypad, main, guestAccess, gateway, wedged, historyVars>>

-----------------------------------------------------------------------------
(* MAutomat::processEvent of the keypad automaton.                         *)

Lookup(t) ==
    /\ thread[t].step = "event"
    /\ LET rows == Rows(thread[t].event) IN
       \/ rows = {} /\ Return(t)
       \/ \E row \in rows : Take(t, row)
    /\ UNCHANGED <<keypad, main, guestAccess, timer, gateway, wedged, historyVars>>

(* Thread t is at the beginning of processEvent of an automaton.           *)
(* MainAutomaton is entered with a message that the main loop receives and *)
(* by either thread when the keypad automaton has finished.                *)
EntersKeypadAutomaton(t) == thread[t].step = "event"

EntersMainAutomaton(t) ==
    \/ thread[t].step = "finish"
    \/ /\ t = "mainLoop" /\ thread[t].step = "rest"
       /\ ~wedged
       /\ messages < MaxMessages \/ gateway # 0

(* Both threads begin in one automaton.  saveEvent deletes m_pCurrentEvent:*)
(* if both delete the same one, the second delete aborts the process.  Nor *)
(* is anything said of a process in which the id of one's event replaces   *)
(* that of the other before its lookup: the model ends here in either case.*)
Abort ==
    /\ \/ \A t \in Threads : EntersKeypadAutomaton(t)
       \/ \A t \in Threads : EntersMainAutomaton(t)
    /\ thread' = [t \in Threads |-> [thread[t] EXCEPT !.step = "aborted"]]
    /\ overlap' = TRUE
    /\ UNCHANGED <<keypad, main, guestAccess, timer, gateway, wedged, historyVars>>

(* The state is assigned and the action begins.                            *)
Enter(t) ==
    /\ thread[t].step = "enter"
    /\ keypad' = thread[t].next
    /\ timeouts' = timeouts + (IF thread[t].event = "TimedOut" THEN 1 ELSE 0)
    /\ UNCHANGED <<main, timer, gateway, wedged, answers, openings, messages>>

(* Mutant: a request that is turned away is reported as finished.          *)
DoNothingAndFinish(t) ==
    /\ thread[t].action \in {"Void", "SignalBusy"}
    /\ Enter(t)
    /\ Proceed(t, "finish")
    /\ UNCHANGED <<guestAccess, asked, cancelled>>

DoNothing(t) ==
    /\ thread[t].action \in {"Void", "SignalBusy"}
    /\ Enter(t)
    /\ Return(t)
    /\ UNCHANGED <<guestAccess, asked, cancelled>>

DoSendRequestToDB(t) ==
    /\ thread[t].action = "SendRequestToDB"
    /\ Enter(t)
    /\ asked' = Append(asked, thread[t].content)
    /\ Proceed(t, "send")
    /\ UNCHANGED <<guestAccess, cancelled>>

(* A guest that is denied leaves the timer running.                        *)
DoSignal(t) ==
    /\ thread[t].action \in {"SignalResult", "OpenDoors", "OpenDoorsIfAuthorized"}
    /\ Enter(t)
    /\ Proceed(t, IF thread[t].action = "OpenDoorsIfAuthorized" /\ ~guestAccess
                  THEN "finish" ELSE "stop")
    /\ UNCHANGED <<guestAccess, asked, cancelled>>

DoCancelAction(t) ==
    /\ thread[t].action = "CancelAction"
    /\ Enter(t)
    /\ cancelled' = cancelled \cup {Len(asked)}
    /\ Proceed(t, "finish")
    /\ UNCHANGED <<guestAccess, asked>>

DoSwitchGuestAccess(t) ==
    /\ thread[t].action \in {"EnableGuestAccess", "DisableGuestAccess"}
    /\ Enter(t)
    /\ guestAccess' = (thread[t].action = "EnableGuestAccess")
    /\ Proceed(t, "finish")
    /\ UNCHANGED <<asked, cancelled>>

(* DataMailbox::send: the gateway takes the request, or the request and    *)
(* the reply the gateway owes collide.                                     *)
Send(t) ==
    /\ thread[t].step = "send"
    /\ \/ /\ gateway = 0
          /\ gateway' = Len(asked)
          /\ Proceed(t, "start")
          /\ UNCHANGED wedged
       \/ /\ gateway # 0
          /\ wedged' = TRUE
          /\ Proceed(t, "start") \/ Proceed(t, "blocked")
          /\ UNCHANGED gateway
    /\ UNCHANGED <<keypad, main, guestAccess, timer, historyVars>>

(* Mutant: the timer is not armed.                                         *)
SkipTimer(t) ==
    /\ thread[t].step = "start"
    /\ Return(t)
    /\ UNCHANGED <<keypad, main, guestAccess, timer, gateway, wedged, historyVars>>

StartTimer(t) ==
    /\ thread[t].step = "start"
    /\ timer' = TRUE
    /\ Return(t)
    /\ UNCHANGED <<keypad, main, guestAccess, gateway, wedged, historyVars>>

(* The timer is stopped before the result is signalled and, where the      *)
(* action is to do so, the door is opened.                                 *)
StopTimer(t) ==
    /\ thread[t].step = "stop"
    /\ timer' = FALSE
    /\ openings' = IF thread[t].action = "SignalResult" THEN openings
                   ELSE Append(openings, Len(answers))
    /\ Proceed(t, "finish")
    /\ UNCHANGED <<keypad, main, guestAccess, gateway, wedged, asked, answers,
                   cancelled, timeouts, messages>>

(* MainAutomaton::processEvent(KeypadAutomatonFinished), called from       *)
(* within the action; an idle MainAutomaton has no transition for it.      *)
SignalFinish(t) ==
    /\ thread[t].step = "finish"
    /\ main' = "Idle"
    /\ Return(t)
    /\ UNCHANGED <<keypad, guestAccess, timer, gateway, wedged, historyVars>>

-----------------------------------------------------------------------------
Init ==
    /\ keypad = "Idle"
    /\ main = "Idle"
    /\ guestAccess = TRUE
    /\ timer = FALSE
    /\ thread = [t \in Threads |-> AtRest]
    /\ gateway = 0
    /\ wedged = FALSE
    /\ asked = <<>>
    /\ answers = <<>>
    /\ openings = <<>>
    /\ cancelled = {}
    /\ timeouts = 0
    /\ messages = 0
    /\ overlap = FALSE

ProcessEvent(t) ==
    \/ Lookup(t)
    \/ DoNothing(t)
    \/ DoSendRequestToDB(t)
    \/ DoSignal(t)
    \/ DoCancelAction(t)
    \/ DoSwitchGuestAccess(t)
    \/ Send(t)
    \/ StartTimer(t)
    \/ StopTimer(t)
    \/ SignalFinish(t)

Gateway == \E reply \in Clearances \cup Statuses : DatabaseReply(reply)

Next ==
    \/ \E msg \in KeypadMessages : KeypadMessage(msg)
    \/ Gateway
    \/ ReceiveEcho
    \/ Expire
    \/ Abort
    \/ \E t \in Threads : ProcessEvent(t)

(* Both threads are scheduled, an armed timer fires, and a reply that is   *)
(* on its way is received: the main loop calls receive() again and again   *)
(* and a message queue is read in order.                                   *)
Fairness ==
    /\ \A t \in Threads : WF_vars(ProcessEvent(t))
    /\ WF_vars(Expire)
    /\ WF_vars(Gateway)

Spec == Init /\ [][Next]_vars

FairSpec == Spec /\ Fairness

-----------------------------------------------------------------------------
Contents == KeypadMessages \cup Clearances \cup Statuses

ThreadStates == [step : Steps, event : Events, content : Contents,
                 next : KeypadStates, action : Actions]

TypeOK ==
    /\ keypad \in KeypadStates
    /\ main \in {"Idle", "Busy_KeypadRFID"}
    /\ guestAccess \in BOOLEAN
    /\ timer \in BOOLEAN
    /\ thread \in [Threads -> ThreadStates]
    /\ gateway \in 0 .. Len(asked)
    /\ wedged \in BOOLEAN
    /\ asked \in Seq(Commands)
    /\ answers \in Seq([request : 1 .. Len(asked), reply : Clearances \cup Statuses])
    /\ openings \in Seq(1 .. Len(answers))
    /\ cancelled \subseteq 1 .. Len(asked)
    /\ timeouts \in Nat
    /\ messages \in 0 .. MaxMessages
    /\ overlap \in BOOLEAN
=============================================================================
