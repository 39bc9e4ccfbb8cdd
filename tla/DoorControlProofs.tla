-------------------------- MODULE DoorControlProofs --------------------------
(***************************************************************************)
(* Theorems about the access decisions, for every set of commands and any  *)
(* number of messages, with the two threads interleaved in every way.      *)
(***************************************************************************)
EXTENDS DoorControlProps, TLAPS

(* The threads.  The callback only ever processes a timeout.  In the main  *)
(* loop the transition that is being carried out comes from the table and  *)
(* from the message that was received.                                     *)
CallbackOK ==
    LET th == thread["callback"] IN
    /\ th.step \in {"rest", "event", "enter", "stop", "finish", "aborted"}
    /\ th.step \in {"event", "enter"} => th.event = "TimedOut"
    /\ th.step \in {"enter", "stop", "finish"}
          => th.action = "SignalResult" /\ th.next = "Idle"

UserEvents == Requests \cup {"GuestAccessEnable", "GuestAccessDisable", "Cancel", "Enter"}

(* The main loop is handling a reply, and it is the one to the last        *)
(* request.                                                                *)
OnReply ==
    /\ answers # <<>>
    /\ answers[Len(answers)].request = Len(asked)
    /\ answers[Len(answers)].reply \in Replies(asked[Len(asked)])
    /\ openings # <<>> => openings[Len(openings)] < Len(answers)

LastAsked(commands) ==
    /\ asked # <<>>
    /\ asked[Len(asked)] \in commands
    /\ Len(asked) \notin cancelled

Opening == {"AUTHENTICATE"} \cup GuestCommands

LastVerdict == Verdict(answers[Len(answers)].reply)

KeypadOK ==
    /\ keypad \in Waiting => asked # <<>>
    /\ keypad = "WaitingDatabase_Authorize" => LastAsked(Opening)
    /\ keypad = "WaitingDatabase_Authorize_GuestAccessEnable"
          => LastAsked({"GUEST_ACCESS_ENABLE"})
    /\ keypad = "WaitingDatabase_Authorize_GuestAccessDisable"
          => LastAsked({"GUEST_ACCESS_DISABLE"})

EventOK ==
    LET th == thread["mainLoop"] IN
    th.step = "event"
       => /\ th.event # "TimedOut"
          /\ th.event \in UserEvents => th.content \in KeypadMessages
                                     /\ th.event = KeypadEvent(th.content)
          /\ th.event \notin UserEvents => OnReply
          /\ th.event = "Success" => LastVerdict = "granted"
          /\ th.event = "Success_Guest" => LastVerdict = "guest"

EnterOK ==
    LET th == thread["mainLoop"] IN
    th.step = "enter"
       => /\ th.event # "TimedOut"
          /\ th.action = "SendRequestToDB"
                => /\ th.content \in Commands
                   /\ th.next \in Waiting
                   /\ th.next = "WaitingDatabase_Authorize" => th.content \in Opening
                   /\ th.next = "WaitingDatabase_Authorize_GuestAccessEnable"
                         => th.content = "GUEST_ACCESS_ENABLE"
                   /\ th.next = "WaitingDatabase_Authorize_GuestAccessDisable"
                         => th.content = "GUEST_ACCESS_DISABLE"
          /\ th.action # "SendRequestToDB"
                => /\ th.next \in {"Idle", "WaitingDatabase_Request", "WaitingDatabase_Authorize"}
                   /\ th.next \in Waiting => asked # <<>>
                   /\ th.next = "WaitingDatabase_Authorize" => LastAsked(Opening)
          /\ th.action \notin {"SendRequestToDB", "CancelAction", "Void", "SignalBusy"}
                => th.next = "Idle"
          /\ th.action = "CancelAction"
                => th.next = "WaitingDatabase_Request" /\ asked # <<>>
          /\ th.action = "EnableGuestAccess"
                => OnReply /\ LastAsked({"GUEST_ACCESS_ENABLE"}) /\ LastVerdict = "granted"
          /\ th.action = "DisableGuestAccess"
                => OnReply /\ LastAsked({"GUEST_ACCESS_DISABLE"}) /\ LastVerdict = "granted"
          /\ th.action = "OpenDoors"
                => OnReply /\ LastAsked(Opening) /\ LastVerdict = "granted"
          /\ th.action = "OpenDoorsIfAuthorized"
                => OnReply /\ LastAsked(Opening) /\ LastVerdict = "guest"

StopOK ==
    LET th == thread["mainLoop"] IN
    th.step = "stop"
       => /\ th.action \in {"SignalResult", "OpenDoors", "OpenDoorsIfAuthorized"}
          /\ th.action # "SignalResult"
                => /\ OnReply
                   /\ LastAsked(Opening)
                   /\ LastVerdict \in IF guestAccess THEN {"granted", "guest"} ELSE {"granted"}

GatewayOK ==
    /\ gateway # 0 /\ ~wedged /\ thread["mainLoop"].step # "send" => gateway = Len(asked)
    /\ gateway # 0 => \A i \in DOMAIN answers : answers[i].request < gateway
    /\ thread["mainLoop"].step = "send"
          => \A i \in DOMAIN answers : answers[i].request < Len(asked)
    /\ \A i, j \in DOMAIN answers : i < j => answers[i].request < answers[j].request

PolicyInv == TypeOK /\ CallbackOK /\ KeypadOK /\ EventOK /\ EnterOK /\ StopOK /\ GatewayOK

-----------------------------------------------------------------------------
(* As long as nothing has timed out, the gateway owes a reply only while   *)
(* the keypad automaton waits.                                             *)
OweInv ==
    LET th == thread["mainLoop"] IN
    /\ wedged => timeouts > 0
    /\ gateway # 0 /\ th.step = "event" => th.event \in UserEvents
    /\ timeouts = 0
          => /\ gateway # 0 => keypad \in Waiting
             /\ gateway # 0 /\ th.step = "enter"
                   => th.next \in Waiting /\ th.action # "SendRequestToDB"
             /\ th.step = "send" => gateway = 0 /\ keypad \in Waiting

-----------------------------------------------------------------------------
(* As long as the threads have not met.                                    *)
DeadlineInv ==
    LET th == thread["mainLoop"]
        cb == thread["callback"] IN
    ~overlap
       => /\ cb.step # "aborted" /\ th.step # "aborted"
          /\ Inside(th) => cb.step = "rest"
          /\ keypad \in Waiting
                => \/ timer
                   \/ cb.step # "rest"
                   \/ th.step \in {"send", "start", "blocked"}
          /\ cb.step \in {"stop", "finish"} => keypad = "Idle"
          /\ th.step = "stop" => keypad = "Idle"
          /\ th.step = "enter" /\ th.action # "SendRequestToDB" /\ th.next \in Waiting
                => keypad \in Waiting

-----------------------------------------------------------------------------
(* What the table says.                                                    *)
LEMMA RowFacts ==
    \A row \in TransitionTable :
       /\ row[3] \in KeypadStates /\ row[4] \in Actions
       /\ row[2] = "TimedOut" => row[3] = "Idle" /\ row[4] = "SignalResult"
       /\ row[4] = "SendRequestToDB"
             => /\ row[1] = "Idle" /\ row[3] \in Waiting
                /\ row[2] \in UserEvents \ {"Cancel", "Enter"}
                /\ row[3] = "WaitingDatabase_Authorize"
                      => row[2] = "ReceiveAuthorizeRequest"
                /\ row[3] = "WaitingDatabase_Authorize_GuestAccessEnable"
                      => row[2] = "GuestAccessEnable"
                /\ row[3] = "WaitingDatabase_Authorize_GuestAccessDisable"
                      => row[2] = "GuestAccessDisable"
       /\ row[4] # "SendRequestToDB"
             => /\ row[3] \in {"Idle", "WaitingDatabase_Request", "WaitingDatabase_Authorize"}
                /\ row[3] \in Waiting => row[1] \in Waiting
                /\ row[3] = "WaitingDatabase_Authorize"
                      => row[1] \in Waiting \ {"WaitingDatabase_Request"}
       /\ row[4] = "CancelAction"
             => row[3] = "WaitingDatabase_Request" /\ row[1] \in Waiting
       /\ row[4] = "EnableGuestAccess"
             => /\ row[1] = "WaitingDatabase_Authorize_GuestAccessEnable"
                /\ row[2] \in {"Success", "Success_Guest"}
       /\ row[4] = "DisableGuestAccess"
             => /\ row[1] = "WaitingDatabase_Authorize_GuestAccessDisable"
                /\ row[2] \in {"Success", "Success_Guest"}
       /\ row[4] = "OpenDoors"
             => row[1] = "WaitingDatabase_Authorize" /\ row[2] = "Success"
       /\ row[4] = "OpenDoorsIfAuthorized"
             => row[1] = "WaitingDatabase_Authorize" /\ row[2] = "Success_Guest"
       /\ row[4] \notin {"SendRequestToDB", "CancelAction", "Void", "SignalBusy"}
             => row[3] = "Idle"
       /\ row[1] \in Waiting /\ row[2] \in UserEvents
             => row[3] \in Waiting /\ row[4] # "SendRequestToDB"
BY DEF TransitionTable, CancelRows, KeypadStates, Waiting, Actions, UserEvents,
       Requests, Failures

LEMMA RowOfEvent ==
    ASSUME NEW event, NEW row \in Rows(event)
    PROVE  row \in TransitionTable /\ row[1] = keypad /\ row[2] = event
BY DEF Rows

(* A timeout is accepted in every state in which the automaton waits.      *)
LEMMA TimeoutAccepted ==
    ASSUME keypad \in Waiting
    PROVE  Rows("TimedOut") # {}
<1>1. <<keypad, "TimedOut", "Idle", "SignalResult">> \in TransitionTable
  BY DEF TransitionTable
<1> QED
  BY <1>1 DEF Rows

(* The events of the keypad's messages and of the gateway's replies.       *)
LEMMA EventFacts ==
    ASSUME DoorControlAssumption
    PROVE  /\ \A msg \in KeypadMessages : KeypadEvent(msg) \in UserEvents
           /\ \A msg \in KeypadMessages :
                 /\ KeypadEvent(msg) \in UserEvents \ {"Cancel", "Enter"} => msg \in Commands
                 /\ KeypadEvent(msg) = "ReceiveAuthorizeRequest" => msg = "AUTHENTICATE"
                 /\ KeypadEvent(msg) = "GuestAccessEnable" => msg = "GUEST_ACCESS_ENABLE"
                 /\ KeypadEvent(msg) = "GuestAccessDisable" => msg = "GUEST_ACCESS_DISABLE"
           /\ \A reply \in Clearances \cup Statuses :
                 /\ ReplyEvent(reply) \in Events \ (UserEvents \cup {"TimedOut"})
                 /\ ReplyEvent(reply) = "Success" => Verdict(reply) = "granted"
                 /\ ReplyEvent(reply) = "Success_Guest" => Verdict(reply) = "guest"
           /\ UserEvents \subseteq Events
BY DEF DoorControlAssumption, KeypadMessages, KeypadEvent, AllCommands, AdminCommands,
       GuestCommands, UserEvents, Requests, Events, Failures, Clearances, Statuses,
       ReplyEvent, Verdict

(* A request to switch the guest access is granted or denied.              *)
LEMMA GuestReplies ==
    \A command \in GuestCommands : \A reply \in Replies(command) : Verdict(reply) # "guest"
BY DEF GuestCommands, Replies, Clearances, Statuses, Verdict

-----------------------------------------------------------------------------
(* What a step of one thread leaves of the two.                            *)
LEMMA ContinueFacts ==
    ASSUME TypeOK, NEW t \in Threads, NEW th \in ThreadStates, Continue(t, th)
    PROVE  /\ thread' \in [Threads -> ThreadStates]
           /\ thread'[t] = th
           /\ \A u \in Threads \ {t} : thread'[u] = thread[u]
           /\ overlap' \in BOOLEAN
           /\ overlap => overlap'
           /\ ~overlap' => \E u \in Threads : ~Inside(thread'[u])
BY DEF Continue, TypeOK

(* The records the steps of a thread put in its place.                     *)
LEMMA RestRecord == AtRest \in ThreadStates /\ AtRest.step = "rest"
BY DEF AtRest, ThreadStates, Steps, Events, Contents, KeypadMessages,
       KeypadStates, Waiting, Actions

LEMMA ReceivedRecord ==
    ASSUME NEW event \in Events, NEW content \in Contents
    PROVE  /\ Received(event, content) \in ThreadStates
           /\ Received(event, content).step = "event"
           /\ Received(event, content).event = event
           /\ Received(event, content).content = content
<1>1. "event" \in Steps /\ "Idle" \in KeypadStates /\ "Void" \in Actions
  BY DEF Steps, KeypadStates, Actions
<1> QED
  BY <1>1 DEF Received, ThreadStates

LEMMA StepRecord ==
    ASSUME NEW th \in ThreadStates, NEW step \in Steps
    PROVE  LET new == [th EXCEPT !.step = step] IN
           /\ new \in ThreadStates
           /\ new.step = step /\ new.event = th.event /\ new.content = th.content
           /\ new.next = th.next /\ new.action = th.action
BY DEF ThreadStates

(* What is known of a thread after it went on to another step, with the    *)
(* other one where it was.                                                 *)
LEMMA ProceedFacts ==
    ASSUME TypeOK, NEW t \in Threads, NEW step \in Steps, Proceed(t, step)
    PROVE  /\ thread' \in [Threads -> ThreadStates]
           /\ thread'[t].step = step
           /\ thread'[t].event = thread[t].event
           /\ thread'[t].content = thread[t].content
           /\ thread'[t].next = thread[t].next
           /\ thread'[t].action = thread[t].action
           /\ \A u \in Threads \ {t} : thread'[u] = thread[u]
           /\ overlap' \in BOOLEAN
           /\ overlap => overlap'
           /\ ~overlap' => \E u \in Threads : ~Inside(thread'[u])
<1> DEFINE th == [thread[t] EXCEPT !.step = step]
<1>1. thread[t] \in ThreadStates
  BY DEF TypeOK
<1>2. th \in ThreadStates
  BY <1>1, StepRecord
<1>3. Continue(t, th)
  BY DEF Proceed
<1> HIDE DEF th
<1>4. /\ thread' \in [Threads -> ThreadStates] /\ thread'[t] = th
      /\ \A u \in Threads \ {t} : thread'[u] = thread[u]
      /\ overlap' \in BOOLEAN
      /\ overlap => overlap'
      /\ ~overlap' => \E u \in Threads : ~Inside(thread'[u])
  BY <1>2, <1>3, ContinueFacts
<1>5. /\ th.step = step /\ th.event = thread[t].event /\ th.content = thread[t].content
      /\ th.next = thread[t].next /\ th.action = thread[t].action
  BY <1>1, StepRecord DEF th
<1> QED
  BY <1>4, <1>5

LEMMA TakeFacts ==
    ASSUME TypeOK, NEW t \in Threads, NEW row \in TransitionTable, Take(t, row)
    PROVE  /\ thread' \in [Threads -> ThreadStates]
           /\ thread'[t].step = "enter"
           /\ thread'[t].event = thread[t].event
           /\ thread'[t].content = thread[t].content
           /\ thread'[t].next = row[3]
           /\ thread'[t].action = row[4]
           /\ \A u \in Threads \ {t} : thread'[u] = thread[u]
           /\ overlap' \in BOOLEAN
           /\ overlap => overlap'
           /\ ~overlap' => \E u \in Threads : ~Inside(thread'[u])
<1> DEFINE th == [thread[t] EXCEPT !.step = "enter", !.next = row[3], !.action = row[4]]
<1>1. thread[t] \in ThreadStates
  BY DEF TypeOK
<1>2. row[3] \in KeypadStates /\ row[4] \in Actions
  BY RowFacts
<1>3. th \in ThreadStates
  BY <1>1, <1>2 DEF ThreadStates, Steps
<1>4. /\ th.step = "enter" /\ th.event = thread[t].event /\ th.content = thread[t].content
      /\ th.next = row[3] /\ th.action = row[4]
  BY <1>1 DEF ThreadStates
<1>5. Continue(t, th)
  BY DEF Take
<1> HIDE DEF th
<1>6. /\ thread' \in [Threads -> ThreadStates] /\ thread'[t] = th
      /\ \A u \in Threads \ {t} : thread'[u] = thread[u]
      /\ overlap' \in BOOLEAN
      /\ overlap => overlap'
      /\ ~overlap' => \E u \in Threads : ~Inside(thread'[u])
  BY <1>3, <1>5, ContinueFacts
<1> QED
  BY <1>4, <1>6

LEMMA ReturnFacts ==
    ASSUME TypeOK, NEW t \in Threads, Return(t)
    PROVE  /\ thread' \in [Threads -> ThreadStates]
           /\ thread'[t] = AtRest
           /\ thread'[t].step = "rest"
           /\ \A u \in Threads \ {t} : thread'[u] = thread[u]
           /\ overlap' \in BOOLEAN
           /\ overlap => overlap'
           /\ ~overlap' => \E u \in Threads : ~Inside(thread'[u])
BY RestRecord, ContinueFacts DEF Return
-----------------------------------------------------------------------------
DoorInv == PolicyInv /\ OweInv /\ DeadlineInv

(* A sequence over a set is one over a larger set.                         *)
LEMMA SeqWidens ==
    ASSUME NEW S, NEW T, S \subseteq T, NEW s \in Seq(S)
    PROVE  s \in Seq(T)
OBVIOUS

LEMMA SeqElements ==
    ASSUME NEW S, NEW s \in Seq(S)
    PROVE  \A i \in DOMAIN s : s[i] \in S
OBVIOUS

(* What a sequence holds after an element was appended.                    *)
LEMMA AppendFacts ==
    ASSUME NEW S, NEW s \in Seq(S), NEW e \in S
    PROVE  LET new == Append(s, e) IN
           /\ new \in Seq(S)
           /\ new # <<>>
           /\ Len(new) = Len(s) + 1
           /\ new[Len(new)] = e
           /\ \A i \in DOMAIN s : new[i] = s[i]
           /\ DOMAIN new = DOMAIN s \cup {Len(new)}
           /\ DOMAIN s = 1 .. Len(s)
OBVIOUS

LEMMA InitInv == ASSUME DoorControlAssumption, Init PROVE DoorInv
<1>1. TypeOK
  <2>1. keypad \in KeypadStates
    BY DEF Init, KeypadStates
  <2>2. thread \in [Threads -> ThreadStates]
    BY RestRecord DEF Init
  <2>3. gateway \in 0 .. Len(asked) /\ cancelled \subseteq 1 .. Len(asked)
    BY DEF Init
  <2>4. /\ asked \in Seq(Commands)
        /\ answers \in Seq([request : 1 .. Len(asked), reply : Clearances \cup Statuses])
        /\ openings \in Seq(1 .. Len(answers))
    BY DEF Init
  <2>5. /\ main \in {"Idle", "Busy_KeypadRFID"} /\ guestAccess \in BOOLEAN
        /\ timer \in BOOLEAN /\ wedged \in BOOLEAN /\ overlap \in BOOLEAN
    BY DEF Init
  <2>6. timeouts \in Nat /\ messages \in 0 .. MaxMessages
    BY DEF DoorControlAssumption, Init
  <2> QED
    BY <2>1, <2>2, <2>3, <2>4, <2>5, <2>6 DEF TypeOK
<1>2. \A t \in Threads : thread[t].step = "rest"
  BY RestRecord DEF Init
<1>3. PolicyInv
  BY <1>1, <1>2 DEF Init, PolicyInv, CallbackOK, KeypadOK, EventOK, EnterOK, StopOK,
                    GatewayOK, Threads, Waiting
<1>4. OweInv /\ DeadlineInv
  BY <1>2 DEF Init, OweInv, DeadlineInv, Threads, Waiting, Inside
<1> QED
  BY <1>3, <1>4 DEF DoorInv

LEMMA KeypadMessageStep ==
    ASSUME DoorControlAssumption, DoorInv, NEW msg \in KeypadMessages, KeypadMessage(msg)
    PROVE  DoorInv'
<1> DEFINE new == Received(KeypadEvent(msg), msg)
<1>1. /\ new \in ThreadStates /\ new.step = "event" /\ new.content = msg
      /\ new.event = KeypadEvent(msg) /\ new.event \in UserEvents
  BY EventFacts, ReceivedRecord DEF Contents
<1>2. new.event \notin {"TimedOut", "Success", "Success_Guest"}
  BY <1>1 DEF UserEvents, Requests
<1>3. Continue("mainLoop", new)
  BY DEF KeypadMessage
<1> HIDE DEF new
<1>4. /\ thread' \in [Threads -> ThreadStates]
      /\ thread'["mainLoop"] = new
      /\ thread'["callback"] = thread["callback"]
      /\ overlap' \in BOOLEAN
      /\ overlap => overlap'
      /\ ~overlap' => ~Inside(thread'["callback"])
  BY <1>1, <1>3, ContinueFacts DEF DoorInv, PolicyInv, Threads, Inside
<1>5. TypeOK'
  BY <1>4 DEF DoorInv, PolicyInv, TypeOK, KeypadMessage
<1>6. CallbackOK' /\ KeypadOK' /\ GatewayOK'
  BY <1>1, <1>4 DEF DoorInv, PolicyInv, CallbackOK, KeypadOK, LastAsked, GatewayOK, KeypadMessage
<1>7. EventOK' /\ EnterOK' /\ StopOK'
  BY <1>1, <1>2, <1>4 DEF EventOK, EnterOK, StopOK
<1>8. OweInv'
  BY <1>1, <1>4 DEF DoorInv, OweInv, KeypadMessage
<1>9. DeadlineInv'
  BY <1>1, <1>4 DEF DoorInv, PolicyInv, CallbackOK, DeadlineInv, Inside, KeypadMessage
<1> QED
  BY <1>5, <1>6, <1>7, <1>8, <1>9 DEF DoorInv, PolicyInv

LEMMA DatabaseReplyStep ==
    ASSUME DoorControlAssumption, DoorInv,
           NEW reply \in Clearances \cup Statuses, DatabaseReply(reply)
    PROVE  DoorInv'
<1> DEFINE new == Received(ReplyEvent(reply), reply)
<1>1. /\ new \in ThreadStates /\ new.step = "event"
      /\ new.event \notin UserEvents \cup {"TimedOut"}
      /\ new.event = "Success" => Verdict(reply) = "granted"
      /\ new.event = "Success_Guest" => Verdict(reply) = "guest"
  BY EventFacts, ReceivedRecord DEF Contents
<1>2. Continue("mainLoop", new)
  BY DEF DatabaseReply
<1> HIDE DEF new
<1>3. /\ thread' \in [Threads -> ThreadStates]
      /\ thread'["mainLoop"] = new
      /\ thread'["callback"] = thread["callback"]
      /\ overlap' \in BOOLEAN
      /\ overlap => overlap'
      /\ ~overlap' => ~Inside(thread'["callback"])
  BY <1>1, <1>2, ContinueFacts DEF DoorInv, PolicyInv, Threads, Inside
<1>4. /\ gateway = Len(asked) /\ gateway \in 1 .. Len(asked)
      /\ answers' = Append(answers, [request |-> Len(asked), reply |-> reply])
      /\ reply \in Replies(asked[Len(asked)])
  BY DEF DatabaseReply, DoorInv, PolicyInv, TypeOK, GatewayOK
<1> DEFINE R == [request : 1 .. Len(asked), reply : Clearances \cup Statuses]
<1>a. answers \in Seq(R) /\ [request |-> Len(asked), reply |-> reply] \in R
  BY <1>4 DEF DoorInv, PolicyInv, TypeOK
<1> HIDE DEF R
<1>5. /\ answers' \in Seq(R)
      /\ answers' # <<>>
      /\ Len(answers') = Len(answers) + 1
      /\ answers'[Len(answers')] = [request |-> Len(asked), reply |-> reply]
      /\ \A i \in DOMAIN answers : answers'[i] = answers[i]
      /\ DOMAIN answers' = DOMAIN answers \cup {Len(answers')}
      /\ DOMAIN answers = 1 .. Len(answers)
  BY <1>4, <1>a, AppendFacts
<1>6. TypeOK'
  <2>1. 1 .. Len(answers) \subseteq 1 .. Len(answers')
    BY <1>5, <1>a
  <2>2. openings \in Seq(1 .. Len(answers'))
    BY <2>1, SeqWidens DEF DoorInv, PolicyInv, TypeOK
  <2> QED
    BY <1>3, <1>5, <2>2 DEF R, DoorInv, PolicyInv, TypeOK, DatabaseReply
<1>7. CallbackOK' /\ KeypadOK'
  BY <1>3 DEF DoorInv, PolicyInv, CallbackOK, KeypadOK, LastAsked, DatabaseReply
<1>8. OnReply'
  BY <1>4, <1>5 DEF DoorInv, PolicyInv, TypeOK, OnReply, DatabaseReply
<1>9. EventOK' /\ EnterOK' /\ StopOK'
  BY <1>1, <1>3, <1>5, <1>8 DEF EventOK, EnterOK, StopOK, LastVerdict
<1>10. GatewayOK'
  BY <1>1, <1>3, <1>4, <1>5 DEF DoorInv, PolicyInv, TypeOK, GatewayOK, DatabaseReply
<1>11. OweInv'
  BY <1>1, <1>3 DEF DoorInv, OweInv, DatabaseReply
<1>12. DeadlineInv'
  BY <1>1, <1>3 DEF DoorInv, PolicyInv, CallbackOK, DeadlineInv, Inside, DatabaseReply
<1> QED
  BY <1>6, <1>7, <1>9, <1>10, <1>11, <1>12 DEF DoorInv, PolicyInv

LEMMA ReceiveEchoStep ==
    ASSUME DoorInv, ReceiveEcho
    PROVE  DoorInv'
<1>1. PolicyInv'
  BY DEF ReceiveEcho, DoorInv, PolicyInv, historyVars, TypeOK, CallbackOK, KeypadOK, LastAsked,
         EventOK, EnterOK, StopOK, OnReply, LastVerdict, GatewayOK
<1>2. OweInv' /\ DeadlineInv'
  BY DEF ReceiveEcho, DoorInv, historyVars, OweInv, DeadlineInv, Inside
<1> QED
  BY <1>1, <1>2 DEF DoorInv

LEMMA ExpireStep ==
    ASSUME DoorControlAssumption, DoorInv, Expire
    PROVE  DoorInv'
<1> DEFINE new == Received("TimedOut", "Enter")
<1>1. new \in ThreadStates /\ new.step = "event" /\ new.event = "TimedOut"
  BY ReceivedRecord DEF Events, Contents, KeypadMessages
<1>2. Continue("callback", new)
  BY DEF Expire
<1> HIDE DEF new
<1>3. /\ thread' \in [Threads -> ThreadStates]
      /\ thread'["callback"] = new
      /\ thread'["mainLoop"] = thread["mainLoop"]
      /\ overlap' \in BOOLEAN
      /\ overlap => overlap'
      /\ ~overlap' => ~Inside(thread'["mainLoop"])
  BY <1>1, <1>2, ContinueFacts DEF DoorInv, PolicyInv, Threads, Inside
<1>4. TypeOK'
  BY <1>3 DEF DoorInv, PolicyInv, TypeOK, Expire, historyVars
<1>5. CallbackOK'
  BY <1>1, <1>3 DEF CallbackOK
<1>6. KeypadOK' /\ EventOK' /\ EnterOK' /\ StopOK' /\ GatewayOK'
  BY <1>3 DEF Expire, historyVars, DoorInv, PolicyInv, KeypadOK, LastAsked, EventOK, EnterOK,
              StopOK, OnReply, LastVerdict, GatewayOK
<1>7. OweInv'
  BY <1>3 DEF Expire, historyVars, DoorInv, OweInv
<1>8. DeadlineInv'
  BY <1>1, <1>3 DEF Expire, DoorInv, DeadlineInv, Inside
<1> QED
  BY <1>4, <1>5, <1>6, <1>7, <1>8 DEF DoorInv, PolicyInv

LEMMA AbortStep ==
    ASSUME DoorInv, Abort
    PROVE  DoorInv'
<1>1. /\ thread["mainLoop"].step \in {"event", "finish", "rest"}
      /\ thread["mainLoop"] \in ThreadStates /\ thread["callback"] \in ThreadStates
  BY DEF Abort, EntersKeypadAutomaton, EntersMainAutomaton, Threads, DoorInv, PolicyInv, TypeOK
<1>2. \A t \in Threads : [thread[t] EXCEPT !.step = "aborted"] \in ThreadStates
                          /\ [thread[t] EXCEPT !.step = "aborted"].step = "aborted"
  BY StepRecord DEF Steps, DoorInv, PolicyInv, TypeOK
<1>3. /\ thread' \in [Threads -> ThreadStates]
      /\ thread'["mainLoop"].step = "aborted" /\ thread'["callback"].step = "aborted"
  BY <1>2 DEF Abort, Threads
<1>4. overlap'
  BY DEF Abort
<1>5. TypeOK'
  BY <1>3, <1>4 DEF DoorInv, PolicyInv, TypeOK, Abort, historyVars
<1>6. KeypadOK' /\ GatewayOK'
  BY <1>1, <1>3 DEF Abort, historyVars, DoorInv, PolicyInv, KeypadOK, LastAsked, GatewayOK
<1>7. CallbackOK' /\ EventOK' /\ EnterOK' /\ StopOK'
  BY <1>3 DEF CallbackOK, EventOK, EnterOK, StopOK
<1>8. OweInv' /\ DeadlineInv'
  BY <1>1, <1>3, <1>4 DEF Abort, historyVars, DoorInv, OweInv, DeadlineInv
<1> QED
  BY <1>5, <1>6, <1>7, <1>8 DEF DoorInv, PolicyInv

-----------------------------------------------------------------------------
(* processEvent, in the callback.                                          *)
LEMMA CallbackLookupStep ==
    ASSUME DoorControlAssumption, DoorInv, Lookup("callback")
    PROVE  DoorInv'
<1>1. thread["callback"].step = "event" /\ thread["callback"].event = "TimedOut"
  BY DEF Lookup, DoorInv, PolicyInv, CallbackOK
<1>2. /\ thread' \in [Threads -> ThreadStates]
      /\ thread'["mainLoop"] = thread["mainLoop"]
      /\ overlap' \in BOOLEAN
      /\ overlap => overlap'
      /\ \/ thread'["callback"].step = "rest" /\ keypad \notin Waiting
         \/ /\ thread'["callback"].step = "enter"
            /\ thread'["callback"].event = "TimedOut"
            /\ thread'["callback"].action = "SignalResult"
            /\ thread'["callback"].next = "Idle"
  <2>1. CASE Rows("TimedOut") = {} /\ Return("callback")
    BY <2>1, TimeoutAccepted, ReturnFacts DEF DoorInv, PolicyInv, Threads
  <2>2. CASE \E row \in Rows("TimedOut") : Take("callback", row)
    <3>1. PICK row \in Rows("TimedOut") : Take("callback", row)
      BY <2>2
    <3>2. row \in TransitionTable /\ row[3] = "Idle" /\ row[4] = "SignalResult"
      BY RowOfEvent, RowFacts
    <3> QED
      BY <1>1, <3>1, <3>2, TakeFacts DEF DoorInv, PolicyInv, Threads
  <2> QED
    BY <1>1, <2>1, <2>2 DEF Lookup
<1>3. TypeOK'
  BY <1>2 DEF Lookup, historyVars, DoorInv, PolicyInv, TypeOK
<1>4. CallbackOK'
  BY <1>2 DEF CallbackOK
<1>5. KeypadOK' /\ EventOK' /\ EnterOK' /\ StopOK' /\ GatewayOK'
  <2>1. /\ thread'["mainLoop"] = thread["mainLoop"]
        /\ UNCHANGED <<keypad, guestAccess, gateway, wedged, asked, answers, openings, cancelled>>
    BY <1>2 DEF Lookup, historyVars
  <2> QED
    BY <2>1 DEF DoorInv, PolicyInv, KeypadOK, LastAsked, EventOK, EnterOK, StopOK, OnReply,
                LastVerdict, GatewayOK
<1>6. OweInv' /\ DeadlineInv'
  BY <1>1, <1>2 DEF Lookup, historyVars, DoorInv, OweInv, DeadlineInv, Inside
<1> QED
  BY <1>3, <1>4, <1>5, <1>6 DEF DoorInv, PolicyInv

LEMMA CallbackSignalStep ==
    ASSUME DoorInv, DoSignal("callback")
    PROVE  DoorInv'
<1>1. /\ thread["callback"].step = "enter" /\ thread["callback"].event = "TimedOut"
      /\ thread["callback"].action = "SignalResult" /\ thread["callback"].next = "Idle"
  BY DEF DoSignal, Enter, DoorInv, PolicyInv, CallbackOK
<1>2. Proceed("callback", "stop")
  BY <1>1 DEF DoSignal
<1>3. /\ thread' \in [Threads -> ThreadStates]
      /\ thread'["callback"].step = "stop"
      /\ thread'["callback"].action = "SignalResult" /\ thread'["callback"].next = "Idle"
      /\ thread'["mainLoop"] = thread["mainLoop"]
      /\ overlap' \in BOOLEAN
      /\ overlap => overlap'
  BY <1>1, <1>2, ProceedFacts DEF DoorInv, PolicyInv, Threads, Steps
<1>4. keypad' = "Idle" /\ timeouts' = timeouts + 1 /\ timeouts \in Nat
  BY <1>1 DEF DoSignal, Enter, DoorInv, PolicyInv, TypeOK
<1>5. TypeOK'
  BY <1>3, <1>4 DEF DoSignal, Enter, DoorInv, PolicyInv, TypeOK, KeypadStates
<1>6. CallbackOK' /\ KeypadOK'
  BY <1>3, <1>4 DEF CallbackOK, KeypadOK, Waiting
<1>7. EventOK' /\ EnterOK' /\ StopOK' /\ GatewayOK'
  BY <1>3 DEF DoSignal, Enter, DoorInv, PolicyInv, EventOK, EnterOK, StopOK, LastAsked,
              OnReply, LastVerdict, GatewayOK
<1>8. OweInv'
  BY <1>3, <1>4 DEF DoSignal, Enter, DoorInv, OweInv
<1>9. DeadlineInv'
  BY <1>1, <1>3, <1>4 DEF DoSignal, Enter, DoorInv, DeadlineInv, Inside, Waiting
<1> QED
  BY <1>5, <1>6, <1>7, <1>8, <1>9 DEF DoorInv, PolicyInv

LEMMA CallbackStopStep ==
    ASSUME DoorInv, StopTimer("callback")
    PROVE  DoorInv'
<1>1. thread["callback"].step = "stop" /\ thread["callback"].action = "SignalResult"
      /\ thread["callback"].next = "Idle"
  BY DEF StopTimer, DoorInv, PolicyInv, CallbackOK
<1>2. /\ thread' \in [Threads -> ThreadStates]
      /\ thread'["callback"].step = "finish"
      /\ thread'["callback"].action = "SignalResult" /\ thread'["callback"].next = "Idle"
      /\ thread'["mainLoop"] = thread["mainLoop"]
      /\ overlap' \in BOOLEAN
      /\ overlap => overlap'
  BY <1>1, ProceedFacts DEF StopTimer, DoorInv, PolicyInv, Threads, Steps
<1>3. openings' = openings /\ timer' = FALSE
  BY <1>1 DEF StopTimer
<1>4. TypeOK'
  BY <1>2, <1>3 DEF StopTimer, DoorInv, PolicyInv, TypeOK
<1>5. CallbackOK'
  BY <1>2 DEF CallbackOK
<1>6. KeypadOK' /\ EventOK' /\ EnterOK' /\ StopOK' /\ GatewayOK'
  BY <1>2, <1>3 DEF StopTimer, DoorInv, PolicyInv, KeypadOK, EventOK, EnterOK, StopOK,
                    LastAsked, OnReply, LastVerdict, GatewayOK
<1>7. OweInv' /\ DeadlineInv'
  BY <1>1, <1>2, <1>3 DEF StopTimer, DoorInv, OweInv, DeadlineInv, Inside
<1> QED
  BY <1>4, <1>5, <1>6, <1>7 DEF DoorInv, PolicyInv

LEMMA CallbackFinishStep ==
    ASSUME DoorInv, SignalFinish("callback")
    PROVE  DoorInv'
<1>1. /\ thread' \in [Threads -> ThreadStates]
      /\ thread'["callback"].step = "rest"
      /\ thread'["mainLoop"] = thread["mainLoop"]
      /\ overlap' \in BOOLEAN
      /\ overlap => overlap'
  BY ReturnFacts DEF SignalFinish, DoorInv, PolicyInv, Threads
<1>2. TypeOK'
  BY <1>1 DEF SignalFinish, historyVars, DoorInv, PolicyInv, TypeOK
<1>3. CallbackOK'
  BY <1>1 DEF CallbackOK
<1>4. KeypadOK' /\ EventOK' /\ EnterOK' /\ StopOK' /\ GatewayOK'
  BY <1>1 DEF SignalFinish, historyVars, DoorInv, PolicyInv, KeypadOK, EventOK, EnterOK,
              StopOK, LastAsked, OnReply, LastVerdict, GatewayOK
<1>5. OweInv'
  BY <1>1 DEF SignalFinish, historyVars, DoorInv, OweInv
<1>6. DeadlineInv'
  BY <1>1 DEF SignalFinish, historyVars, DoorInv, DeadlineInv, Inside, Waiting
<1> QED
  BY <1>2, <1>3, <1>4, <1>5, <1>6 DEF DoorInv, PolicyInv

LEMMA CallbackStep ==
    ASSUME DoorControlAssumption, DoorInv, ProcessEvent("callback")
    PROVE  DoorInv'
<1>1. /\ ~DoNothing("callback") /\ ~DoSendRequestToDB("callback")
      /\ ~DoCancelAction("callback") /\ ~DoSwitchGuestAccess("callback")
      /\ ~Send("callback") /\ ~StartTimer("callback")
  BY DEF DoNothing, DoSendRequestToDB, DoCancelAction, DoSwitchGuestAccess, Enter, Send,
         StartTimer, DoorInv, PolicyInv, CallbackOK
<1> QED
  BY <1>1, CallbackLookupStep, CallbackSignalStep, CallbackStopStep, CallbackFinishStep
  DEF ProcessEvent

-----------------------------------------------------------------------------
(* processEvent, in the main loop.                                         *)
LEMMA MainLookupStep ==
    ASSUME DoorControlAssumption, DoorInv, Lookup("mainLoop")
    PROVE  DoorInv'
<1> DEFINE th == thread["mainLoop"]
<1>1. th.step = "event" /\ UNCHANGED <<keypad, main, guestAccess, timer, gateway, wedged, historyVars>>
  BY DEF Lookup
<1>2. CASE Return("mainLoop")
  <2>1. /\ thread' \in [Threads -> ThreadStates]
        /\ thread'["mainLoop"].step = "rest"
        /\ thread'["callback"] = thread["callback"]
        /\ overlap' \in BOOLEAN
        /\ overlap => overlap'
    BY <1>2, ReturnFacts DEF DoorInv, PolicyInv, Threads
  <2>2. TypeOK'
    BY <1>1, <2>1 DEF historyVars, DoorInv, PolicyInv, TypeOK
  <2>3. CallbackOK' /\ KeypadOK' /\ GatewayOK'
    BY <1>1, <2>1 DEF historyVars, DoorInv, PolicyInv, CallbackOK, KeypadOK, LastAsked, GatewayOK
  <2>4. EventOK' /\ EnterOK' /\ StopOK'
    BY <2>1 DEF EventOK, EnterOK, StopOK
  <2>5. OweInv' /\ DeadlineInv'
    BY <1>1, <2>1 DEF historyVars, DoorInv, OweInv, DeadlineInv, Inside
  <2> QED
    BY <2>2, <2>3, <2>4, <2>5 DEF DoorInv, PolicyInv
<1>3. CASE \E row \in Rows(th.event) : Take("mainLoop", row)
  <2>1. PICK row \in Rows(th.event) : Take("mainLoop", row)
    BY <1>3
  <2>2. row \in TransitionTable /\ row[1] = keypad /\ row[2] = th.event
    BY RowOfEvent
  <2>3. /\ thread' \in [Threads -> ThreadStates]
        /\ thread'["mainLoop"].step = "enter"
        /\ thread'["mainLoop"].event = th.event /\ thread'["mainLoop"].content = th.content
        /\ thread'["mainLoop"].next = row[3] /\ thread'["mainLoop"].action = row[4]
        /\ thread'["callback"] = thread["callback"]
        /\ overlap' \in BOOLEAN
        /\ overlap => overlap'
    BY <2>1, <2>2, TakeFacts DEF DoorInv, PolicyInv, Threads
  <2>4. TypeOK'
    BY <1>1, <2>3 DEF historyVars, DoorInv, PolicyInv, TypeOK
  <2>5. CallbackOK' /\ KeypadOK' /\ GatewayOK'
    BY <1>1, <2>3 DEF historyVars, DoorInv, PolicyInv, CallbackOK, KeypadOK, LastAsked, GatewayOK
  <2>6. EventOK' /\ StopOK'
    BY <2>3 DEF EventOK, StopOK
  <2>7. EnterOK'
    <3> DEFINE new == thread'["mainLoop"]
    <3>1. UNCHANGED <<asked, answers, openings, cancelled>>
      BY <1>1 DEF historyVars
    <3>2. /\ row[2] # "TimedOut"
          /\ row[2] \in UserEvents => th.content \in KeypadMessages /\ row[2] = KeypadEvent(th.content)
          /\ row[2] \in {"Success", "Success_Guest"} => OnReply
          /\ row[2] = "Success" => LastVerdict = "granted"
          /\ row[2] = "Success_Guest" => LastVerdict = "guest"
      BY <1>1, <2>2 DEF DoorInv, PolicyInv, EventOK, UserEvents, Requests
    <3>3. CASE row[4] = "SendRequestToDB"
      <4>1. row[2] \in UserEvents \ {"Cancel", "Enter"} /\ row[3] \in Waiting
        BY <2>2, <3>3, RowFacts
      <4>2. /\ th.content \in Commands
            /\ row[2] = "ReceiveAuthorizeRequest" => th.content = "AUTHENTICATE"
            /\ row[2] = "GuestAccessEnable" => th.content = "GUEST_ACCESS_ENABLE"
            /\ row[2] = "GuestAccessDisable" => th.content = "GUEST_ACCESS_DISABLE"
        BY <3>2, <4>1, EventFacts
      <4> QED
        BY <2>2, <2>3, <3>2, <3>3, <4>1, <4>2, RowFacts DEF EnterOK, Opening
    <3>4. CASE row[4] # "SendRequestToDB"
      <4>1. /\ keypad \in Waiting => asked # <<>>
            /\ keypad \in Waiting \ {"WaitingDatabase_Request"} => LastAsked(Opening)
            /\ keypad = "WaitingDatabase_Authorize_GuestAccessEnable"
                  => LastAsked({"GUEST_ACCESS_ENABLE"})
            /\ keypad = "WaitingDatabase_Authorize_GuestAccessDisable"
                  => LastAsked({"GUEST_ACCESS_DISABLE"})
        BY DEF DoorInv, PolicyInv, KeypadOK, LastAsked, Waiting, Opening, GuestCommands
      <4>2. /\ row[3] \in {"Idle", "WaitingDatabase_Request", "WaitingDatabase_Authorize"}
            /\ row[3] \in Waiting => asked # <<>>
            /\ row[3] = "WaitingDatabase_Authorize" => LastAsked(Opening)
            /\ row[4] \notin {"CancelAction", "Void", "SignalBusy"} => row[3] = "Idle"
            /\ row[4] = "CancelAction" => row[3] = "WaitingDatabase_Request" /\ asked # <<>>
        BY <2>2, <3>4, <4>1, RowFacts
      <4>3. row[4] = "OpenDoors" => OnReply /\ LastAsked(Opening) /\ LastVerdict = "granted"
        BY <2>2, <3>2, <4>1, RowFacts DEF Waiting
      <4>4. row[4] = "OpenDoorsIfAuthorized"
               => OnReply /\ LastAsked(Opening) /\ LastVerdict = "guest"
        BY <2>2, <3>2, <4>1, RowFacts DEF Waiting
      <4>5. OnReply /\ LastAsked(GuestCommands) => LastVerdict # "guest"
        BY GuestReplies DEF OnReply, LastAsked, LastVerdict
      <4>6. row[4] = "EnableGuestAccess"
               => OnReply /\ LastAsked({"GUEST_ACCESS_ENABLE"}) /\ LastVerdict = "granted"
        <5> SUFFICES ASSUME row[4] = "EnableGuestAccess"
                     PROVE  OnReply /\ LastAsked({"GUEST_ACCESS_ENABLE"}) /\ LastVerdict = "granted"
          OBVIOUS
        <5>1. keypad = "WaitingDatabase_Authorize_GuestAccessEnable"
              /\ row[2] \in {"Success", "Success_Guest"}
          BY <2>2, RowFacts
        <5>2. OnReply /\ LastAsked({"GUEST_ACCESS_ENABLE"})
          BY <3>2, <4>1, <5>1
        <5>3. LastAsked(GuestCommands)
          BY <5>2 DEF LastAsked, GuestCommands
        <5> QED
          BY <3>2, <4>5, <5>1, <5>2, <5>3
      <4>7. row[4] = "DisableGuestAccess"
               => OnReply /\ LastAsked({"GUEST_ACCESS_DISABLE"}) /\ LastVerdict = "granted"
        <5> SUFFICES ASSUME row[4] = "DisableGuestAccess"
                     PROVE  OnReply /\ LastAsked({"GUEST_ACCESS_DISABLE"}) /\ LastVerdict = "granted"
          OBVIOUS
        <5>1. keypad = "WaitingDatabase_Authorize_GuestAccessDisable"
              /\ row[2] \in {"Success", "Success_Guest"}
          BY <2>2, RowFacts
        <5>2. OnReply /\ LastAsked({"GUEST_ACCESS_DISABLE"})
          BY <3>2, <4>1, <5>1
        <5>3. LastAsked(GuestCommands)
          BY <5>2 DEF LastAsked, GuestCommands
        <5> QED
          BY <3>2, <4>5, <5>1, <5>2, <5>3
      <4>8. /\ OnReply' <=> OnReply
            /\ LastAsked(Opening)' <=> LastAsked(Opening)
            /\ LastAsked({"GUEST_ACCESS_ENABLE"})' <=> LastAsked({"GUEST_ACCESS_ENABLE"})
            /\ LastAsked({"GUEST_ACCESS_DISABLE"})' <=> LastAsked({"GUEST_ACCESS_DISABLE"})
            /\ LastVerdict' = LastVerdict
            /\ asked' = asked
        BY <3>1 DEF OnReply, LastAsked, LastVerdict
      <4> QED
        BY <2>2, <2>3, <3>2, <3>4, <4>2, <4>3, <4>4, <4>6, <4>7, <4>8 DEF EnterOK
    <3> QED
      BY <3>3, <3>4
  <2>8. OweInv'
    BY <1>1, <2>2, <2>3, RowFacts DEF historyVars, DoorInv, OweInv
  <2>9. DeadlineInv'
    BY <1>1, <2>2, <2>3, RowFacts DEF historyVars, DoorInv, DeadlineInv, Inside
  <2> QED
    BY <2>4, <2>5, <2>6, <2>7, <2>8, <2>9 DEF DoorInv, PolicyInv
<1> QED
  BY <1>2, <1>3 DEF Lookup

LEMMA MainDoNothingStep ==
    ASSUME DoorInv, DoNothing("mainLoop")
    PROVE  DoorInv'
<1> DEFINE th == thread["mainLoop"]
<1>1. th.step = "enter" /\ th.action \in {"Void", "SignalBusy"} /\ keypad' = th.next
  BY DEF DoNothing, Enter
<1>2. /\ thread' \in [Threads -> ThreadStates]
      /\ thread'["mainLoop"].step = "rest"
      /\ thread'["callback"] = thread["callback"]
      /\ overlap' \in BOOLEAN
      /\ overlap => overlap'
  BY ReturnFacts DEF DoNothing, DoorInv, PolicyInv, Threads
<1>3. timeouts' = timeouts /\ timeouts \in Nat
  BY <1>1 DEF DoNothing, Enter, DoorInv, PolicyInv, TypeOK, EnterOK
<1>4. TypeOK'
  BY <1>1, <1>2, <1>3 DEF DoNothing, Enter, DoorInv, PolicyInv, TypeOK, ThreadStates, Threads
<1>5. CallbackOK' /\ GatewayOK'
  BY <1>1, <1>2 DEF DoNothing, Enter, DoorInv, PolicyInv, CallbackOK, GatewayOK
<1>6. KeypadOK'
  BY <1>1 DEF DoNothing, Enter, DoorInv, PolicyInv, KeypadOK, EnterOK, LastAsked
<1>7. EventOK' /\ EnterOK' /\ StopOK'
  BY <1>2 DEF EventOK, EnterOK, StopOK
<1>8. OweInv'
  BY <1>1, <1>2, <1>3 DEF DoNothing, Enter, DoorInv, OweInv
<1>9. DeadlineInv'
  BY <1>1, <1>2 DEF DoNothing, Enter, DoorInv, DeadlineInv, Inside
<1> QED
  BY <1>4, <1>5, <1>6, <1>7, <1>8, <1>9 DEF DoorInv, PolicyInv

LEMMA MainSendRequestStep ==
    ASSUME DoorInv, DoSendRequestToDB("mainLoop")
    PROVE  DoorInv'
<1> DEFINE th == thread["mainLoop"]
<1>1. /\ th.step = "enter" /\ th.action = "SendRequestToDB" /\ keypad' = th.next
      /\ asked' = Append(asked, th.content) /\ th.content \in Commands
      /\ asked \in Seq(Commands)
  BY DEF DoSendRequestToDB, Enter, DoorInv, PolicyInv, EnterOK, TypeOK
<1>2. /\ thread' \in [Threads -> ThreadStates]
      /\ thread'["mainLoop"].step = "send"
      /\ thread'["callback"] = thread["callback"]
      /\ overlap' \in BOOLEAN
      /\ overlap => overlap'
  BY ProceedFacts DEF DoSendRequestToDB, DoorInv, PolicyInv, Threads, Steps
<1>3. timeouts' = timeouts /\ timeouts \in Nat
  BY <1>1 DEF DoSendRequestToDB, Enter, DoorInv, PolicyInv, TypeOK, EnterOK
<1>4. /\ asked' \in Seq(Commands) /\ asked' # <<>> /\ Len(asked') = Len(asked) + 1
      /\ asked'[Len(asked')] = th.content
  BY <1>1, AppendFacts
<1>5. TypeOK'
  <2>1. /\ th.next \in KeypadStates
        /\ 1 .. Len(asked) \subseteq 1 .. Len(asked')
        /\ 0 .. Len(asked) \subseteq 0 .. Len(asked')
    BY <1>1, <1>4 DEF DoorInv, PolicyInv, TypeOK, Threads, ThreadStates
  <2>2. answers \in Seq([request : 1 .. Len(asked'), reply : Clearances \cup Statuses])
    <3>1. [request : 1 .. Len(asked), reply : Clearances \cup Statuses]
             \subseteq [request : 1 .. Len(asked'), reply : Clearances \cup Statuses]
      BY <2>1
    <3> QED
      BY <3>1, SeqWidens DEF DoorInv, PolicyInv, TypeOK
  <2> QED
    BY <1>1, <1>2, <1>3, <1>4, <2>1, <2>2
    DEF DoSendRequestToDB, Enter, DoorInv, PolicyInv, TypeOK
<1>6. CallbackOK'
  BY <1>2 DEF DoorInv, PolicyInv, CallbackOK
<1>7. GatewayOK'
  <2>1. \A i \in DOMAIN answers : answers[i].request \in 1 .. Len(asked)
    <3> DEFINE R == [request : 1 .. Len(asked), reply : Clearances \cup Statuses]
    <3>1. answers \in Seq(R)
      BY DEF DoorInv, PolicyInv, TypeOK
    <3>2. \A r \in R : r.request \in 1 .. Len(asked)
      OBVIOUS
    <3> HIDE DEF R
    <3> QED
      BY <3>1, <3>2, SeqElements
  <2> QED
    BY <1>1, <1>2, <1>4, <2>1 DEF DoSendRequestToDB, Enter, DoorInv, PolicyInv, GatewayOK
<1>8. KeypadOK'
  <2>1. Len(asked') \notin cancelled'
    BY <1>1, <1>4 DEF DoSendRequestToDB, DoorInv, PolicyInv, TypeOK
  <2> QED
    BY <1>1, <1>4, <2>1 DEF DoorInv, PolicyInv, EnterOK, KeypadOK, LastAsked
<1>9. EventOK' /\ EnterOK' /\ StopOK'
  BY <1>2 DEF EventOK, EnterOK, StopOK
<1>10. OweInv'
  BY <1>1, <1>2, <1>3 DEF DoSendRequestToDB, Enter, DoorInv, PolicyInv, EnterOK, OweInv
<1>11. DeadlineInv'
  BY <1>1, <1>2 DEF DoSendRequestToDB, Enter, DoorInv, DeadlineInv, Inside
<1> QED
  BY <1>5, <1>6, <1>7, <1>8, <1>9, <1>10, <1>11 DEF DoorInv, PolicyInv

LEMMA MainSignalStep ==
    ASSUME DoorInv, DoSignal("mainLoop")
    PROVE  DoorInv'
<1> DEFINE th == thread["mainLoop"]
<1>1. /\ th.step = "enter" /\ th.action \in {"SignalResult", "OpenDoors", "OpenDoorsIfAuthorized"}
      /\ keypad' = "Idle" /\ th.next = "Idle"
  BY DEF DoSignal, Enter, DoorInv, PolicyInv, EnterOK
<1> DEFINE step == IF th.action = "OpenDoorsIfAuthorized" /\ ~guestAccess THEN "finish" ELSE "stop"
<1>2. Proceed("mainLoop", step) /\ step \in Steps
  BY DEF DoSignal, Steps
<1>3. step \in {"stop", "finish"}
      /\ (step = "stop" /\ th.action = "OpenDoorsIfAuthorized" => guestAccess)
  OBVIOUS
<1> HIDE DEF step
<1>4. /\ thread' \in [Threads -> ThreadStates]
      /\ thread'["mainLoop"].step = step
      /\ thread'["mainLoop"].action = th.action
      /\ thread'["callback"] = thread["callback"]
      /\ overlap' \in BOOLEAN
      /\ overlap => overlap'
  BY <1>2, ProceedFacts DEF DoorInv, PolicyInv, Threads
<1>5. timeouts' = timeouts /\ timeouts \in Nat
  BY <1>1 DEF DoSignal, Enter, DoorInv, PolicyInv, TypeOK, EnterOK
<1>6. TypeOK'
  BY <1>1, <1>4, <1>5 DEF DoSignal, Enter, DoorInv, PolicyInv, TypeOK, KeypadStates
<1>7. CallbackOK' /\ KeypadOK'
  BY <1>1, <1>4 DEF DoorInv, PolicyInv, CallbackOK, KeypadOK, Waiting
<1>8. GatewayOK'
  BY <1>1, <1>3, <1>4 DEF DoSignal, Enter, DoorInv, PolicyInv, GatewayOK
<1>9. EventOK' /\ EnterOK'
  BY <1>3, <1>4 DEF EventOK, EnterOK
<1>10. StopOK'
  <2>1. UNCHANGED <<asked, answers, openings, cancelled, guestAccess>>
    BY DEF DoSignal, Enter
  <2> QED
    BY <1>1, <1>3, <1>4, <2>1 DEF DoorInv, PolicyInv, EnterOK, StopOK, OnReply, LastAsked, LastVerdict
<1>11. OweInv'
  BY <1>1, <1>3, <1>4, <1>5 DEF DoSignal, Enter, DoorInv, OweInv, Waiting
<1>12. DeadlineInv'
  BY <1>1, <1>3, <1>4 DEF DoSignal, Enter, DoorInv, DeadlineInv, Inside, Waiting
<1> QED
  BY <1>6, <1>7, <1>8, <1>9, <1>10, <1>11, <1>12 DEF DoorInv, PolicyInv

LEMMA MainCancelStep ==
    ASSUME DoorInv, DoCancelAction("mainLoop")
    PROVE  DoorInv'
<1> DEFINE th == thread["mainLoop"]
<1>1. /\ th.step = "enter" /\ th.action = "CancelAction" /\ th.next = "WaitingDatabase_Request"
      /\ keypad' = "WaitingDatabase_Request" /\ asked # <<>>
  BY DEF DoCancelAction, Enter, DoorInv, PolicyInv, EnterOK
<1>2. /\ thread' \in [Threads -> ThreadStates]
      /\ thread'["mainLoop"].step = "finish"
      /\ thread'["callback"] = thread["callback"]
      /\ overlap' \in BOOLEAN
      /\ overlap => overlap'
  BY ProceedFacts DEF DoCancelAction, DoorInv, PolicyInv, Threads, Steps
<1>3. timeouts' = timeouts /\ timeouts \in Nat
  BY <1>1 DEF DoCancelAction, Enter, DoorInv, PolicyInv, TypeOK, EnterOK
<1>4. TypeOK'
  <2>1. Len(asked) \in 1 .. Len(asked)
    BY <1>1 DEF DoorInv, PolicyInv, TypeOK
  <2> QED
    BY <1>1, <1>2, <1>3, <2>1 DEF DoCancelAction, Enter, DoorInv, PolicyInv, TypeOK, KeypadStates, Waiting
<1>5. CallbackOK' /\ KeypadOK'
  BY <1>1, <1>2 DEF DoCancelAction, Enter, DoorInv, PolicyInv, CallbackOK, KeypadOK, Waiting
<1>6. GatewayOK'
  BY <1>1, <1>2 DEF DoCancelAction, Enter, DoorInv, PolicyInv, GatewayOK
<1>7. EventOK' /\ EnterOK' /\ StopOK'
  BY <1>2 DEF EventOK, EnterOK, StopOK
<1>8. OweInv'
  BY <1>1, <1>2, <1>3 DEF DoCancelAction, Enter, DoorInv, OweInv, Waiting
<1>9. DeadlineInv'
  BY <1>1, <1>2 DEF DoCancelAction, Enter, DoorInv, DeadlineInv, Inside, Waiting
<1> QED
  BY <1>4, <1>5, <1>6, <1>7, <1>8, <1>9 DEF DoorInv, PolicyInv

LEMMA MainSwitchStep ==
    ASSUME DoorInv, DoSwitchGuestAccess("mainLoop")
    PROVE  DoorInv'
<1> DEFINE th == thread["mainLoop"]
<1>1. /\ th.step = "enter" /\ th.action \in {"EnableGuestAccess", "DisableGuestAccess"}
      /\ keypad' = "Idle" /\ th.next = "Idle"
  BY DEF DoSwitchGuestAccess, Enter, DoorInv, PolicyInv, EnterOK
<1>2. /\ thread' \in [Threads -> ThreadStates]
      /\ thread'["mainLoop"].step = "finish"
      /\ thread'["callback"] = thread["callback"]
      /\ overlap' \in BOOLEAN
      /\ overlap => overlap'
  BY ProceedFacts DEF DoSwitchGuestAccess, DoorInv, PolicyInv, Threads, Steps
<1>3. timeouts' = timeouts /\ timeouts \in Nat
  BY <1>1 DEF DoSwitchGuestAccess, Enter, DoorInv, PolicyInv, TypeOK, EnterOK
<1>4. TypeOK'
  <2>1. guestAccess' \in BOOLEAN /\ keypad' \in KeypadStates
    BY <1>1 DEF DoSwitchGuestAccess, KeypadStates
  <2> QED
    BY <1>2, <1>3, <2>1 DEF DoSwitchGuestAccess, Enter, DoorInv, PolicyInv, TypeOK
<1>5. CallbackOK' /\ KeypadOK'
  BY <1>1, <1>2 DEF DoorInv, PolicyInv, CallbackOK, KeypadOK, Waiting
<1>6. GatewayOK'
  BY <1>1, <1>2 DEF DoSwitchGuestAccess, Enter, DoorInv, PolicyInv, GatewayOK
<1>7. EventOK' /\ EnterOK' /\ StopOK'
  BY <1>2 DEF EventOK, EnterOK, StopOK
<1>8. OweInv'
  BY <1>1, <1>2, <1>3 DEF DoSwitchGuestAccess, Enter, DoorInv, OweInv, Waiting
<1>9. DeadlineInv'
  BY <1>1, <1>2 DEF DoSwitchGuestAccess, Enter, DoorInv, DeadlineInv, Inside, Waiting
<1> QED
  BY <1>4, <1>5, <1>6, <1>7, <1>8, <1>9 DEF DoorInv, PolicyInv

LEMMA MainSendStep ==
    ASSUME DoorInv, Send("mainLoop")
    PROVE  DoorInv'
<1> DEFINE th == thread["mainLoop"]
<1>1. /\ th.step = "send"
      /\ UNCHANGED <<keypad, main, guestAccess, timer, asked, answers, openings, cancelled,
                     timeouts, messages>>
  BY DEF Send, historyVars
<1>2. PICK step \in {"start", "blocked"} : Proceed("mainLoop", step)
  BY DEF Send
<1>3. /\ thread' \in [Threads -> ThreadStates]
      /\ thread'["mainLoop"].step = step
      /\ thread'["callback"] = thread["callback"]
      /\ overlap' \in BOOLEAN
      /\ overlap => overlap'
      /\ ~overlap' => ~Inside(thread'["callback"]) \/ step = "blocked"
  BY <1>2, ProceedFacts DEF DoorInv, PolicyInv, Threads, Steps, Inside
<1>4. /\ gateway' \in 0 .. Len(asked) /\ wedged' \in BOOLEAN
      /\ ~wedged' => gateway' = Len(asked)
      /\ wedged' => gateway # 0 \/ wedged
      /\ gateway' \in {gateway, Len(asked)}
  <2>1. gateway \in 0 .. Len(asked) /\ wedged \in BOOLEAN /\ Len(asked) \in Nat
    BY DEF DoorInv, PolicyInv, TypeOK
  <2>2. \/ gateway' = Len(asked) /\ wedged' = wedged
        \/ gateway # 0 /\ gateway' = gateway /\ wedged' = TRUE
    BY DEF Send
  <2>3. gateway' \in 0 .. Len(asked)
    BY <2>1, <2>2
  <2>4. wedged' \in BOOLEAN
    BY <2>1, <2>2, Zenon
  <2>5. wedged' => gateway # 0 \/ wedged
    BY <2>1, <2>2, Zenon
  <2>6. ~wedged' => gateway' = Len(asked)
    BY <2>2, Zenon
  <2> QED
    BY <2>2, <2>3, <2>4, <2>5, <2>6
<1>5. TypeOK'
  BY <1>1, <1>3, <1>4 DEF DoorInv, PolicyInv, TypeOK
<1>6. CallbackOK' /\ KeypadOK'
  BY <1>1, <1>3 DEF DoorInv, PolicyInv, CallbackOK, KeypadOK, LastAsked
<1>7. GatewayOK'
  BY <1>1, <1>3, <1>4 DEF DoorInv, PolicyInv, GatewayOK
<1>8. EventOK' /\ EnterOK' /\ StopOK'
  BY <1>3 DEF EventOK, EnterOK, StopOK
<1>9. OweInv'
  BY <1>1, <1>3, <1>4 DEF DoorInv, PolicyInv, TypeOK, OweInv
<1>10. DeadlineInv'
  BY <1>1, <1>3 DEF DoorInv, PolicyInv, CallbackOK, DeadlineInv, Inside
<1> QED
  BY <1>5, <1>6, <1>7, <1>8, <1>9, <1>10 DEF DoorInv, PolicyInv

LEMMA MainStartStep ==
    ASSUME DoorInv, StartTimer("mainLoop")
    PROVE  DoorInv'
<1>1. /\ thread["mainLoop"].step = "start" /\ timer' = TRUE
      /\ UNCHANGED <<keypad, main, guestAccess, gateway, wedged, asked, answers, openings,
                     cancelled, timeouts, messages>>
  BY DEF StartTimer, historyVars
<1>2. /\ thread' \in [Threads -> ThreadStates]
      /\ thread'["mainLoop"].step = "rest"
      /\ thread'["callback"] = thread["callback"]
      /\ overlap' \in BOOLEAN
      /\ overlap => overlap'
  BY ReturnFacts DEF StartTimer, DoorInv, PolicyInv, Threads
<1>3. TypeOK'
  BY <1>1, <1>2 DEF DoorInv, PolicyInv, TypeOK
<1>4. CallbackOK' /\ KeypadOK' /\ GatewayOK'
  BY <1>1, <1>2 DEF DoorInv, PolicyInv, CallbackOK, KeypadOK, LastAsked, GatewayOK
<1>5. EventOK' /\ EnterOK' /\ StopOK'
  BY <1>2 DEF EventOK, EnterOK, StopOK
<1>6. OweInv' /\ DeadlineInv'
  BY <1>1, <1>2 DEF DoorInv, OweInv, DeadlineInv, Inside
<1> QED
  BY <1>3, <1>4, <1>5, <1>6 DEF DoorInv, PolicyInv

LEMMA MainStopStep ==
    ASSUME DoorInv, StopTimer("mainLoop")
    PROVE  DoorInv'
<1> DEFINE th == thread["mainLoop"]
<1>1. /\ th.step = "stop" /\ timer' = FALSE
      /\ UNCHANGED <<keypad, main, guestAccess, gateway, wedged, asked, answers, cancelled,
                     timeouts, messages>>
  BY DEF StopTimer
<1>2. /\ thread' \in [Threads -> ThreadStates]
      /\ thread'["mainLoop"].step = "finish"
      /\ thread'["callback"] = thread["callback"]
      /\ overlap' \in BOOLEAN
      /\ overlap => overlap'
  BY ProceedFacts DEF StopTimer, DoorInv, PolicyInv, Threads, Steps
<1>3. openings' \in Seq(1 .. Len(answers))
  <2>1. CASE th.action = "SignalResult"
    BY <2>1 DEF StopTimer, DoorInv, PolicyInv, TypeOK
  <2>2. CASE th.action # "SignalResult"
    <3>1. answers # <<>> /\ answers \in Seq([request : 1 .. Len(asked), reply : Clearances \cup Statuses])
      BY <1>1, <2>2 DEF DoorInv, PolicyInv, StopOK, OnReply, TypeOK
    <3>2. Len(answers) \in 1 .. Len(answers)
      BY <3>1
    <3>3. openings' = Append(openings, Len(answers)) /\ openings \in Seq(1 .. Len(answers))
      BY <2>2 DEF StopTimer, DoorInv, PolicyInv, TypeOK
    <3> QED
      BY <3>2, <3>3, AppendFacts
  <2> QED
    BY <2>1, <2>2
<1>4. TypeOK'
  BY <1>1, <1>2, <1>3 DEF DoorInv, PolicyInv, TypeOK
<1>5. CallbackOK' /\ KeypadOK' /\ GatewayOK'
  BY <1>1, <1>2 DEF DoorInv, PolicyInv, CallbackOK, KeypadOK, LastAsked, GatewayOK
<1>6. EventOK' /\ EnterOK' /\ StopOK'
  BY <1>2 DEF EventOK, EnterOK, StopOK
<1>7. OweInv' /\ DeadlineInv'
  BY <1>1, <1>2 DEF DoorInv, OweInv, DeadlineInv, Inside, Waiting
<1> QED
  BY <1>4, <1>5, <1>6, <1>7 DEF DoorInv, PolicyInv

LEMMA MainFinishStep ==
    ASSUME DoorInv, SignalFinish("mainLoop")
    PROVE  DoorInv'
<1>1. /\ thread["mainLoop"].step = "finish" /\ main' = "Idle"
      /\ UNCHANGED <<keypad, guestAccess, timer, gateway, wedged, asked, answers, openings,
                     cancelled, timeouts, messages>>
  BY DEF SignalFinish, historyVars
<1>2. /\ thread' \in [Threads -> ThreadStates]
      /\ thread'["mainLoop"].step = "rest"
      /\ thread'["callback"] = thread["callback"]
      /\ overlap' \in BOOLEAN
      /\ overlap => overlap'
  BY ReturnFacts DEF SignalFinish, DoorInv, PolicyInv, Threads
<1>3. TypeOK'
  BY <1>1, <1>2 DEF DoorInv, PolicyInv, TypeOK
<1>4. CallbackOK' /\ KeypadOK' /\ GatewayOK'
  BY <1>1, <1>2 DEF DoorInv, PolicyInv, CallbackOK, KeypadOK, LastAsked, GatewayOK
<1>5. EventOK' /\ EnterOK' /\ StopOK'
  BY <1>2 DEF EventOK, EnterOK, StopOK
<1>6. OweInv' /\ DeadlineInv'
  BY <1>1, <1>2 DEF DoorInv, OweInv, DeadlineInv, Inside
<1> QED
  BY <1>3, <1>4, <1>5, <1>6 DEF DoorInv, PolicyInv

LEMMA MainLoopStep ==
    ASSUME DoorControlAssumption, DoorInv, ProcessEvent("mainLoop")
    PROVE  DoorInv'
BY MainLookupStep, MainDoNothingStep, MainSendRequestStep, MainSignalStep, MainCancelStep,
   MainSwitchStep, MainSendStep, MainStartStep, MainStopStep, MainFinishStep DEF ProcessEvent

LEMMA StutterStep ==
    ASSUME DoorInv, UNCHANGED vars
    PROVE  DoorInv'
BY DEF vars, historyVars, DoorInv, PolicyInv, TypeOK, CallbackOK, KeypadOK, LastAsked, EventOK,
       EnterOK, StopOK, OnReply, LastVerdict, GatewayOK, OweInv, DeadlineInv, Inside

THEOREM DoorInvariant == Spec => []DoorInv
<1>1. Init => DoorInv
  BY InitInv, DoorControlAssumption
<1>2. DoorInv /\ [Next]_vars => DoorInv'
  BY KeypadMessageStep, DatabaseReplyStep, ReceiveEchoStep, ExpireStep, AbortStep,
     CallbackStep, MainLoopStep, StutterStep, DoorControlAssumption DEF Next, Gateway, Threads
<1> QED
  BY <1>1, <1>2, PTL DEF Spec

(* The state is the one the models of the runs have: every variable keeps  *)
(* its type, for every set of commands and any number of messages.         *)
THEOREM DoorTypeCorrect == Spec => []TypeOK
<1>1. DoorInv => TypeOK
  BY DEF DoorInv, PolicyInv
<1> QED
  BY <1>1, DoorInvariant, PTL

(* The mailboxes of both processes are lost to a collision of a request    *)
(* with a reply only after a deadline has passed.                          *)
THEOREM CollisionsFollowTimeouts == Spec => []CollisionNeedsTimeout
<1>1. DoorInv => CollisionNeedsTimeout
  BY DEF DoorInv, OweInv, CollisionNeedsTimeout
<1> QED
  BY <1>1, DoorInvariant, PTL

(* While the keypad automaton waits for the gateway, a timeout is to come, *)
(* as long as the two threads have not met.                                *)
THEOREM WaitsHaveDeadlines == Spec => []EveryWaitHasDeadline
<1>1. DoorInv => EveryWaitHasDeadline
  BY DEF DoorInv, DeadlineInv, EveryWaitHasDeadline
<1> QED
  BY <1>1, DoorInvariant, PTL

-----------------------------------------------------------------------------
(* The two automata agree.                                                 *)
Agreed ==
    \/ keypad = "Idle"
    \/ keypad = "WaitingDatabase_Request" /\ Len(asked) \in cancelled

AgreeInv ==
    LET th == thread["mainLoop"] IN
    ~overlap /\ ~wedged
       => /\ th.step \in {"event", "enter", "stop", "finish"} => main = "Busy_KeypadRFID"
          /\ th.step \in {"send", "start", "blocked"} /\ main = "Idle" => keypad = "Idle"
          /\ th.step = "finish" => Agreed
          /\ th.step = "rest" /\ main = "Idle" => Agreed

LEMMA IdleAgrees == (keypad = "Idle" => Agreed) /\ (keypad' = "Idle" => Agreed')
BY DEF Agreed

(* In the steps of the main loop and of the callback, the other one stays. *)
LEMMA OthersStay ==
    ASSUME TypeOK
    PROVE  /\ \A step \in Steps : Proceed("callback", step)
                 => thread'["mainLoop"] = thread["mainLoop"] /\ (overlap => overlap')
           /\ \A step \in Steps : Proceed("mainLoop", step)
                 => thread'["mainLoop"].step = step /\ (overlap => overlap')
           /\ Return("callback")
                 => thread'["mainLoop"] = thread["mainLoop"] /\ (overlap => overlap')
           /\ Return("mainLoop") => thread'["mainLoop"].step = "rest" /\ (overlap => overlap')
           /\ \A row \in TransitionTable : Take("callback", row)
                 => thread'["mainLoop"] = thread["mainLoop"] /\ (overlap => overlap')
           /\ \A row \in TransitionTable : Take("mainLoop", row)
                 => thread'["mainLoop"].step = "enter" /\ (overlap => overlap')
           /\ \A th \in ThreadStates : Continue("callback", th)
                 => thread'["mainLoop"] = thread["mainLoop"] /\ (overlap => overlap')
           /\ \A th \in ThreadStates : Continue("mainLoop", th)
                 => thread'["mainLoop"] = th /\ (overlap => overlap')
BY ProceedFacts, ReturnFacts, TakeFacts, ContinueFacts DEF Threads

LEMMA AgreeMessages ==
    ASSUME DoorControlAssumption, DoorInv, AgreeInv,
           (\E msg \in KeypadMessages : KeypadMessage(msg)) \/ Gateway
    PROVE  AgreeInv'
<1>1. \A msg \in KeypadMessages :
         Received(KeypadEvent(msg), msg) \in ThreadStates
         /\ Received(KeypadEvent(msg), msg).step = "event"
  BY EventFacts, ReceivedRecord DEF Contents
<1>2. \A reply \in Clearances \cup Statuses :
         Received(ReplyEvent(reply), reply) \in ThreadStates
         /\ Received(ReplyEvent(reply), reply).step = "event"
  BY EventFacts, ReceivedRecord DEF Contents
<1>3. TypeOK
  BY DEF DoorInv, PolicyInv
<1>4. main' = "Busy_KeypadRFID" /\ thread'["mainLoop"].step = "event"
  BY <1>1, <1>2, <1>3, OthersStay DEF KeypadMessage, DatabaseReply, Gateway
<1> QED
  BY <1>4 DEF AgreeInv

LEMMA AgreeCallback ==
    ASSUME DoorControlAssumption, DoorInv, AgreeInv, Expire \/ ProcessEvent("callback")
    PROVE  AgreeInv'
<1>1. TypeOK /\ Steps # {}
  BY DEF DoorInv, PolicyInv, Steps
<1>2. CASE Expire
  <2>1. Received("TimedOut", "Enter") \in ThreadStates
    BY ReceivedRecord DEF Events, Contents, KeypadMessages
  <2>2. thread'["mainLoop"] = thread["mainLoop"] /\ (overlap => overlap')
    BY <1>1, <1>2, <2>1, OthersStay DEF Expire
  <2> QED
    BY <1>2, <2>2 DEF Expire, historyVars, AgreeInv, Agreed
<1>3. CASE Lookup("callback")
  <2>1. thread'["mainLoop"] = thread["mainLoop"] /\ (overlap => overlap')
    BY <1>1, <1>3, OthersStay DEF Lookup, Rows
  <2> QED
    BY <1>3, <2>1 DEF Lookup, historyVars, AgreeInv, Agreed
<1>4. CASE DoSignal("callback")
  <2>1. /\ thread["callback"].step = "enter" /\ thread["callback"].action = "SignalResult"
        /\ keypad' = "Idle"
    BY <1>4 DEF DoSignal, Enter, DoorInv, PolicyInv, CallbackOK
  <2>2. Proceed("callback", "stop")
    BY <1>4, <2>1 DEF DoSignal
  <2>3. thread'["mainLoop"] = thread["mainLoop"] /\ (overlap => overlap')
    BY <1>1, <2>2, OthersStay DEF Steps
  <2> QED
    BY <1>4, <2>1, <2>3 DEF DoSignal, Enter, AgreeInv, Agreed
<1>5. CASE StopTimer("callback")
  <2>1. thread'["mainLoop"] = thread["mainLoop"] /\ (overlap => overlap')
    BY <1>1, <1>5, OthersStay DEF StopTimer, Steps
  <2> QED
    BY <1>5, <2>1 DEF StopTimer, AgreeInv, Agreed
<1>6. CASE SignalFinish("callback")
  <2>1. thread'["mainLoop"] = thread["mainLoop"] /\ (overlap => overlap')
    BY <1>1, <1>6, OthersStay DEF SignalFinish
  <2>2. ~overlap => keypad = "Idle" /\ thread["mainLoop"].step \in {"rest", "send", "blocked"}
    BY <1>6 DEF SignalFinish, DoorInv, PolicyInv, TypeOK, DeadlineInv, Inside
  <2>3. UNCHANGED <<keypad, wedged>>
    BY <1>6 DEF SignalFinish
  <2>4. ~overlap' => Agreed' /\ thread'["mainLoop"].step \in {"rest", "send", "blocked"}
    BY <2>1, <2>2, <2>3, IdleAgrees
  <2> QED
    BY <2>1, <2>2, <2>3, <2>4 DEF AgreeInv
<1>7. /\ ~DoNothing("callback") /\ ~DoSendRequestToDB("callback")
      /\ ~DoCancelAction("callback") /\ ~DoSwitchGuestAccess("callback")
      /\ ~Send("callback") /\ ~StartTimer("callback")
  BY DEF DoNothing, DoSendRequestToDB, DoCancelAction, DoSwitchGuestAccess, Enter, Send,
         StartTimer, DoorInv, PolicyInv, CallbackOK
<1> QED
  BY <1>2, <1>3, <1>4, <1>5, <1>6, <1>7 DEF ProcessEvent

LEMMA AgreeMainLoop ==
    ASSUME DoorControlAssumption, DoorInv, AgreeInv, ProcessEvent("mainLoop")
    PROVE  AgreeInv'
<1>1. TypeOK
  BY DEF DoorInv, PolicyInv
<1>2. CASE Lookup("mainLoop")
  <2>1. thread'["mainLoop"].step \in {"rest", "enter"} /\ (overlap => overlap')
    BY <1>1, <1>2, OthersStay DEF Lookup, Rows
  <2> QED
    BY <1>2, <2>1 DEF Lookup, historyVars, AgreeInv
<1>3. CASE DoNothing("mainLoop")
  <2>1. thread'["mainLoop"].step = "rest" /\ (overlap => overlap')
    BY <1>1, <1>3, OthersStay DEF DoNothing
  <2> QED
    BY <1>3, <2>1 DEF DoNothing, Enter, AgreeInv
<1>4. CASE DoSendRequestToDB("mainLoop")
  <2>1. thread'["mainLoop"].step = "send" /\ (overlap => overlap')
    BY <1>1, <1>4, OthersStay DEF DoSendRequestToDB, Steps
  <2> QED
    BY <1>4, <2>1 DEF DoSendRequestToDB, Enter, AgreeInv
<1>5. CASE DoSignal("mainLoop")
  <2>1. thread'["mainLoop"].step \in {"stop", "finish"} /\ (overlap => overlap')
    BY <1>1, <1>5, OthersStay DEF DoSignal, Steps
  <2>2. Agreed'
    BY <1>5, IdleAgrees DEF DoSignal, Enter, DoorInv, PolicyInv, EnterOK
  <2> QED
    BY <1>5, <2>1, <2>2 DEF DoSignal, Enter, AgreeInv
<1>6. CASE DoCancelAction("mainLoop")
  <2>1. thread'["mainLoop"].step = "finish" /\ (overlap => overlap')
    BY <1>1, <1>6, OthersStay DEF DoCancelAction, Steps
  <2>2. keypad' = "WaitingDatabase_Request" /\ Len(asked') \in cancelled'
    BY <1>6 DEF DoCancelAction, Enter, DoorInv, PolicyInv, EnterOK
  <2> QED
    BY <1>6, <2>1, <2>2 DEF DoCancelAction, Enter, AgreeInv, Agreed
<1>7. CASE DoSwitchGuestAccess("mainLoop")
  <2>1. thread'["mainLoop"].step = "finish" /\ (overlap => overlap')
    BY <1>1, <1>7, OthersStay DEF DoSwitchGuestAccess, Steps
  <2>2. Agreed'
    BY <1>7, IdleAgrees DEF DoSwitchGuestAccess, Enter, DoorInv, PolicyInv, EnterOK
  <2> QED
    BY <1>7, <2>1, <2>2 DEF DoSwitchGuestAccess, Enter, AgreeInv
<1>8. CASE Send("mainLoop")
  <2>1. /\ thread["mainLoop"].step = "send"
        /\ thread'["mainLoop"].step \in {"start", "blocked"} /\ (overlap => overlap')
    BY <1>1, <1>8, OthersStay DEF Send, Steps
  <2>2. wedged => wedged'
    BY <1>8 DEF Send
  <2> QED
    BY <1>8, <2>1, <2>2 DEF Send, historyVars, AgreeInv
<1>9. CASE StartTimer("mainLoop")
  <2>1. thread'["mainLoop"].step = "rest" /\ (overlap => overlap')
    BY <1>1, <1>9, OthersStay DEF StartTimer
  <2>2. ~overlap' /\ ~wedged' /\ main' = "Idle" => Agreed'
    BY <1>9, <2>1, IdleAgrees DEF StartTimer, historyVars, AgreeInv
  <2> QED
    BY <2>1, <2>2 DEF AgreeInv
<1>10. CASE StopTimer("mainLoop")
  <2>1. thread'["mainLoop"].step = "finish" /\ (overlap => overlap')
    BY <1>1, <1>10, OthersStay DEF StopTimer, Steps
  <2>2. ~overlap' => Agreed'
    BY <1>10, <2>1, IdleAgrees DEF StopTimer, DoorInv, DeadlineInv
  <2> QED
    BY <1>10, <2>1, <2>2 DEF StopTimer, AgreeInv
<1>11. CASE SignalFinish("mainLoop")
  <2>1. thread'["mainLoop"].step = "rest" /\ (overlap => overlap')
    BY <1>1, <1>11, OthersStay DEF SignalFinish
  <2> QED
    BY <1>11, <2>1 DEF SignalFinish, historyVars, AgreeInv, Agreed
<1> QED
  BY <1>2, <1>3, <1>4, <1>5, <1>6, <1>7, <1>8, <1>9, <1>10, <1>11 DEF ProcessEvent

(* An idle MainAutomaton at rest means an idle keypad automaton, or one    *)
(* that waits for the reply to a request the user has cancelled.           *)
THEOREM TheAutomataAgree == Spec => []AutomataAgree
<1>1. Init => AgreeInv
  <2> SUFFICES ASSUME Init PROVE AgreeInv
    OBVIOUS
  <2>1. thread["mainLoop"].step = "rest"
    BY RestRecord DEF Init, Threads
  <2>2. Agreed
    BY IdleAgrees DEF Init
  <2> QED
    BY <2>1, <2>2 DEF AgreeInv
<1>2. DoorInv /\ AgreeInv /\ [Next]_vars => AgreeInv'
  <2> SUFFICES ASSUME DoorInv, AgreeInv, [Next]_vars PROVE AgreeInv'
    OBVIOUS
  <2>1. CASE ReceiveEcho
    BY <2>1 DEF ReceiveEcho, AgreeInv
  <2>2. CASE Abort
    <3>1. overlap'
      BY <2>2 DEF Abort
    <3> QED
      BY <2>2, <3>1 DEF Abort, AgreeInv
  <2>3. CASE UNCHANGED vars
    BY <2>3 DEF vars, historyVars, AgreeInv, Agreed
  <2> QED
    BY <2>1, <2>2, <2>3, AgreeMessages, AgreeCallback, AgreeMainLoop, DoorControlAssumption
    DEF Next, Threads
<1>3. AgreeInv => AutomataAgree
  BY RestRecord DEF AgreeInv, Agreed, AutomataAgree, Settled, Threads
<1> QED
  BY <1>1, <1>2, <1>3, DoorInvariant, PTL DEF Spec

-----------------------------------------------------------------------------
(* The refinement.  What the sequences of DoorPolicy hold.                 *)
LEMMA MapSeq ==
    ASSUME NEW S, NEW T, NEW s \in Seq(S), NEW f, f = [i \in DOMAIN s |-> f[i]],
           \A i \in DOMAIN s : f[i] \in T
    PROVE  f \in Seq(T) /\ Len(f) = Len(s) /\ DOMAIN f = 1 .. Len(s)
<1>1. DOMAIN s = 1 .. Len(s) /\ Len(s) \in Nat
  OBVIOUS
<1>2. f \in [1 .. Len(s) -> T]
  BY <1>1
<1> QED
  BY <1>1, <1>2

LEMMA AppendFunction ==
    ASSUME NEW S, NEW s \in Seq(S), NEW e \in S, NEW f,
           DOMAIN f = 1 .. Len(s) + 1, f = [i \in DOMAIN f |-> f[i]],
           \A i \in 1 .. Len(s) : f[i] = s[i],
           f[Len(s) + 1] = e
    PROVE  f = Append(s, e)
<1>1. Append(s, e) \in Seq(S) /\ Len(Append(s, e)) = Len(s) + 1
  OBVIOUS
<1>2. \A i \in 1 .. Len(s) + 1 : f[i] = Append(s, e)[i]
  OBVIOUS
<1> DEFINE g == Append(s, e)
<1>3. g \in Seq(S) /\ Len(g) = Len(s) + 1 /\ (\A i \in 1 .. Len(s) + 1 : f[i] = g[i])
  BY <1>1, <1>2
<1> HIDE DEF g
<1>4. g \in [1 .. Len(s) + 1 -> S]
  BY <1>3
<1>5. f \in [1 .. Len(s) + 1 -> S]
  OBVIOUS
<1>6. f = g
  BY <1>3, <1>4, <1>5
<1> QED
  BY <1>6 DEF g

LEMMA VerdictsFacts ==
    ASSUME TypeOK
    PROVE  /\ Verdicts \in Seq([request : 1 .. Len(asked), verdict : Policy!Verdicts])
           /\ Len(Verdicts) = Len(answers) /\ DOMAIN Verdicts = 1 .. Len(answers)
           /\ DOMAIN answers = 1 .. Len(answers) /\ Len(answers) \in Nat
           /\ \A i \in DOMAIN answers : answers[i].request \in 1 .. Len(asked)
           /\ \A i \in DOMAIN answers :
                 Verdicts[i] = [request |-> answers[i].request, verdict |-> Verdict(answers[i].reply)]
<1> DEFINE R == [request : 1 .. Len(asked), reply : Clearances \cup Statuses]
           V == [request : 1 .. Len(asked), verdict : Policy!Verdicts]
<1>1. answers \in Seq(R)
  BY DEF TypeOK
<1>2. \A reply : Verdict(reply) \in Policy!Verdicts
  BY DEF Verdict, Policy!Verdicts
<1>3. \A r \in R : r.request \in 1 .. Len(asked)
                 /\ [request |-> r.request, verdict |-> Verdict(r.reply)] \in V
  BY <1>2
<1> HIDE DEF R, V
<1>4. \A i \in DOMAIN answers : answers[i] \in R
  BY <1>1, SeqElements
<1>5. \A i \in DOMAIN answers :
         Verdicts[i] = [request |-> answers[i].request, verdict |-> Verdict(answers[i].reply)]
  BY DEF Verdicts
<1>6. Verdicts = [i \in DOMAIN answers |-> Verdicts[i]]
  BY DEF Verdicts
<1>7. \A i \in DOMAIN answers : Verdicts[i] \in V
  BY <1>3, <1>4, <1>5
<1>8. Verdicts \in Seq(V) /\ Len(Verdicts) = Len(answers) /\ DOMAIN Verdicts = 1 .. Len(answers)
  BY <1>1, <1>6, <1>7, MapSeq
<1>9. DOMAIN answers = 1 .. Len(answers) /\ Len(answers) \in Nat
  BY <1>1
<1> QED
  BY <1>3, <1>4, <1>5, <1>8, <1>9 DEF V

LEMMA OpenedOnFacts ==
    ASSUME TypeOK
    PROVE  /\ OpenedOn \in Seq(1 .. Len(asked))
           /\ Len(OpenedOn) = Len(openings) /\ DOMAIN OpenedOn = 1 .. Len(openings)
           /\ DOMAIN openings = 1 .. Len(openings) /\ Len(openings) \in Nat
           /\ \A i \in DOMAIN openings : openings[i] \in DOMAIN answers
           /\ \A i \in DOMAIN openings : OpenedOn[i] = answers[openings[i]].request
<1>1. openings \in Seq(1 .. Len(answers)) /\ DOMAIN answers = 1 .. Len(answers)
  BY VerdictsFacts DEF TypeOK
<1>2. \A i \in DOMAIN openings : openings[i] \in DOMAIN answers
  BY <1>1
<1>3. \A i \in DOMAIN openings : OpenedOn[i] = answers[openings[i]].request
  BY DEF OpenedOn
<1>4. \A i \in DOMAIN openings : OpenedOn[i] \in 1 .. Len(asked)
  BY <1>2, <1>3, VerdictsFacts
<1>5. OpenedOn = [i \in DOMAIN openings |-> OpenedOn[i]]
  BY DEF OpenedOn
<1>6. OpenedOn \in Seq(1 .. Len(asked)) /\ Len(OpenedOn) = Len(openings)
      /\ DOMAIN OpenedOn = 1 .. Len(openings)
  <2> DEFINE S == 1 .. Len(answers)
             T == 1 .. Len(asked)
             f == OpenedOn
  <2>1. openings \in Seq(S) /\ (\A i \in DOMAIN openings : f[i] \in T)
        /\ f = [i \in DOMAIN openings |-> f[i]]
    BY <1>1, <1>4, <1>5
  <2> HIDE DEF S, T, f
  <2>2. f \in Seq(T) /\ Len(f) = Len(openings) /\ DOMAIN f = 1 .. Len(openings)
    BY <2>1, MapSeq
  <2> QED
    BY <2>2 DEF T, f
<1>7. DOMAIN openings = 1 .. Len(openings) /\ Len(openings) \in Nat
  BY <1>1
<1> QED
  BY <1>2, <1>3, <1>6, <1>7

LEMMA PolicyStutter ==
    ASSUME UNCHANGED <<asked, answers, cancelled, openings, guestAccess>>
    PROVE  UNCHANGED Policy!vars
BY DEF Policy!vars, Verdicts, OpenedOn

LEMMA PolicyAsk ==
    ASSUME DoorControlAssumption, DoorInv, DoSendRequestToDB("mainLoop")
    PROVE  Policy!Next
<1>1. asked' = Append(asked, thread["mainLoop"].content) /\ thread["mainLoop"].content \in Commands
  BY DEF DoSendRequestToDB, Enter, DoorInv, PolicyInv, EnterOK
<1>2. Commands \subseteq Policy!AllRequests
  BY DEF DoorControlAssumption, Policy!AllRequests, AllCommands, AdminCommands, GuestCommands
<1>3. UNCHANGED <<answers, cancelled, openings, guestAccess>>
  BY DEF DoSendRequestToDB, Enter
<1>4. UNCHANGED <<Verdicts, OpenedOn>>
  BY <1>3 DEF Verdicts, OpenedOn
<1> QED
  BY <1>1, <1>2, <1>3, <1>4 DEF Policy!Ask, Policy!Next

LEMMA PolicyCancel ==
    ASSUME DoorInv, DoCancelAction("mainLoop")
    PROVE  Policy!Next
<1>1. UNCHANGED <<asked, answers, openings, guestAccess>> /\ cancelled' = cancelled \cup {Len(asked)}
  BY DEF DoCancelAction, Enter
<1>2. UNCHANGED <<Verdicts, OpenedOn>>
  BY <1>1 DEF Verdicts, OpenedOn
<1> QED
  BY <1>1, <1>2 DEF Policy!Cancel, Policy!Next

(* What OnReply and LastAsked of a step say to DoorPolicy.                 *)
LEMMA PolicyStanding ==
    ASSUME DoorInv, OnReply, NEW commands, LastAsked(commands),
           NEW verdicts, LastVerdict \in verdicts
    PROVE  Policy!Standing(verdicts) /\ Policy!Last(asked) \in commands
<1>1. TypeOK /\ answers # <<>>
  BY DEF DoorInv, PolicyInv, OnReply
<1>2. Len(answers) \in DOMAIN answers /\ Verdicts # <<>>
  BY <1>1, VerdictsFacts DEF TypeOK
<1>3. Verdicts[Len(Verdicts)] = [request |-> Len(asked), verdict |-> LastVerdict]
  BY <1>1, <1>2, VerdictsFacts DEF OnReply, LastVerdict
<1> QED
  BY <1>2, <1>3 DEF Policy!Standing, Policy!Last, LastAsked

LEMMA PolicySwitch ==
    ASSUME DoorInv, DoSwitchGuestAccess("mainLoop")
    PROVE  Policy!Next
<1>1. /\ UNCHANGED <<asked, answers, openings, cancelled>>
      /\ guestAccess' = (thread["mainLoop"].action = "EnableGuestAccess")
      /\ thread["mainLoop"].action \in {"EnableGuestAccess", "DisableGuestAccess"}
      /\ thread["mainLoop"].step = "enter"
  BY DEF DoSwitchGuestAccess, Enter
<1>2. UNCHANGED <<Verdicts, OpenedOn>>
  BY <1>1 DEF Verdicts, OpenedOn
<1>3. CASE thread["mainLoop"].action = "EnableGuestAccess"
  <2>1. Policy!Standing({"granted"}) /\ Policy!Last(asked) \in {"GUEST_ACCESS_ENABLE"}
    BY <1>1, <1>3, PolicyStanding DEF DoorInv, PolicyInv, EnterOK
  <2> QED
    BY <1>1, <1>2, <1>3, <2>1 DEF Policy!Switch, Policy!Next
<1>4. CASE thread["mainLoop"].action = "DisableGuestAccess"
  <2>1. Policy!Standing({"granted"}) /\ Policy!Last(asked) \in {"GUEST_ACCESS_DISABLE"}
    BY <1>1, <1>4, PolicyStanding DEF DoorInv, PolicyInv, EnterOK
  <2> QED
    BY <1>1, <1>2, <1>4, <2>1 DEF Policy!Switch, Policy!Next
<1> QED
  BY <1>1, <1>3, <1>4

LEMMA PolicyAnswer ==
    ASSUME DoorInv, NEW reply \in Clearances \cup Statuses, DatabaseReply(reply), TypeOK'
    PROVE  Policy!Next
<1>1. /\ gateway = Len(asked) /\ gateway \in 1 .. Len(asked)
      /\ answers' = Append(answers, [request |-> Len(asked), reply |-> reply])
      /\ UNCHANGED <<asked, cancelled, openings, guestAccess>>
  BY DEF DatabaseReply, DoorInv, PolicyInv, TypeOK, GatewayOK
<1> DEFINE R == [request : 1 .. Len(asked), reply : Clearances \cup Statuses]
           V == [request : 1 .. Len(asked), verdict : Policy!Verdicts]
           e == [request |-> Len(asked), reply |-> reply]
           v == [request |-> Len(asked), verdict |-> Verdict(reply)]
<1>2. TypeOK /\ answers \in Seq(R) /\ e \in R
  BY <1>1 DEF DoorInv, PolicyInv, TypeOK
<1>3. /\ Len(answers') = Len(answers) + 1 /\ answers'[Len(answers')] = e
      /\ \A i \in DOMAIN answers : answers'[i] = answers[i]
      /\ DOMAIN answers = 1 .. Len(answers)
      /\ DOMAIN answers' = 1 .. Len(answers) + 1
  <2> HIDE DEF R, e
  <2>1. answers' = Append(answers, e)
    BY <1>1 DEF e
  <2> QED
    BY <1>2, <2>1, AppendFacts
<1>4. v \in V
  BY <1>1 DEF Verdict, Policy!Verdicts
<1>5. /\ Verdicts \in Seq(V) /\ Len(Verdicts) = Len(answers) /\ Len(answers) \in Nat
      /\ \A i \in 1 .. Len(answers) :
            Verdicts[i] = [request |-> answers[i].request, verdict |-> Verdict(answers[i].reply)]
  BY <1>2, VerdictsFacts
<1>6. /\ DOMAIN Verdicts' = 1 .. Len(Verdicts) + 1
      /\ Verdicts' = [i \in DOMAIN Verdicts' |-> Verdicts'[i]]
      /\ \A i \in DOMAIN Verdicts' :
            Verdicts'[i] = [request |-> answers'[i].request, verdict |-> Verdict(answers'[i].reply)]
  BY <1>3, <1>5 DEF Verdicts
<1>7. /\ \A i \in 1 .. Len(Verdicts) : Verdicts'[i] = Verdicts[i]
      /\ Verdicts'[Len(Verdicts) + 1] = v
  <2>1. \A i \in 1 .. Len(answers) : i \in DOMAIN answers /\ i \in DOMAIN Verdicts'
    BY <1>3, <1>5, <1>6
  <2>2. \A i \in 1 .. Len(answers) : Verdicts'[i] = Verdicts[i]
    BY <1>3, <1>5, <1>6, <2>1, Zenon
  <2>3. Len(answers') \in DOMAIN Verdicts' /\ Len(answers') = Len(Verdicts) + 1
    BY <1>3, <1>5, <1>6
  <2>4. e.request = Len(asked) /\ e.reply = reply
    OBVIOUS
  <2>5. Verdicts'[Len(answers')] = v
    BY <1>3, <1>6, <2>3, <2>4, Zenon
  <2> QED
    BY <1>5, <2>2, <2>3, <2>5
<1>8. Verdicts' = Append(Verdicts, v)
  <2> HIDE DEF V, v
  <2> QED
    BY <1>4, <1>5, <1>6, <1>7, AppendFunction
<1>9. UNCHANGED OpenedOn
  BY <1>1, <1>2, <1>3, OpenedOnFacts DEF OpenedOn
<1>10. Verdicts # <<>> => Policy!Last(Verdicts).request < Len(asked)
  <2> SUFFICES ASSUME Verdicts # <<>> PROVE Policy!Last(Verdicts).request < Len(asked)
    OBVIOUS
  <2>1. Len(answers) \in DOMAIN answers
    <3>1. Len(Verdicts) # 0
      BY <1>5
    <3> QED
      BY <1>3, <1>5, <3>1
  <2>2. answers[Len(answers)].request < Len(asked)
    BY <1>1, <2>1 DEF DoorInv, PolicyInv, GatewayOK
  <2>3. Verdicts[Len(answers)].request = answers[Len(answers)].request
    <3>1. Verdicts[Len(answers)] = [request |-> answers[Len(answers)].request,
                                    verdict |-> Verdict(answers[Len(answers)].reply)]
      BY <1>3, <1>5, <2>1, Zenon
    <3> QED
      BY <3>1
  <2> QED
    BY <1>5, <2>2, <2>3 DEF Policy!Last
<1>11. asked # <<>> /\ Verdict(reply) \in Policy!Verdicts
  BY <1>1 DEF Verdict, Policy!Verdicts
<1> QED
  BY <1>1, <1>8, <1>9, <1>10, <1>11 DEF Policy!Answer, Policy!Next

LEMMA PolicyOpen ==
    ASSUME DoorInv, StopTimer("mainLoop"), thread["mainLoop"].action # "SignalResult"
    PROVE  Policy!Next
<1>1. /\ thread["mainLoop"].step = "stop"
      /\ openings' = Append(openings, Len(answers))
      /\ UNCHANGED <<asked, answers, cancelled, guestAccess>>
  BY DEF StopTimer
<1> DEFINE allowed == IF guestAccess THEN {"granted", "guest"} ELSE {"granted"}
<1>2. OnReply /\ LastAsked(Opening) /\ LastVerdict \in allowed
  BY <1>1 DEF DoorInv, PolicyInv, StopOK
<1> HIDE DEF allowed
<1>3. Policy!Standing(allowed) /\ Policy!Last(asked) \in Opening
  BY <1>2, PolicyStanding
<1>4. TypeOK /\ answers # <<>> /\ openings \in Seq(1 .. Len(answers))
  BY <1>2 DEF DoorInv, PolicyInv, OnReply, TypeOK
<1>5. Len(answers) \in DOMAIN answers /\ answers[Len(answers)].request = Len(asked)
      /\ Len(asked) \in 1 .. Len(asked)
  <2>1. Len(answers) \in DOMAIN answers
    BY <1>4, VerdictsFacts DEF TypeOK
  <2> QED
    BY <1>2, <1>4, <2>1, VerdictsFacts DEF OnReply
<1>6. /\ Len(openings') = Len(openings) + 1 /\ openings'[Len(openings')] = Len(answers)
      /\ \A i \in DOMAIN openings : openings'[i] = openings[i]
      /\ DOMAIN openings = 1 .. Len(openings)
      /\ DOMAIN openings' = 1 .. Len(openings) + 1
  <2> DEFINE S == 1 .. Len(answers)
  <2>1. openings \in Seq(S) /\ Len(answers) \in S
    BY <1>4, <1>5, VerdictsFacts
  <2> HIDE DEF S
  <2> QED
    BY <1>1, <2>1, AppendFacts
<1>7. /\ OpenedOn \in Seq(1 .. Len(asked)) /\ Len(OpenedOn) = Len(openings)
      /\ Len(openings) \in Nat
      /\ \A i \in DOMAIN openings : OpenedOn[i] = answers[openings[i]].request
  BY <1>4, OpenedOnFacts
<1>8. /\ DOMAIN OpenedOn' = 1 .. Len(OpenedOn) + 1
      /\ OpenedOn' = [i \in DOMAIN OpenedOn' |-> OpenedOn'[i]]
      /\ \A i \in DOMAIN OpenedOn' : OpenedOn'[i] = answers[openings'[i]].request
  BY <1>1, <1>6, <1>7 DEF OpenedOn
<1>9. \A i \in 1 .. Len(OpenedOn) : OpenedOn'[i] = OpenedOn[i]
  BY <1>6, <1>7, <1>8
<1>10. OpenedOn'[Len(OpenedOn) + 1] = Len(asked)
  BY <1>5, <1>6, <1>7, <1>8
<1>11. OpenedOn' = Append(OpenedOn, Len(asked))
  BY <1>5, <1>7, <1>8, <1>9, <1>10, AppendFunction
<1>12. OpenedOn # <<>> => Policy!Last(OpenedOn) < Len(asked)
  <2> SUFFICES ASSUME OpenedOn # <<>> PROVE Policy!Last(OpenedOn) < Len(asked)
    OBVIOUS
  <2>1. Len(OpenedOn) # 0
    BY <1>7
  <2>2. openings # <<>> /\ Len(openings) \in DOMAIN openings
    BY <1>4, <1>6, <1>7, <2>1
  <2>3. openings[Len(openings)] < Len(answers)
    BY <1>2, <2>2 DEF OnReply
  <2>4. openings[Len(openings)] \in DOMAIN answers
    BY <1>4, <2>2, OpenedOnFacts
  <2>5. answers[openings[Len(openings)]].request < answers[Len(answers)].request
    BY <1>5, <2>3, <2>4 DEF DoorInv, PolicyInv, GatewayOK
  <2> QED
    BY <1>5, <1>7, <2>2, <2>5 DEF Policy!Last
<1>13. UNCHANGED Verdicts
  BY <1>1 DEF Verdicts
<1> QED
  BY <1>1, <1>3, <1>11, <1>12, <1>13 DEF allowed, Opening, Policy!Open, Policy!Next

LEMMA PolicyStep ==
    ASSUME DoorControlAssumption, DoorInv, [Next]_vars, TypeOK'
    PROVE  [Policy!Next]_(Policy!vars)
<1>1. CASE \/ \E msg \in KeypadMessages : KeypadMessage(msg)
           \/ ReceiveEcho \/ Expire \/ Abort \/ UNCHANGED vars
  <2>1. UNCHANGED <<asked, answers, cancelled, openings, guestAccess>>
    BY <1>1 DEF KeypadMessage, ReceiveEcho, Expire, Abort, vars, historyVars
  <2> QED
    BY <2>1, PolicyStutter
<1>2. CASE Gateway
  BY <1>2, PolicyAnswer DEF Gateway
<1>3. ASSUME NEW t \in Threads,
             \/ Lookup(t) \/ DoNothing(t) \/ DoSignal(t) \/ Send(t)
             \/ StartTimer(t) \/ SignalFinish(t)
             \/ StopTimer(t) /\ thread[t].action = "SignalResult"
      PROVE  [Policy!Next]_(Policy!vars)
  <2>1. UNCHANGED <<asked, answers, cancelled, openings, guestAccess>>
    BY <1>3 DEF Lookup, DoNothing, DoSignal, Enter, Send, StartTimer, SignalFinish, StopTimer,
                historyVars
  <2> QED
    BY <2>1, PolicyStutter
<1>4. CASE ProcessEvent("mainLoop")
  BY <1>3, <1>4, PolicyAsk, PolicyCancel, PolicySwitch, PolicyOpen DEF ProcessEvent, Threads
<1>5. CASE ProcessEvent("callback")
  <2>1. /\ ~DoSendRequestToDB("callback") /\ ~DoCancelAction("callback")
        /\ ~DoSwitchGuestAccess("callback")
        /\ StopTimer("callback") => thread["callback"].action = "SignalResult"
    BY DEF DoSendRequestToDB, DoCancelAction, DoSwitchGuestAccess, Enter, StopTimer,
           DoorInv, PolicyInv, CallbackOK
  <2> QED
    BY <1>3, <1>5, <2>1 DEF ProcessEvent, Threads
<1> QED
  BY <1>1, <1>2, <1>4, <1>5 DEF Next, Threads

(* The main application implements DoorPolicy: the door opens and the      *)
(* guest switch moves only on a positive reply to the last request, once,  *)
(* and never after the user has cancelled it, whatever the interleaving of *)
(* replies, timeouts and user input.                                       *)
THEOREM DoorImplementsPolicy == Spec => ImplementsDoorPolicy
<1>1. Init => Policy!Init
  <2> SUFFICES ASSUME Init PROVE Policy!Init
    OBVIOUS
  <2>1. answers = <<>> /\ openings = <<>>
    BY DEF Init
  <2>2. Verdicts = <<>> /\ OpenedOn = <<>>
    BY <2>1 DEF Verdicts, OpenedOn
  <2> QED
    BY <2>2 DEF Init, Policy!Init
<1>2. DoorInv /\ DoorInv' /\ [Next]_vars => [Policy!Next]_(Policy!vars)
  <2>1. DoorInv' => TypeOK'
    BY DEF DoorInv, PolicyInv
  <2> QED
    BY <2>1, PolicyStep, DoorControlAssumption
<1> QED
  BY <1>1, <1>2, DoorInvariant, PTL DEF Spec, ImplementsDoorPolicy, Policy!Spec
=============================================================================
