------------------------------ MODULE Indicators ------------------------------
(***************************************************************************)
(* The indicators: the door and the display, the indicator thread of the   *)
(* hardware daemon that serves them (IndicatorController_Server), and the  *)
(* threads of the main application and of the hardware daemon that send it *)
(* commands without a connection.                                          *)
(*                                                                         *)
(* The door's timer and the display's timer call back in threads of their  *)
(* own.  A callback of the display executes the same functions on the same *)
(* I2C_LCD as the server, without a lock, and more than one can be at it.  *)
(***************************************************************************)
EXTENDS Naturals, Sequences

CONSTANTS
    Clients,       \* the threads that send commands
    Prompts,       \* the texts that are put permanently
    Notices,       \* the texts that are put for a time
    DefaultText,   \* DEFAULT_IDLE_MSG
    QueueSize,     \* mq_maxmsg
    MaxCommands,   \* bound: commands sent
    MaxCallbacks,  \* bound: callbacks of the display at the same time
    MaxEnds        \* bound: ends of the hardware daemon

Texts == Prompts \cup Notices \cup {DefaultText}

NoText == "no text"
NoCommand == [kind |-> "none", text |-> NoText]

ASSUME IndicatorsAssumption ==
    /\ Prompts \cap Notices = {}
    /\ DefaultText \notin Notices
    /\ NoText \notin Texts
    /\ QueueSize \in Nat \ {0}
    /\ {MaxCommands, MaxCallbacks, MaxEnds} \subseteq Nat

VARIABLES
    sending,        \* the command a client calls mq_send with
    queue,          \* the queue of the server
    thread,         \* what the server and the callbacks of the display do
    terminate,      \* globalTerminateFlag
    pin,            \* what the signal pin of the door says
    doorTimer,      \* m_tmrDoor is armed
    doorCallbacks,  \* the number of its callbacks that are under way
    display,        \* what can be read on the display
    idleMessage,    \* m_idleMessage
    messageTimer,   \* m_messageTimer is armed
    clash,          \* threads have met since one began to write alone
    commands, ends  \* counters

clientVars == <<sending, queue, commands>>
doorVars == <<pin, doorTimer, doorCallbacks>>
displayVars == <<display, idleMessage, messageTimer, clash>>
processVars == <<terminate, ends>>
vars == <<clientVars, thread, doorVars, displayVars, processVars>>

-----------------------------------------------------------------------------
Commands ==
    [kind : {"LCD_Message_Permanent"}, text : Prompts]
    \cup [kind : {"LCD_Message_wTimeout"}, text : Notices]
    \cup [kind : {"LCD_Clear_wDefaultMsg", "DoorOpen_wBuzzerSuccess", "Buzzer"},
          text : {NoText}]

Server == 0
Callbacks == 1 .. MaxCallbacks
Threads == {Server} \cup Callbacks

(* The steps between two effects within the functions of I2C_LCD, and the  *)
(* other steps of the server.                                              *)
DisplaySteps == {"default", "clear", "blank", "put", "keep", "copy",
                 "stop", "erase", "first", "second", "start"}
ServerSteps == {"check", "listen", "unlock", "arm", "dispose", "lock", "ended", "dead"}

At(step, text) == [step |-> step, text |-> text]

(* A callback at rest is a thread that does not exist.                     *)
AtRest == At("rest", NoText)

Proceed(t, step) == thread' = [thread EXCEPT ![t].step = step]

(* What t goes on with when it has left the functions of I2C_LCD.          *)
Return(t) == thread' = [thread EXCEPT ![t] = IF t = Server THEN At("check", NoText)
                                                           ELSE AtRest]

Writing(t) == thread[t].step \in DisplaySteps

(* Thread t enters the functions of I2C_LCD.                               *)
Begin(t, step, text) ==
    /\ thread' = [thread EXCEPT ![t] = At(step, text)]
    /\ clash' = \E u \in Threads \ {t} : Writing(u)

(* The process runs: main() has not returned and nobody has ended it.      *)
Alive == thread[Server].step \notin {"ended", "dead"}

-----------------------------------------------------------------------------
(* The clients.                                                            *)
Request(c, command) ==
    /\ sending[c] = NoCommand
    /\ commands < MaxCommands
    /\ sending' = [sending EXCEPT ![c] = command]
    /\ commands' = commands + 1
    /\ UNCHANGED <<queue, thread, doorVars, displayVars, processVars>>

sendConnectionless(c) ==
    /\ sending[c] # NoCommand
    /\ Len(queue) < QueueSize
    /\ queue' = Append(queue, sending[c])
    /\ sending' = [sending EXCEPT ![c] = NoCommand]
    /\ UNCHANGED <<commands, thread, doorVars, displayVars, processVars>>

-----------------------------------------------------------------------------
(* The loop of the indicator thread.                                       *)
CheckTerminate ==
    /\ thread[Server].step = "check"
    /\ Proceed(Server, IF terminate THEN "dispose" ELSE "listen")
    /\ UNCHANGED <<clientVars, doorVars, displayVars, processVars>>

TimedOut ==
    /\ thread[Server].step = "listen"
    /\ queue = <<>>
    /\ Proceed(Server, "check")
    /\ UNCHANGED <<clientVars, doorVars, displayVars, processVars>>

(* ParseRequest.  The door is opened after the buzzer has sounded.         *)
ListenAndParseRequest ==
    /\ thread[Server].step = "listen"
    /\ queue # <<>>
    /\ queue' = Tail(queue)
    /\ LET request == Head(queue) IN
       \/ /\ request.kind \in {"LCD_Message_Permanent", "LCD_Message_wTimeout"}
          /\ Begin(Server, "put", request.text)
       \/ /\ request.kind = "LCD_Clear_wDefaultMsg"
          /\ Begin(Server, "default", NoText)
       \/ /\ request.kind = "DoorOpen_wBuzzerSuccess"
          /\ Proceed(Server, "unlock")
          /\ UNCHANGED clash
       \/ /\ request.kind = "Buzzer"
          /\ Proceed(Server, "check")
          /\ UNCHANGED clash
    /\ UNCHANGED <<sending, commands, doorVars, display, idleMessage,
                   messageTimer, processVars>>

-----------------------------------------------------------------------------
(* The door.                                                               *)

(* Mutant: the timer is started before the pin is written.                 *)
StartThenUnlock ==
    /\ \/ /\ thread[Server].step = "unlock"
          /\ doorTimer' = TRUE
          /\ Proceed(Server, "arm")
          /\ UNCHANGED pin
       \/ /\ thread[Server].step = "arm"
          /\ pin' = "unlocked"
          /\ Proceed(Server, "check")
          /\ UNCHANGED doorTimer
    /\ UNCHANGED <<clientVars, doorCallbacks, displayVars, processVars>>

OpenDoors ==
    /\ \/ /\ thread[Server].step = "unlock"
          /\ pin' = "unlocked"
          /\ Proceed(Server, "arm")
          /\ UNCHANGED doorTimer
       \/ /\ thread[Server].step = "arm"
          /\ doorTimer' = TRUE
          /\ Proceed(Server, "check")
          /\ UNCHANGED pin
    /\ UNCHANGED <<clientVars, doorCallbacks, displayVars, processVars>>

DoorTimerExpires ==
    /\ doorTimer
    /\ doorTimer' = FALSE
    /\ doorCallbacks' = doorCallbacks + 1
    /\ UNCHANGED <<clientVars, thread, pin, displayVars, processVars>>

closeTheDoor_timerCallback ==
    /\ doorCallbacks > 0
    /\ doorCallbacks' = doorCallbacks - 1
    /\ pin' = "locked"
    /\ UNCHANGED <<clientVars, thread, doorTimer, displayVars, processVars>>

-----------------------------------------------------------------------------
(* The display.  A message is written in two parts.                        *)
Whole(text) == <<<<text, 1>>, <<text, 2>>>>

DisplayStep(t, step) ==
    /\ thread[t].step = step
    /\ UNCHANGED <<clientVars, doorVars, processVars, clash>>

setDefault(t) ==
    /\ DisplayStep(t, "default")
    /\ idleMessage' = DefaultText
    /\ Proceed(t, "clear")
    /\ UNCHANGED <<display, messageTimer>>

(* ClearDisplay, PutToLCD_wTimeout and PutToLCD_Permanently begin with     *)
(* m_messageTimer.Stop().                                                  *)
StopTimer(t) ==
    /\ \/ DisplayStep(t, "clear") /\ Proceed(t, "blank")
       \/ DisplayStep(t, "put") /\ Proceed(t, "keep")
       \/ DisplayStep(t, "stop") /\ Proceed(t, "erase")
    /\ messageTimer' = FALSE
    /\ UNCHANGED <<display, idleMessage>>

ClearDisplay(t) ==
    /\ \/ DisplayStep(t, "blank") /\ Proceed(t, "put")
       \/ DisplayStep(t, "erase") /\ Proceed(t, "first")
    /\ display' = <<>>
    /\ UNCHANGED <<idleMessage, messageTimer>>

(* Mutant: a message that is put for a time becomes the idle message.      *)
KeepAnyMessage(t) ==
    /\ DisplayStep(t, "keep")
    /\ idleMessage' = IF thread[t].text # NoText THEN thread[t].text ELSE idleMessage
    /\ Proceed(t, "copy")
    /\ UNCHANGED <<display, messageTimer>>

(* PutToLCD_Permanently keeps its message, PutToLCD_wTimeout does not.  A  *)
(* thread without a text of its own puts m_idleMessage, by reference.      *)
PutToLCD(t) ==
    /\ DisplayStep(t, "keep")
    /\ idleMessage' = IF thread[t].text \in Prompts THEN thread[t].text ELSE idleMessage
    /\ Proceed(t, "copy")
    /\ UNCHANGED <<display, messageTimer>>

(* PutToLCD copies the message before it calls ClearDisplay.               *)
CopyMessage(t) ==
    /\ DisplayStep(t, "copy")
    /\ thread' = [thread EXCEPT ![t] =
                     At("stop", IF @.text = NoText THEN idleMessage ELSE @.text)]
    /\ UNCHANGED <<display, idleMessage, messageTimer>>

SendCharacters(t) ==
    /\ \/ /\ DisplayStep(t, "first")
          /\ display' = Append(display, <<thread[t].text, 1>>)
          /\ Proceed(t, "second")
       \/ /\ DisplayStep(t, "second")
          /\ display' = Append(display, <<thread[t].text, 2>>)
          /\ IF thread[t].text \in Notices THEN Proceed(t, "start") ELSE Return(t)
    /\ UNCHANGED <<idleMessage, messageTimer>>

(* Mutant: the timer is not started after the message.                     *)
StartNoTimer(t) ==
    /\ DisplayStep(t, "start")
    /\ Return(t)
    /\ UNCHANGED <<display, idleMessage, messageTimer>>

StartTimer(t) ==
    /\ DisplayStep(t, "start")
    /\ messageTimer' = TRUE
    /\ Return(t)
    /\ UNCHANGED <<display, idleMessage>>

Write(t) == setDefault(t) \/ StopTimer(t) \/ ClearDisplay(t) \/ PutToLCD(t)
            \/ CopyMessage(t) \/ SendCharacters(t) \/ StartTimer(t)

(* clearDisplay_TimerCallback begins in a thread of its own.               *)
MessageTimerExpires ==
    /\ messageTimer
    /\ \E c \in Callbacks :
          /\ thread[c] = AtRest
          /\ \A d \in 1 .. c - 1 : thread[d] # AtRest
          /\ Begin(c, "clear", NoText)
    /\ messageTimer' = FALSE
    /\ UNCHANGED <<clientVars, doorVars, display, idleMessage, processVars>>

-----------------------------------------------------------------------------
(* The end of the hardware daemon.                                         *)

SIGTERM ==
    /\ Alive /\ ~terminate
    /\ ends < MaxEnds
    /\ terminate' = TRUE
    /\ ends' = ends + 1
    /\ UNCHANGED <<clientVars, thread, doorVars, displayVars>>

(* The members of the server are destroyed from last to first: the display *)
(* and its timer, then the door, which is closed.                          *)
Destroy ==
    /\ \/ /\ thread[Server].step = "dispose"
          /\ messageTimer' = FALSE
          /\ Proceed(Server, "lock")
          /\ UNCHANGED <<pin, doorTimer>>
       \/ /\ thread[Server].step = "lock"
          /\ doorTimer' = FALSE
          /\ pin' = "locked"
          /\ Proceed(Server, "ended")
          /\ UNCHANGED messageTimer
    /\ UNCHANGED <<clientVars, doorCallbacks, display, idleMessage, clash, processVars>>

(* SIGKILL, a fatal error in any thread, or what a callback of a destroyed *)
(* display leads to: the pin and the display stay as they are.             *)
Die ==
    /\ Alive
    /\ ends < MaxEnds
    /\ ends' = ends + 1
    /\ thread' = [t \in Threads |-> IF t = Server THEN At("dead", NoText) ELSE AtRest]
    /\ doorTimer' = FALSE
    /\ doorCallbacks' = 0
    /\ messageTimer' = FALSE
    /\ UNCHANGED <<clientVars, terminate, pin, display, idleMessage, clash>>

(* The whole system is started again.  The mailbox is made anew, the door  *)
(* is closed and the display shows the default message.                    *)
Restart ==
    /\ ~Alive
    /\ sending' = [c \in Clients |-> NoCommand]
    /\ queue' = <<>>
    /\ thread' = [t \in Threads |-> IF t = Server THEN At("default", NoText) ELSE AtRest]
    /\ terminate' = FALSE
    /\ pin' = "locked"
    /\ doorTimer' = FALSE
    /\ doorCallbacks' = 0
    /\ messageTimer' = FALSE
    /\ clash' = FALSE
    /\ UNCHANGED <<commands, display, idleMessage, ends>>

-----------------------------------------------------------------------------
Init ==
    /\ sending = [c \in Clients |-> NoCommand]
    /\ queue = <<>>
    /\ thread = [t \in Threads |-> IF t = Server THEN At("default", NoText) ELSE AtRest]
    /\ terminate = FALSE
    /\ pin = "locked"
    /\ doorTimer = FALSE
    /\ doorCallbacks = 0
    /\ display = <<>>
    /\ idleMessage = DefaultText
    /\ messageTimer = FALSE
    /\ clash = FALSE
    /\ commands = 0
    /\ ends = 0

ServerStep ==
    CheckTerminate \/ TimedOut \/ ListenAndParseRequest \/ OpenDoors \/ Destroy

Next ==
    \/ \E c \in Clients :
          \/ sendConnectionless(c)
          \/ \E command \in Commands : Request(c, command)
    \/ ServerStep
    \/ \E t \in Threads : Write(t)
    \/ DoorTimerExpires
    \/ closeTheDoor_timerCallback
    \/ MessageTimerExpires
    \/ SIGTERM
    \/ Die
    \/ Restart

Spec == Init /\ [][Next]_vars

(* The indicator thread and the callbacks are scheduled, armed timers      *)
(* fire.  Nobody has to send a command, to end or to restart the daemon.   *)
FairSpec ==
    /\ Spec
    /\ WF_vars(ServerStep \/ Write(Server))
    /\ WF_vars(DoorTimerExpires)
    /\ WF_vars(closeTheDoor_timerCallback)
    /\ WF_vars(MessageTimerExpires)
    /\ \A c \in Callbacks : WF_vars(Write(c))
=============================================================================
