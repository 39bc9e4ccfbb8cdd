--------------------------- MODULE IndicatorsProps ---------------------------
(***************************************************************************)
(* What is expected of the indicators.                                     *)
(***************************************************************************)
EXTENDS Indicators

Steps == DisplaySteps \cup ServerSteps \cup {"rest"}

ThreadStates == [step : Steps, text : Texts \cup {NoText}]

(* Every variable has the values the code can give it; only a prompt or    *)
(* the default message is ever restored after a notice.                    *)
TypeOK ==
    /\ sending \in [Clients -> Commands \cup {NoCommand}]
    /\ queue \in Seq(Commands)
    /\ Len(queue) <= QueueSize
    /\ thread \in [Threads -> ThreadStates]
    /\ terminate \in BOOLEAN
    /\ pin \in {"locked", "unlocked"}
    /\ doorTimer \in BOOLEAN
    /\ doorCallbacks \in Nat
    /\ display \in Seq(Texts \X {1, 2})
    /\ idleMessage \in Prompts \cup {DefaultText}
    /\ messageTimer \in BOOLEAN
    /\ clash \in BOOLEAN
    /\ commands \in 0 .. MaxCommands
    /\ ends \in 0 .. MaxEnds

-----------------------------------------------------------------------------
(* While the daemon lives, somebody is bound to close an open door: the    *)
(* thread that opens it, the timer, a callback, or the destructor.         *)
OpenDoorIsTimed ==
    pin = "unlocked" /\ Alive =>
        \/ doorTimer
        \/ doorCallbacks > 0
        \/ thread[Server].step = "arm"

(* An open door is closed again, however often it is opened meanwhile and  *)
(* however late a callback is; unless the daemon is killed, which leaves   *)
(* it open.                                                                *)
OpenDoorCloses == pin = "unlocked" ~> pin = "locked" \/ thread[Server].step = "dead"

-----------------------------------------------------------------------------
(* A notice that can be read, in part or whole, will be removed: by the    *)
(* timer, by the server, which has still to start it, or by a thread that  *)
(* has still to clear the display.                                         *)
Shown(text) == \E i \in DOMAIN display : display[i][1] = text

WillErase(t) ==
    thread[t].step \in {"default", "clear", "blank", "put", "keep", "copy", "stop", "erase"}

Disposed == thread[Server].step \in {"lock", "ended", "dead"}

NoticesAreTimed ==
    (\E text \in Notices : Shown(text)) =>
        \/ messageTimer
        \/ thread[Server].step \in {"second", "start"} /\ thread[Server].text \in Notices
        \/ \E t \in Threads : WillErase(t)
        \/ Disposed

(* When nobody uses the display and nothing is to happen to it, no notice  *)
(* is left on it, also after threads have written at the same time; and it *)
(* shows the idle message, unless the last to write met another thread.    *)
Quiet ==
    /\ thread[Server].step \in {"check", "listen"}
    /\ \A c \in Callbacks : thread[c] = AtRest
    /\ ~messageTimer

DisplaySettles ==
    Quiet => /\ \A text \in Notices : ~Shown(text)
             /\ ~clash => display = Whole(idleMessage)
=============================================================================
