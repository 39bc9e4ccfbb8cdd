------------------------------- MODULE Watchdog -------------------------------
(***************************************************************************)
(* The watchdog and the process manager.  The startup program forks the    *)
(* processes of the system, serves the requests of their watchdog clients  *)
(* and, when one of them has missed too many kicks, kills all processes or *)
(* restarts that one.  Three parties run concurrently:                     *)
(*                                                                         *)
(*   - the clients: each registers with a handshake, sends START without   *)
(*     one and from then on kicks by writing to its slot in shared memory; *)
(*   - the main thread of startup: WaitForRequestAndParse, then killAll;   *)
(*   - one callback thread per expired timer, which takes no lock.         *)
(*                                                                         *)
(* The mailbox protocol appears as far as the server shows it: it holds    *)
(* further senders while it waits for the message of one, and what arrives *)
(* without a connection meanwhile is lost.  At most two messages per       *)
(* process are under way, fewer than a mailbox can hold.  The initial      *)
(* state is the one after initiateAll().                                   *)
(***************************************************************************)
EXTENDS Integers, Sequences, FiniteSets

CONSTANTS
    NumProcesses,  \* processes are numbered in the order of createProcess()
    OnFailure,     \* OnFailure[p]: m_onFailure of the client of process p
    BaseTTL,       \* BaseTTL[p]: m_BaseTTL of its settings
    NumSlots,      \* initialShmCapacity
    MaxHangs,      \* bound: clients that stop making progress
    MaxCrashes     \* bound: processes that die on their own

Processes == 1 .. NumProcesses

Slots == 0 .. NumSlots - 1

ASSUME WatchdogAssumption ==
    /\ NumProcesses \in Nat \ {0}
    /\ OnFailure \in [Processes -> {"RESET_ONLY", "KILL_ALL"}]
    /\ BaseTTL \in [Processes -> Nat \ {0}]
    /\ NumSlots \in Nat
    /\ NumSlots >= NumProcesses
    /\ MaxHangs \in Nat
    /\ MaxCrashes \in Nat

VARIABLES
    process,          \* process[p]: "running", "exited" or "reaped" by waitpid
    sigterm,          \* sigterm[p]: the process has been sent SIGTERM
    client,           \* client[p]: how far the client of the process has got
    offset,           \* offset[p]: m_offset of the client, -1 before the reply
    inbox,            \* the message queue of the server
    held,             \* the senders the server has told to HOLD
    startup,          \* where the main thread of startup is
    request,          \* the request in hand, or the one waited for
    target,           \* the process killAll() has come to
    units,            \* m_units: the processes whose client is registered
    ttl,              \* ttl[p]: m_TTL of the unit
    slot,             \* slot[p]: m_offset of the unit, or of its request
    timer,            \* timer[p]: the timer of the unit is armed
    callback,         \* callback[p]: where the callback thread of the timer is
    shm,              \* shm[s]: the control block in shared memory
    terminationFlag,  \* m_terminationFlag
    interrupted,      \* globalTerminationFlag, set by SIGINT
    hangs,            \* number of hangs so far
    crashes           \* number of crashes so far

processVars == <<process, sigterm>>
clientVars == <<client, offset>>
mailboxVars == <<inbox, held>>
startupVars == <<startup, request, target>>
unitVars == <<units, ttl, slot>>
timerVars == <<timer, callback>>
flagVars == <<terminationFlag, interrupted>>
faultVars == <<hangs, crashes>>
vars == <<processVars, clientVars, mailboxVars, startupVars, unitVars, timerVars,
          shm, flagVars, faultVars>>

ClientSteps == {"starting", "rts_sent", "cleared", "registering", "registered",
                "working", "hung"}

Messages == [kind : {"RTS", "REGISTER_REQUEST", "START"}, from : Processes]

Message(kind, p) == [kind |-> kind, from |-> p]

(* What listenForMessage() returns when the time is up.                    *)
NoRequest == Message("NONE", 1)

StartupSteps == {"Loop", "Listen", "AwaitMessage", "Parse", "AddUnit",
                 "KillCheck", "KillGrace", "KillWait", "Exited", "Fatal"}

(* The threads of startup end with it.                                     *)
StartupLives == startup \notin {"Exited", "Fatal"}

NoUnit == -1

Init ==
    /\ process = [p \in Processes |-> "running"]
    /\ sigterm = [p \in Processes |-> FALSE]
    /\ client = [p \in Processes |-> "starting"]
    /\ offset = [p \in Processes |-> NoUnit]
    /\ inbox = <<>>
    /\ held = <<>>
    /\ startup = "Loop"
    /\ request = NoRequest
    /\ target = 1
    /\ units = {}
    /\ ttl = BaseTTL
    /\ slot = [p \in Processes |-> NoUnit]
    /\ timer = [p \in Processes |-> FALSE]
    /\ callback = [p \in Processes |-> "none"]
    /\ shm = [s \in Slots |-> [alive |-> FALSE, taken |-> FALSE]]
    /\ terminationFlag = FALSE
    /\ interrupted = FALSE
    /\ hangs = 0
    /\ crashes = 0

-----------------------------------------------------------------------------
(* The clients.                                                            *)

Runs(p, step) == process[p] = "running" /\ client[p] = step

(* Register() starts with the handshake of send().                         *)
SendRTS(p) ==
    /\ Runs(p, "starting")
    /\ client' = [client EXCEPT ![p] = "rts_sent"]
    /\ inbox' = Append(inbox, Message("RTS", p))
    /\ UNCHANGED <<processVars, offset, held, startupVars, unitVars, timerVars,
                   shm, flagVars, faultVars>>

SendRegisterRequest(p) ==
    /\ Runs(p, "cleared")
    /\ client' = [client EXCEPT ![p] = "registering"]
    /\ inbox' = Append(inbox, Message("REGISTER_REQUEST", p))
    /\ UNCHANGED <<processVars, offset, held, startupVars, unitVars, timerVars,
                   shm, flagVars, faultVars>>

(* The reply has come; Start() is the first thing main() does after it.    *)
Start(p) ==
    /\ Runs(p, "registered")
    /\ client' = [client EXCEPT ![p] = "working"]
    /\ inbox' = Append(inbox, Message("START", p))
    /\ UNCHANGED <<processVars, offset, held, startupVars, unitVars, timerVars,
                   shm, flagVars, faultVars>>

(* A SIGTERM may come between the test of the flag and the kick.           *)
Kick(p) ==
    /\ Runs(p, "working")
    /\ shm' = [shm EXCEPT ![offset[p]].alive = TRUE]
    /\ UNCHANGED <<processVars, clientVars, mailboxVars, startupVars, unitVars,
                   timerVars, flagVars, faultVars>>

(* The loop sees the flag that SIGTERM has set.  Before the handler is     *)
(* installed SIGTERM ends a process; during the registration it may.       *)
Leave(p) ==
    /\ process[p] = "running"
    /\ sigterm[p]
    /\ client[p] # "hung"
    /\ process' = [process EXCEPT ![p] = "exited"]
    /\ UNCHANGED <<sigterm, clientVars, mailboxVars, startupVars, unitVars,
                   timerVars, shm, flagVars, faultVars>>

(* The work of the loop never returns; such a client ignores SIGTERM.      *)
Hang(p) ==
    /\ hangs < MaxHangs
    /\ Runs(p, "working")
    /\ client' = [client EXCEPT ![p] = "hung"]
    /\ hangs' = hangs + 1
    /\ UNCHANGED <<processVars, offset, mailboxVars, startupVars, unitVars,
                   timerVars, shm, flagVars, crashes>>

Crash(p) ==
    /\ crashes < MaxCrashes
    /\ process[p] = "running"
    /\ process' = [process EXCEPT ![p] = "exited"]
    /\ crashes' = crashes + 1
    /\ UNCHANGED <<sigterm, clientVars, mailboxVars, startupVars, unitVars,
                   timerVars, shm, flagVars, hangs>>

-----------------------------------------------------------------------------
(* The main thread of startup: the request loop.                           *)

Stopping == terminationFlag \/ interrupted

(* receive() from a queue with held senders: the first one is cleared.     *)
DequeueAndCTS ==
    /\ startup = "Loop" /\ ~Stopping
    /\ held # <<>>
    /\ held' = Tail(held)
    /\ client' = [client EXCEPT ![Head(held)] = "cleared"]
    /\ request' = Message("REGISTER_REQUEST", Head(held))
    /\ startup' = "AwaitMessage"
    /\ UNCHANGED <<processVars, offset, inbox, target, unitVars, timerVars, shm,
                   flagVars, faultVars>>

BeginListening ==
    /\ startup = "Loop" /\ ~Stopping
    /\ held = <<>>
    /\ startup' = "Listen"
    /\ UNCHANGED <<processVars, clientVars, mailboxVars, request, target, unitVars,
                   timerVars, shm, flagVars, faultVars>>

(* The server takes a message of this kind from its queue.                 *)
Take(step, kind) ==
    /\ startup = step
    /\ inbox # <<>>
    /\ Head(inbox).kind = kind
    /\ inbox' = Tail(inbox)

SendCTS ==
    /\ Take("Listen", "RTS")
    /\ client' = [client EXCEPT ![Head(inbox).from] = "cleared"]
    /\ request' = Message("REGISTER_REQUEST", Head(inbox).from)
    /\ startup' = "AwaitMessage"
    /\ UNCHANGED <<processVars, offset, held, target, unitVars, timerVars, shm,
                   flagVars, faultVars>>

TakeConnectionless ==
    /\ Take("Listen", "START")
    /\ request' = Head(inbox)
    /\ startup' = "Parse"
    /\ UNCHANGED <<processVars, clientVars, held, target, unitVars, timerVars, shm,
                   flagVars, faultVars>>

ListenTimesOut ==
    /\ startup = "Listen"
    /\ inbox = <<>>
    /\ startup' = "Loop"
    /\ request' = NoRequest
    /\ UNCHANGED <<processVars, clientVars, mailboxVars, target, unitVars, timerVars,
                   shm, flagVars, faultVars>>

(* The server waits for the message of the client it has cleared, without  *)
(* a limit: TimedOut leaves the automaton in WaitingMSG.                   *)
TakeMessage ==
    /\ Take("AwaitMessage", "REGISTER_REQUEST")
    /\ Head(inbox).from = request.from
    /\ startup' = "Parse"
    /\ UNCHANGED <<processVars, clientVars, held, request, target, unitVars,
                   timerVars, shm, flagVars, faultVars>>

(* Mutant: the sender that has to wait is forgotten.                       *)
ForgetSender ==
    /\ Take("AwaitMessage", "RTS")
    /\ UNCHANGED <<processVars, clientVars, held, startupVars, unitVars, timerVars,
                   shm, flagVars, faultVars>>

EnqueueAndHold ==
    /\ Take("AwaitMessage", "RTS")
    /\ held' = Append(held, Head(inbox).from)
    /\ UNCHANGED <<processVars, clientVars, startupVars, unitVars, timerVars, shm,
                   flagVars, faultVars>>

(* ValidMsgConnectionless in WaitingMSG: the action is Void.               *)
DropConnectionless ==
    /\ Take("AwaitMessage", "START")
    /\ UNCHANGED <<processVars, clientVars, held, startupVars, unitVars, timerVars,
                   shm, flagVars, faultVars>>

FreeSlots == {s \in Slots : ~shm[s].taken}

FirstAvailableSlot == CHOOSE s \in FreeSlots : \A t \in FreeSlots : s <= t

FatalError ==
    /\ startup' = "Fatal"
    /\ UNCHANGED <<processVars, clientVars, mailboxVars, request, target, unitVars,
                   timerVars, shm, flagVars, faultVars>>

(* AddNewUnit: a process that is not registered yet gets the first free    *)
(* slot, which is taken from now on ...                                    *)
TakeSlot ==
    /\ startup = "Parse"
    /\ request.kind = "REGISTER_REQUEST"
    /\ LET p == request.from IN
       IF p \in units \/ FreeSlots = {}
       THEN FatalError
       ELSE /\ shm' = [shm EXCEPT ![FirstAvailableSlot].taken = TRUE]
            /\ slot' = [slot EXCEPT ![p] = FirstAvailableSlot]
            /\ startup' = "AddUnit"
            /\ UNCHANGED <<processVars, clientVars, mailboxVars, request, target,
                           units, ttl, timerVars, flagVars, faultVars>>

(* Mutant: the reply does not carry the offset.                            *)
AddNewUnitWithoutOffset ==
    /\ startup = "AddUnit"
    /\ LET p == request.from IN
       /\ units' = units \cup {p}
       /\ ttl' = [ttl EXCEPT ![p] = BaseTTL[p]]
       /\ client' = [client EXCEPT ![p] = "registered"]
    /\ startup' = "Loop"
    /\ UNCHANGED <<processVars, offset, mailboxVars, request, target, slot, timerVars,
                   shm, flagVars, faultVars>>

(* ... and the unit is added to the list.  The reply is sent before the    *)
(* request loop goes on, without a handshake.                              *)
AddNewUnit ==
    /\ startup = "AddUnit"
    /\ LET p == request.from IN
       /\ units' = units \cup {p}
       /\ ttl' = [ttl EXCEPT ![p] = BaseTTL[p]]
       /\ offset' = [offset EXCEPT ![p] = slot[p]]
       /\ client' = [client EXCEPT ![p] = "registered"]
    /\ startup' = "Loop"
    /\ UNCHANGED <<processVars, mailboxVars, request, target, slot, timerVars, shm,
                   flagVars, faultVars>>

StartTimer ==
    /\ startup = "Parse"
    /\ request.kind = "START"
    /\ LET p == request.from IN
       IF p \notin units
       THEN FatalError
       ELSE /\ timer' = [timer EXCEPT ![p] = TRUE]
            /\ startup' = "Loop"
            /\ UNCHANGED <<processVars, clientVars, mailboxVars, request, target,
                           unitVars, callback, shm, flagVars, faultVars>>

(* SIGINT, at most once.  It also ends the sleep before SIGKILL ...        *)
RaiseFlag ==
    /\ StartupLives
    /\ ~interrupted
    /\ interrupted' = TRUE

Interrupt ==
    /\ RaiseFlag
    /\ UNCHANGED <<processVars, clientVars, mailboxVars, startupVars, unitVars,
                   timerVars, shm, terminationFlag, faultVars>>

(* ... or a receive: what it yields comes from nobody, which is fatal to   *)
(* parseMessage() unless the last receive has left nobody in the buffer.   *)
InterruptReceive ==
    /\ RaiseFlag
    /\ startup \in {"Listen", "AwaitMessage"}
    /\ inbox = <<>>
    /\ startup' = IF request = NoRequest THEN "Loop" ELSE "Fatal"
    /\ UNCHANGED <<processVars, clientVars, mailboxVars, request, target, unitVars,
                   timerVars, shm, terminationFlag, faultVars>>

-----------------------------------------------------------------------------
(* The main thread of startup: killAll, one process after the other.       *)

BeginKillAll ==
    /\ startup = "Loop" /\ Stopping
    /\ startup' = "KillCheck"
    /\ UNCHANGED <<processVars, clientVars, mailboxVars, request, target, unitVars,
                   timerVars, shm, flagVars, faultVars>>

(* After the last process startup calls exit().                            *)
NextTarget ==
    IF target = NumProcesses
    THEN startup' = "Exited" /\ UNCHANGED target
    ELSE startup' = "KillCheck" /\ target' = target + 1

(* waitpid has returned the process, or an error for one reaped before.    *)
Reap(p) == process' = [process EXCEPT ![p] = "reaped"]

(* hasExited() is true once: a process reaped before counts as running.    *)
FindExited ==
    /\ startup \in {"KillCheck", "KillGrace"}
    /\ process[target] = "exited"
    /\ Reap(target)
    /\ NextTarget
    /\ UNCHANGED <<sigterm, clientVars, mailboxVars, request, unitVars, timerVars,
                   shm, flagVars, faultVars>>

Kill ==
    /\ startup = "KillCheck"
    /\ process[target] # "exited"
    /\ sigterm' = [sigterm EXCEPT ![target] = TRUE]
    /\ startup' = "KillGrace"
    /\ UNCHANGED <<process, clientVars, mailboxVars, request, target, unitVars,
                   timerVars, shm, flagVars, faultVars>>

(* Mutant: SIGTERM is taken to be enough.                                  *)
NoForceKill ==
    /\ startup = "KillGrace"
    /\ process[target] # "exited"
    /\ NextTarget
    /\ UNCHANGED <<processVars, clientVars, mailboxVars, request, unitVars,
                   timerVars, shm, flagVars, faultVars>>

(* Ten seconds later the process has still not exited.                     *)
ForceKill ==
    /\ startup = "KillGrace"
    /\ process[target] # "exited"
    /\ process' = [process EXCEPT ![target] = IF @ = "running" THEN "exited" ELSE @]
    /\ startup' = "KillWait"
    /\ UNCHANGED <<sigterm, clientVars, mailboxVars, request, target, unitVars,
                   timerVars, shm, flagVars, faultVars>>

WaitForProcess ==
    /\ startup = "KillWait"
    /\ process[target] # "running"
    /\ Reap(target)
    /\ NextTarget
    /\ UNCHANGED <<sigterm, clientVars, mailboxVars, request, unitVars, timerVars,
                   shm, flagVars, faultVars>>

(* SIGINT ends the wait, and the process stays a zombie.                   *)
InterruptWait ==
    /\ RaiseFlag
    /\ startup = "KillWait"
    /\ process[target] # "reaped"
    /\ NextTarget
    /\ UNCHANGED <<processVars, clientVars, mailboxVars, request, unitVars,
                   timerVars, shm, terminationFlag, faultVars>>

-----------------------------------------------------------------------------
(* The timers and their callback threads.                                  *)

Expire(p) ==
    /\ StartupLives
    /\ timer[p]
    /\ callback[p] = "none"
    /\ timer' = [timer EXCEPT ![p] = FALSE]
    /\ callback' = [callback EXCEPT ![p] = "expired"]
    /\ UNCHANGED <<processVars, clientVars, mailboxVars, startupVars, unitVars, shm,
                   flagVars, faultVars>>

(* The callback is over; Reset() has armed the timer again.                *)
Rearm(p) ==
    /\ timer' = [timer EXCEPT ![p] = TRUE]
    /\ callback' = [callback EXCEPT ![p] = "none"]

(* Mutant: m_bAlive is not reset.                                          *)
SeeAliveForEver(p) ==
    /\ StartupLives
    /\ callback[p] = "expired"
    /\ shm[slot[p]].alive
    /\ Rearm(p)
    /\ UNCHANGED <<processVars, clientVars, mailboxVars, startupVars, unitVars,
                   shm, flagVars, faultVars>>

(* MarkTimerExpired: the client has kicked since the last expiration ...   *)
SeeAlive(p) ==
    /\ StartupLives
    /\ callback[p] = "expired"
    /\ shm[slot[p]].alive
    /\ shm' = [shm EXCEPT ![slot[p]].alive = FALSE]
    /\ Rearm(p)
    /\ UNCHANGED <<processVars, clientVars, mailboxVars, startupVars, unitVars,
                   flagVars, faultVars>>

(* ... or it has not, which is acted on a moment later.                    *)
SeeSilent(p) ==
    /\ StartupLives
    /\ callback[p] = "expired"
    /\ ~shm[slot[p]].alive
    /\ callback' = [callback EXCEPT ![p] = "silent"]
    /\ UNCHANGED <<processVars, clientVars, mailboxVars, startupVars, unitVars,
                   timer, shm, flagVars, faultVars>>

Missed(p) ==
    /\ StartupLives
    /\ callback[p] = "silent"

(* Mutant: the TTL is not compared with 0.                                 *)
DecrementForEver(p) ==
    /\ Missed(p)
    /\ ttl' = [ttl EXCEPT ![p] = @ - 1]
    /\ Rearm(p)
    /\ UNCHANGED <<processVars, clientVars, mailboxVars, startupVars, units, slot,
                   shm, flagVars, faultVars>>

DecrementTTL(p) ==
    /\ Missed(p)
    /\ ttl[p] > 1
    /\ ttl' = [ttl EXCEPT ![p] = @ - 1]
    /\ Rearm(p)
    /\ UNCHANGED <<processVars, clientVars, mailboxVars, startupVars, units, slot,
                   shm, flagVars, faultVars>>

RequestTermination(p) ==
    /\ Missed(p)
    /\ ttl[p] <= 1
    /\ OnFailure[p] = "KILL_ALL"
    /\ ttl' = [ttl EXCEPT ![p] = 0]
    /\ terminationFlag' = TRUE
    /\ callback' = [callback EXCEPT ![p] = "none"]
    /\ UNCHANGED <<processVars, clientVars, mailboxVars, startupVars, units, slot,
                   timer, shm, interrupted, faultVars>>

(* Mutant: the slot is not cleared.                                        *)
ClearNoSlot(p) ==
    /\ Missed(p)
    /\ ttl[p] <= 1
    /\ OnFailure[p] = "RESET_ONLY"
    /\ timer' = [timer EXCEPT ![p] = FALSE]
    /\ callback' = [callback EXCEPT ![p] = "erase"]
    /\ UNCHANGED <<processVars, clientVars, mailboxVars, startupVars, unitVars,
                   shm, flagVars, faultVars>>

(* RemoveUnit: the timer is stopped and the slot cleared.  The unit is     *)
(* still in the list, with the offset of a slot that is free again ...     *)
ClearSlot(p) ==
    /\ Missed(p)
    /\ ttl[p] <= 1
    /\ OnFailure[p] = "RESET_ONLY"
    /\ ttl' = [ttl EXCEPT ![p] = 0]
    /\ timer' = [timer EXCEPT ![p] = FALSE]
    /\ shm' = [shm EXCEPT ![slot[p]] = [alive |-> FALSE, taken |-> FALSE]]
    /\ callback' = [callback EXCEPT ![p] = "erase"]
    /\ UNCHANGED <<processVars, clientVars, mailboxVars, startupVars, units, slot,
                   flagVars, faultVars>>

(* Mutant: the unit is not erased from the list.                           *)
RemoveNothing(p) ==
    /\ StartupLives
    /\ callback[p] = "erase"
    /\ callback' = [callback EXCEPT ![p] = "restart"]
    /\ UNCHANGED <<processVars, clientVars, mailboxVars, startupVars, unitVars,
                   timer, shm, flagVars, faultVars>>

(* ... until it is erased, before the process is touched.                  *)
EraseUnit(p) ==
    /\ StartupLives
    /\ callback[p] = "erase"
    /\ units' = units \ {p}
    /\ ttl' = [ttl EXCEPT ![p] = BaseTTL[p]]
    /\ slot' = [slot EXCEPT ![p] = NoUnit]
    /\ callback' = [callback EXCEPT ![p] = "restart"]
    /\ UNCHANGED <<processVars, clientVars, mailboxVars, startupVars, timer, shm,
                   flagVars, faultVars>>

(* Process::restart: a process that runs is told to end and waited for.    *)
RestartRunning(p) ==
    /\ StartupLives
    /\ callback[p] = "restart"
    /\ process[p] = "running"
    /\ sigterm' = [sigterm EXCEPT ![p] = TRUE]
    /\ callback' = [callback EXCEPT ![p] = "wait"]
    /\ UNCHANGED <<process, clientVars, mailboxVars, startupVars, unitVars, timer,
                   shm, flagVars, faultVars>>

(* Mutant: nothing is done about a process that has already exited.        *)
RestartOnlyRunning(p) ==
    /\ StartupLives
    /\ callback[p] = "wait"
    /\ process[p] # "running"
    /\ Reap(p)
    /\ callback' = [callback EXCEPT ![p] = "fork"]
    /\ UNCHANGED <<sigterm, clientVars, mailboxVars, startupVars, unitVars, timer,
                   shm, flagVars, faultVars>>

RestartExited(p) ==
    /\ StartupLives
    /\ callback[p] \in {"restart", "wait"}
    /\ process[p] # "running"
    /\ Reap(p)
    /\ callback' = [callback EXCEPT ![p] = "fork"]
    /\ UNCHANGED <<sigterm, clientVars, mailboxVars, startupVars, unitVars, timer,
                   shm, flagVars, faultVars>>

(* A new process and a new client, with an empty mailbox of its own.       *)
Initiate(p) ==
    /\ StartupLives
    /\ callback[p] = "fork"
    /\ process' = [process EXCEPT ![p] = "running"]
    /\ sigterm' = [sigterm EXCEPT ![p] = FALSE]
    /\ client' = [client EXCEPT ![p] = "starting"]
    /\ offset' = [offset EXCEPT ![p] = NoUnit]
    /\ callback' = [callback EXCEPT ![p] = "none"]
    /\ UNCHANGED <<mailboxVars, startupVars, unitVars, timer, shm, flagVars,
                   faultVars>>

-----------------------------------------------------------------------------
ClientProgress(p) ==
    \/ SendRTS(p)
    \/ SendRegisterRequest(p)
    \/ Start(p)
    \/ client[p] = "working" /\ Leave(p)

ClientNext(p) ==
    \/ SendRTS(p)
    \/ SendRegisterRequest(p)
    \/ Start(p)
    \/ Kick(p)
    \/ Leave(p)
    \/ Hang(p)
    \/ Crash(p)

StartupNext ==
    \/ DequeueAndCTS
    \/ BeginListening
    \/ SendCTS
    \/ TakeConnectionless
    \/ ListenTimesOut
    \/ TakeMessage
    \/ EnqueueAndHold
    \/ DropConnectionless
    \/ TakeSlot
    \/ AddNewUnit
    \/ StartTimer
    \/ BeginKillAll
    \/ FindExited
    \/ Kill
    \/ ForceKill
    \/ WaitForProcess

CallbackNext(p) ==
    \/ SeeAlive(p)
    \/ SeeSilent(p)
    \/ DecrementTTL(p)
    \/ RequestTermination(p)
    \/ ClearSlot(p)
    \/ EraseUnit(p)
    \/ RestartRunning(p)
    \/ RestartExited(p)
    \/ Initiate(p)

Next ==
    \/ StartupNext
    \/ Interrupt
    \/ InterruptReceive
    \/ InterruptWait
    \/ \E p \in Processes : ClientNext(p) \/ Expire(p) \/ CallbackNext(p)

Spec == Init /\ [][Next]_vars

(* The kernel schedules every thread that can run and every armed timer    *)
(* expires.  Nothing is assumed of faults, of SIGINT and of kicks: a       *)
(* client that works may still be too slow for its deadline.               *)
Fairness ==
    /\ WF_vars(StartupNext)
    /\ \A p \in Processes :
          /\ WF_vars(ClientProgress(p))
          /\ WF_vars(Expire(p))
          /\ WF_vars(CallbackNext(p))

FairSpec == Spec /\ Fairness
=============================================================================
