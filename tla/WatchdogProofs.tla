---------------------------- MODULE WatchdogProofs ----------------------------
(***************************************************************************)
(* Theorems about the watchdog, for every number of processes, every       *)
(* mixture of RESET_ONLY and KILL_ALL clients, every number of hangs and   *)
(* crashes, and a shared memory with a slot for every process.             *)
(*                                                                         *)
(* A second registration, a START for a unit that is gone and a slot that  *)
(* two units share are excluded for one reason: at every moment a process  *)
(* has at most one message under way, it is the one its client's step      *)
(* allows, and a timer only runs when no message is left.  The inductive   *)
(* invariant states this and what follows from it.                         *)
(***************************************************************************)
EXTENDS WatchdogProps, FiniteSetTheorems, WellFoundedInduction, TLAPS

Restarting(p) == callback[p] \in {"erase", "restart", "wait", "fork"}

Interrupts == Interrupt \/ InterruptReceive \/ InterruptWait

(* The server has a request in hand, and has left its queue.               *)
InHand == startup \in {"Parse", "AddUnit"}

(* START has not been parsed yet: the timer has never been armed.          *)
AwaitsStart(p) ==
    /\ p \in units
    /\ client[p] \in {"working", "hung"}
    /\ ~timer[p]
    /\ callback[p] = "none"

(* What is under way fits the step of its sender, and is there once.       *)
MessagesOK ==
    /\ \A i, j \in 1 .. Len(inbox) : inbox[i] = inbox[j] => i = j
    /\ \A i \in 1 .. Len(inbox) :
          /\ inbox[i].kind = "RTS" =>
                /\ client[inbox[i].from] = "rts_sent"
                /\ \A j \in 1 .. Len(held) : held[j] # inbox[i].from
          /\ inbox[i].kind = "REGISTER_REQUEST" => client[inbox[i].from] = "registering"
          /\ inbox[i].kind = "START" => AwaitsStart(inbox[i].from)
          /\ InHand => inbox[i] # request
    /\ \A i, j \in 1 .. Len(held) : held[i] = held[j] => i = j
    /\ \A i \in 1 .. Len(held) : client[held[i]] = "rts_sent"

(* So does the request in hand.                                            *)
RequestOK ==
    /\ startup = "AwaitMessage" =>
          /\ request.kind = "REGISTER_REQUEST"
          /\ client[request.from] \in {"cleared", "registering"}
    /\ startup = "Parse" =>
          /\ request.kind \in {"REGISTER_REQUEST", "START"}
          /\ request.kind = "REGISTER_REQUEST" => client[request.from] = "registering"
          /\ request.kind = "START" => AwaitsStart(request.from)
    /\ startup = "AddUnit" =>
          request.kind = "REGISTER_REQUEST" /\ client[request.from] = "registering"

(* Clients, units and timers agree.                                        *)
UnitsOK ==
    \A p \in Processes :
       /\ client[p] \in {"starting", "rts_sent", "cleared", "registering"} => p \notin units
       /\ client[p] = "registered" => p \in units /\ ~timer[p] /\ callback[p] = "none"
       /\ timer[p] \/ callback[p] \in {"expired", "silent"} =>
             p \in units /\ client[p] \in {"working", "hung"}
       /\ timer[p] => callback[p] = "none"
       /\ Restarting(p) => client[p] \in {"working", "hung"}
       /\ Restarting(p) => (p \in units <=> callback[p] = "erase")
       /\ p \in units => offset[p] = slot[p]

(* No process that is not restarted runs again once killAll has passed it. *)
Killing == startup \in {"KillCheck", "KillGrace", "KillWait"}

KilledOK ==
    /\ ~Killing /\ startup # "Exited" => target = 1
    /\ \A p \in Processes : OnFailure[p] = "KILL_ALL" =>
          /\ ~Restarting(p)
          /\ Killing /\ p < target => process[p] # "running"
          /\ startup = "KillWait" /\ p = target => process[p] # "running"
          /\ startup = "Exited" => process[p] # "running"

SupervisionInv ==
    TypeOK /\ SlotAccounting /\ MessagesOK /\ RequestOK /\ UnitsOK /\ KilledOK /\ NoFatalError

-----------------------------------------------------------------------------
LEMMA SenderOfRequest ==
    ASSUME WatchdogAssumption, TypeOK
    PROVE  /\ request.from \in Processes
           /\ request.kind # "NONE" => request \in Messages
BY DEF TypeOK, Messages, NoRequest, Message, Processes, WatchdogAssumption

(* Taking the front of a queue and appending to it, element by element.    *)
LEMMA TailFacts ==
    ASSUME NEW S, NEW s \in Seq(S), s # <<>>
    PROVE  /\ Len(s) \in Nat /\ Len(s) > 0
           /\ Head(s) \in S /\ Head(s) = s[1]
           /\ Tail(s) \in Seq(S) /\ Len(Tail(s)) = Len(s) - 1
           /\ \A i \in 1 .. Len(Tail(s)) : i + 1 \in 1 .. Len(s) /\ Tail(s)[i] = s[i + 1]
OBVIOUS

LEMMA AppendFacts ==
    ASSUME NEW S, NEW s \in Seq(S), NEW e \in S
    PROVE  /\ Len(s) \in Nat
           /\ Append(s, e) \in Seq(S) /\ Len(Append(s, e)) = Len(s) + 1
           /\ Append(s, e)[Len(s) + 1] = e
           /\ \A i \in 1 .. Len(s) : Append(s, e)[i] = s[i]
OBVIOUS

(* The first slot that is not taken exists and is one.                     *)
LEMMA FirstSlotIsFree ==
    ASSUME WatchdogAssumption, FreeSlots # {}
    PROVE  FirstAvailableSlot \in FreeSlots /\ FirstAvailableSlot \in Slots
<1>1. FreeSlots \subseteq Nat
  BY DEF FreeSlots, Slots, WatchdogAssumption
<1>2. \E s \in FreeSlots : \A t \in FreeSlots : s <= t
  <2>1. PICK s \in FreeSlots : \A t \in FreeSlots : ~(<<t, s>> \in OpToRel(<, Nat))
    BY <1>1, WFMin, NatLessThanWellFounded, Zenon
  <2>2. \A t \in FreeSlots : ~(t < s)
    BY <1>1, <2>1, Zenon DEF OpToRel
  <2> QED
    BY <1>1, <2>2
<1> QED
  BY <1>2 DEF FirstAvailableSlot, FreeSlots

(* A process that is not registered finds a free slot: the owners of slots *)
(* are fewer than the processes, and no slot is taken without an owner.    *)
LEMMA SlotForEveryProcess ==
    ASSUME WatchdogAssumption, SlotAccounting, SlotOwners \subseteq Processes,
           NEW p \in Processes, p \notin SlotOwners
    PROVE  FreeSlots # {}
<1> SUFFICES ASSUME FreeSlots = {} PROVE FALSE
  OBVIOUS
<1> DEFINE taken == {slot[q] : q \in SlotOwners}
           owner == [q \in SlotOwners |-> slot[q]]
<1>1. Slots = taken
  BY DEF FreeSlots, SlotAccounting
<1> HIDE DEF SlotOwners
<1>2. IsFiniteSet(Processes) /\ Cardinality(Processes) = NumProcesses
  BY FS_Interval DEF Processes, WatchdogAssumption
<1>3. IsFiniteSet(Slots) /\ Cardinality(Slots) = NumSlots
  BY FS_Interval DEF Slots, WatchdogAssumption
<1>4. IsFiniteSet(Processes \ {p}) /\ Cardinality(Processes \ {p}) = NumProcesses - 1
  BY <1>2, FS_RemoveElement
<1>5. SlotOwners \in SUBSET (Processes \ {p})
  OBVIOUS
<1>6. IsFiniteSet(SlotOwners) /\ Cardinality(SlotOwners) <= NumProcesses - 1
  BY <1>4, <1>5, FS_Subset
<1>7. owner \in Surjection(SlotOwners, taken)
  BY DEF Surjection
<1>8. Cardinality(taken) <= Cardinality(SlotOwners)
  BY <1>6, <1>7, FS_Surjection
<1>9. Cardinality(SlotOwners) \in Nat
  BY <1>6, FS_CardinalityType
<1> QED
  BY <1>1, <1>3, <1>6, <1>8, <1>9 DEF WatchdogAssumption

-----------------------------------------------------------------------------
(* The server never runs into the Fatal_Error of AddNewUnit ...            *)
LEMMA TakeSlotTakes ==
    ASSUME WatchdogAssumption, SupervisionInv, TakeSlot
    PROVE  LET p == request.from
               s == FirstAvailableSlot IN
           /\ startup = "Parse" /\ request.kind = "REGISTER_REQUEST"
           /\ p \in Processes /\ p \notin units /\ client[p] = "registering"
           /\ s \in Slots /\ ~shm[s].taken
           /\ shm' = [shm EXCEPT ![s].taken = TRUE]
           /\ slot' = [slot EXCEPT ![p] = s]
           /\ startup' = "AddUnit"
           /\ UNCHANGED <<processVars, clientVars, mailboxVars, request, target, units,
                          ttl, timerVars, flagVars, faultVars>>
           /\ TypeOK'
<1> DEFINE p == request.from
           s == FirstAvailableSlot
<1>1. startup = "Parse" /\ request.kind = "REGISTER_REQUEST" /\ p \in Processes
  BY SenderOfRequest DEF TakeSlot, SupervisionInv
<1>2. client[p] = "registering" /\ p \notin units
  BY <1>1 DEF SupervisionInv, RequestOK, UnitsOK
<1>3. FreeSlots # {}
  <2>1. SlotOwners \subseteq Processes /\ p \notin SlotOwners
    BY <1>1, <1>2 DEF SlotOwners, SupervisionInv, TypeOK
  <2> QED
    BY <1>1, <2>1, SlotForEveryProcess DEF SupervisionInv
<1>4. s \in Slots /\ s \in FreeSlots
  BY <1>3, FirstSlotIsFree
<1>5. /\ shm' = [shm EXCEPT ![s].taken = TRUE]
      /\ slot' = [slot EXCEPT ![p] = s]
      /\ startup' = "AddUnit"
      /\ UNCHANGED <<processVars, clientVars, mailboxVars, request, target, units, ttl,
                     timerVars, flagVars, faultVars>>
  BY <1>2, <1>3 DEF TakeSlot
<1>6. shm' \in [Slots -> [alive : BOOLEAN, taken : BOOLEAN]]
  BY <1>4, <1>5 DEF SupervisionInv, TypeOK
<1>7. /\ slot' \in [Processes -> Slots \cup {NoUnit}]
      /\ startup' \in StartupSteps
  BY <1>1, <1>4, <1>5 DEF SupervisionInv, TypeOK, StartupSteps
<1>8. TypeOK'
  BY <1>5, <1>6, <1>7 DEF SupervisionInv, TypeOK, processVars, clientVars, mailboxVars,
                         timerVars, flagVars, faultVars
<1> QED
  BY <1>1, <1>2, <1>4, <1>5, <1>8 DEF FreeSlots

LEMMA AddNewUnitAdds ==
    ASSUME WatchdogAssumption, SupervisionInv, AddNewUnit
    PROVE  LET p == request.from IN
           /\ startup = "AddUnit" /\ request.kind = "REGISTER_REQUEST"
           /\ p \in Processes /\ p \notin units /\ client[p] = "registering"
           /\ units' = units \cup {p}
           /\ offset' = [offset EXCEPT ![p] = slot[p]]
           /\ client' = [client EXCEPT ![p] = "registered"]
           /\ startup' = "Loop"
           /\ UNCHANGED <<processVars, mailboxVars, request, target, slot, timerVars,
                          shm, flagVars, faultVars>>
           /\ TypeOK'
<1> DEFINE p == request.from
<1>1. startup = "AddUnit" /\ p \in Processes
  BY SenderOfRequest DEF AddNewUnit, SupervisionInv
<1>2. request.kind = "REGISTER_REQUEST" /\ client[p] = "registering" /\ p \notin units
  BY <1>1 DEF SupervisionInv, RequestOK, UnitsOK
<1>3. /\ units' = units \cup {p}
      /\ ttl' = [ttl EXCEPT ![p] = BaseTTL[p]]
      /\ offset' = [offset EXCEPT ![p] = slot[p]]
      /\ client' = [client EXCEPT ![p] = "registered"]
      /\ startup' = "Loop"
      /\ UNCHANGED <<processVars, mailboxVars, request, target, slot, timerVars, shm,
                     flagVars, faultVars>>
  BY DEF AddNewUnit
<1>4. /\ ttl' \in [Processes -> Nat]
      /\ offset' \in [Processes -> Slots \cup {NoUnit}]
      /\ client' \in [Processes -> ClientSteps]
      /\ units' \subseteq Processes
      /\ startup' \in StartupSteps
  BY <1>1, <1>3, WatchdogAssumption DEF SupervisionInv, TypeOK, ClientSteps, StartupSteps
<1>5. TypeOK'
  BY <1>3, <1>4 DEF SupervisionInv, TypeOK, processVars, mailboxVars, timerVars, flagVars,
                    faultVars
<1> QED
  BY <1>1, <1>2, <1>3, <1>5

(* ... nor into that of StartTimer.                                        *)
LEMMA StartTimerStarts ==
    ASSUME WatchdogAssumption, SupervisionInv, StartTimer
    PROVE  LET p == request.from IN
           /\ startup = "Parse" /\ request.kind = "START"
           /\ p \in Processes /\ AwaitsStart(p)
           /\ timer' = [timer EXCEPT ![p] = TRUE]
           /\ startup' = "Loop"
           /\ UNCHANGED <<processVars, clientVars, mailboxVars, request, target,
                          unitVars, callback, shm, flagVars, faultVars>>
           /\ TypeOK'
<1> DEFINE p == request.from
<1>1. startup = "Parse" /\ request.kind = "START" /\ p \in Processes
  BY SenderOfRequest DEF StartTimer, SupervisionInv
<1>2. AwaitsStart(p)
  BY <1>1 DEF SupervisionInv, RequestOK
<1>3. /\ timer' = [timer EXCEPT ![p] = TRUE]
      /\ startup' = "Loop"
      /\ UNCHANGED <<processVars, clientVars, mailboxVars, request, target, unitVars,
                     callback, shm, flagVars, faultVars>>
  BY <1>2 DEF StartTimer, AwaitsStart
<1>4. TypeOK'
  BY <1>3 DEF SupervisionInv, TypeOK, processVars, clientVars, mailboxVars, unitVars, flagVars,
              faultVars, StartupSteps
<1> QED
  BY <1>1, <1>2, <1>3, <1>4

(* Type correctness is kept; the slots a unit can have are those there are. *)
LEMMA StartupKeepsTypes ==
    ASSUME WatchdogAssumption, SupervisionInv, StartupNext
    PROVE  TypeOK'
<1> USE WatchdogAssumption DEF SupervisionInv, TypeOK, startupVars, processVars, clientVars,
        mailboxVars, unitVars, timerVars, flagVars, faultVars, StartupSteps, ClientSteps,
        Processes
<1>1. CASE DequeueAndCTS
  <2>1. Head(held) \in Processes /\ Tail(held) \in Seq(Processes)
    BY <1>1, TailFacts DEF DequeueAndCTS
  <2> QED
    BY <1>1, <2>1 DEF DequeueAndCTS, Message, Messages
<1>2. CASE \/ SendCTS \/ TakeConnectionless \/ TakeMessage \/ EnqueueAndHold
           \/ DropConnectionless
  <2>1. Head(inbox) \in Messages /\ Tail(inbox) \in Seq(Messages)
    BY <1>2, TailFacts DEF SendCTS, TakeConnectionless, TakeMessage, EnqueueAndHold,
                           DropConnectionless, Take
  <2>2. /\ Head(inbox).from \in Processes
        /\ Append(held, Head(inbox).from) \in Seq(Processes)
    BY <2>1, AppendFacts DEF Messages
  <2>3. Message("REGISTER_REQUEST", Head(inbox).from) \in Messages
    BY <2>2 DEF Message, Messages
  <2>4. CASE SendCTS
    BY <2>1, <2>2, <2>3, <2>4 DEF SendCTS, Take
  <2>5. CASE TakeConnectionless
    BY <2>1, <2>5 DEF TakeConnectionless, Take
  <2>6. CASE TakeMessage
    BY <2>1, <2>6 DEF TakeMessage, Take
  <2>7. CASE EnqueueAndHold
    BY <2>1, <2>2, <2>7 DEF EnqueueAndHold, Take
  <2>8. CASE DropConnectionless
    BY <2>1, <2>8 DEF DropConnectionless, Take
  <2> QED
    BY <1>2, <2>4, <2>5, <2>6, <2>7, <2>8
<1>3. CASE BeginListening \/ ListenTimesOut \/ BeginKillAll
  BY <1>3 DEF BeginListening, ListenTimesOut, BeginKillAll
<1>4. CASE TakeSlot \/ AddNewUnit
  BY <1>4, TakeSlotTakes, AddNewUnitAdds
<1>5. CASE StartTimer
  BY <1>5, StartTimerStarts
<1>6. CASE FindExited
  <2>1. process' \in [Processes -> {"running", "exited", "reaped"}]
    BY <1>6 DEF FindExited, Reap
  <2>2. startup' \in StartupSteps /\ target' \in Processes
    BY <1>6 DEF FindExited, NextTarget
  <2> QED
    BY <1>6, <2>1, <2>2 DEF FindExited
<1>7. CASE Kill
  BY <1>7 DEF Kill
<1>8. CASE ForceKill
  BY <1>8 DEF ForceKill
<1>9. CASE WaitForProcess
  BY <1>9 DEF WaitForProcess, Reap, NextTarget
<1> QED
  BY <1>1, <1>2, <1>3, <1>4, <1>5, <1>6, <1>7, <1>8, <1>9 DEF StartupNext

LEMMA OthersKeepTypes ==
    ASSUME WatchdogAssumption, SupervisionInv, NEW p \in Processes,
           Interrupts \/ ClientNext(p) \/ Expire(p) \/ CallbackNext(p)
    PROVE  TypeOK'
<1> USE WatchdogAssumption DEF SupervisionInv, TypeOK, startupVars, processVars, clientVars,
        mailboxVars, unitVars, timerVars, flagVars, faultVars, ClientSteps
<1>1. CASE SendRTS(p) \/ SendRegisterRequest(p) \/ Start(p)
  <2>1. \A kind \in {"RTS", "REGISTER_REQUEST", "START"} :
           Append(inbox, Message(kind, p)) \in Seq(Messages)
    <3> SUFFICES ASSUME NEW kind \in {"RTS", "REGISTER_REQUEST", "START"}
                 PROVE  Append(inbox, Message(kind, p)) \in Seq(Messages)
      OBVIOUS
    <3>1. Message(kind, p) \in Messages
      BY DEF Message, Messages
    <3> QED
      BY <3>1, AppendFacts
  <2> QED
    BY <1>1, <2>1 DEF SendRTS, SendRegisterRequest, Start
<1>2. CASE Kick(p)
  <2>1. shm' \in [Slots -> [alive : BOOLEAN, taken : BOOLEAN]]
    BY <1>2 DEF Kick
  <2> QED
    BY <1>2, <2>1 DEF Kick
<1>3. CASE Leave(p) \/ Hang(p) \/ Crash(p) \/ Interrupts
  <2>1. CASE Leave(p)
    BY <2>1 DEF Leave
  <2>2. CASE Hang(p)
    BY <2>2 DEF Hang
  <2>3. CASE Crash(p)
    BY <2>3 DEF Crash
  <2>4. CASE Interrupts
    <3>1. CASE Interrupt
      BY <3>1 DEF Interrupt, RaiseFlag, startupVars
    <3>2. CASE InterruptReceive
      BY <3>2 DEF InterruptReceive, RaiseFlag, StartupSteps
    <3>3. CASE InterruptWait
      BY <3>3 DEF InterruptWait, RaiseFlag, NextTarget, StartupSteps, Processes
    <3> QED
      BY <2>4, <3>1, <3>2, <3>3 DEF Interrupts
  <2> QED
    BY <1>3, <2>1, <2>2, <2>3, <2>4
<1>4. CASE Expire(p) \/ SeeSilent(p)
  BY <1>4 DEF Expire, SeeSilent
<1>5. CASE SeeAlive(p)
  <2>1. shm' \in [Slots -> [alive : BOOLEAN, taken : BOOLEAN]]
    BY <1>5 DEF SeeAlive
  <2> QED
    BY <1>5, <2>1 DEF SeeAlive, Rearm
<1>6. CASE DecrementTTL(p) \/ RequestTermination(p)
  <2>1. CASE DecrementTTL(p)
    <3>1. ttl' \in [Processes -> Nat]
      BY <2>1 DEF DecrementTTL
    <3> QED
      BY <2>1, <3>1 DEF DecrementTTL, Rearm
  <2>2. CASE RequestTermination(p)
    BY <2>2 DEF RequestTermination
  <2> QED
    BY <1>6, <2>1, <2>2
<1>7. CASE ClearSlot(p) \/ EraseUnit(p)
  <2>1. CASE ClearSlot(p)
    <3>1. /\ shm' \in [Slots -> [alive : BOOLEAN, taken : BOOLEAN]]
          /\ ttl' \in [Processes -> Nat]
      BY <2>1 DEF ClearSlot
    <3> QED
      BY <2>1, <3>1 DEF ClearSlot
  <2>2. CASE EraseUnit(p)
    <3>1. ttl' \in [Processes -> Nat]
      BY <2>2 DEF EraseUnit
    <3> QED
      BY <2>2, <3>1 DEF EraseUnit
  <2> QED
    BY <1>7, <2>1, <2>2
<1>8. CASE RestartRunning(p) \/ RestartExited(p) \/ Initiate(p)
  BY <1>8 DEF RestartRunning, RestartExited, Initiate, Reap
<1> QED
  BY <1>1, <1>2, <1>3, <1>4, <1>5, <1>6, <1>7, <1>8 DEF ClientNext, CallbackNext

(* Slots: a kick and its check leave alone what is taken ...               *)
LEMMA SlotsUntouched ==
    ASSUME SupervisionInv, SlotOwners' = SlotOwners,
           \A p \in SlotOwners : slot'[p] = slot[p],
           \A s \in Slots : shm'[s].taken = shm[s].taken
    PROVE  SlotAccounting'
<1>1. {slot'[p] : p \in SlotOwners'} = {slot[p] : p \in SlotOwners}
  OBVIOUS
<1>2. {s \in Slots : shm'[s].taken} = {s \in Slots : shm[s].taken}
  OBVIOUS
<1> QED
  BY <1>1, <1>2 DEF SupervisionInv, SlotAccounting

(* ... a new unit takes a free slot and keeps it ...                       *)
LEMMA TakeSlotKeepsSlots ==
    ASSUME WatchdogAssumption, SupervisionInv, TakeSlot
    PROVE  SlotAccounting'
<1> DEFINE p == request.from
           s == FirstAvailableSlot
<1>1. /\ p \in Processes /\ p \notin units /\ s \in Slots /\ ~shm[s].taken
      /\ startup = "Parse" /\ startup' = "AddUnit" /\ request' = request
      /\ shm' = [shm EXCEPT ![s].taken = TRUE]
      /\ slot' = [slot EXCEPT ![p] = s]
      /\ UNCHANGED <<units, callback>>
  BY TakeSlotTakes DEF timerVars
<1>2. SlotOwners' = SlotOwners \cup {p} /\ p \notin SlotOwners
  BY <1>1 DEF SlotOwners
<1>3. SlotOwners \subseteq Processes
  BY DEF SlotOwners, SupervisionInv, TypeOK
<1> HIDE DEF p, s
<1>4. /\ slot'[p] = s
      /\ \A q \in SlotOwners : slot'[q] = slot[q] /\ slot[q] # s /\ slot[q] \in Slots
  BY <1>1, <1>2, <1>3 DEF SupervisionInv, TypeOK, SlotAccounting
<1>5. \A t \in Slots : shm'[t].taken <=> (t = s \/ shm[t].taken)
  BY <1>1 DEF SupervisionInv, TypeOK
<1>6. {slot'[q] : q \in SlotOwners'} = {slot[q] : q \in SlotOwners} \cup {s}
  BY <1>2, <1>4
<1>7. {t \in Slots : shm'[t].taken} = {t \in Slots : shm[t].taken} \cup {s}
  BY <1>1, <1>5
<1>8. \A q, r \in SlotOwners' : slot'[q] = slot'[r] => q = r
  BY <1>2, <1>4 DEF SupervisionInv, SlotAccounting
<1> QED
  BY <1>1, <1>2, <1>4, <1>6, <1>7, <1>8 DEF SupervisionInv, SlotAccounting

LEMMA AddNewUnitKeepsSlots ==
    ASSUME WatchdogAssumption, SupervisionInv, AddNewUnit
    PROVE  SlotAccounting'
<1>1. /\ startup = "AddUnit" /\ startup' = "Loop"
      /\ request.from \in Processes /\ client[request.from] = "registering"
      /\ units' = units \cup {request.from}
      /\ UNCHANGED <<slot, callback, shm>>
  BY AddNewUnitAdds DEF timerVars
<1>2. callback[request.from] # "erase"
  BY <1>1 DEF SupervisionInv, UnitsOK, Restarting
<1>3. SlotOwners' = SlotOwners
  BY <1>1, <1>2 DEF SlotOwners
<1> QED
  BY <1>1, <1>3, SlotsUntouched

(* ... one that is removed gives back its own and nobody else's, and has   *)
(* none any more when it is erased.                                        *)
LEMMA ClearSlotKeepsSlots ==
    ASSUME SupervisionInv, NEW p \in Processes, ClearSlot(p)
    PROVE  SlotAccounting'
<1>1. /\ p \in units /\ client[p] \in {"working", "hung"} /\ callback[p] = "silent"
      /\ shm' = [shm EXCEPT ![slot[p]] = [alive |-> FALSE, taken |-> FALSE]]
      /\ callback' = [callback EXCEPT ![p] = "erase"]
      /\ UNCHANGED <<units, slot, startup, request>>
  BY DEF ClearSlot, Missed, SupervisionInv, UnitsOK, startupVars
<1>2. startup = "AddUnit" => p # request.from
  BY <1>1 DEF SupervisionInv, RequestOK
<1>3. SlotOwners' = SlotOwners \ {p} /\ p \in SlotOwners
  BY <1>1, <1>2 DEF SlotOwners, SupervisionInv, TypeOK
<1>4. slot[p] \in Slots /\ \A q \in SlotOwners' : slot[q] # slot[p] /\ slot[q] \in Slots
  BY <1>3 DEF SupervisionInv, SlotAccounting
<1>5. \A t \in Slots : shm'[t].taken <=> (t # slot[p] /\ shm[t].taken)
  BY <1>1 DEF SupervisionInv, TypeOK
<1>6. {slot'[q] : q \in SlotOwners'} = {slot[q] : q \in SlotOwners} \ {slot[p]}
  BY <1>1, <1>3, <1>4
<1>7. {t \in Slots : shm'[t].taken} = {t \in Slots : shm[t].taken} \ {slot[p]}
  BY <1>5
<1> QED
  BY <1>1, <1>3, <1>4, <1>6, <1>7 DEF SupervisionInv, SlotAccounting

LEMMA EraseUnitKeepsSlots ==
    ASSUME SupervisionInv, NEW p \in Processes, EraseUnit(p)
    PROVE  SlotAccounting'
<1>1. /\ callback[p] = "erase" /\ client[p] \in {"working", "hung"}
      /\ units' = units \ {p}
      /\ slot' = [slot EXCEPT ![p] = NoUnit]
      /\ callback' = [callback EXCEPT ![p] = "restart"]
      /\ UNCHANGED <<shm, startup, request>>
  BY DEF EraseUnit, SupervisionInv, UnitsOK, Restarting, startupVars
<1>2. startup = "AddUnit" => p # request.from
  BY <1>1 DEF SupervisionInv, RequestOK
<1>3. SlotOwners' = SlotOwners /\ p \notin SlotOwners
  BY <1>1, <1>2 DEF SlotOwners, SupervisionInv, TypeOK
<1>4. \A q \in SlotOwners : slot'[q] = slot[q]
  BY <1>1, <1>3 DEF SlotOwners, SupervisionInv, TypeOK
<1> QED
  BY <1>1, <1>3, <1>4, SlotsUntouched

LEMMA SlotAccountingKept ==
    ASSUME WatchdogAssumption, SupervisionInv, Next
    PROVE  SlotAccounting'
<1>0. ASSUME startup' = "AddUnit" <=> startup = "AddUnit",
             startup = "AddUnit" => request' = request,
             units' = units,
             \A p \in units : callback'[p] = "erase" <=> callback[p] = "erase"
      PROVE  SlotOwners' = SlotOwners
  BY <1>0 DEF SlotOwners
<1>1. ASSUME NEW p \in Processes, Kick(p) \/ SeeAlive(p)
      PROVE  SlotAccounting'
  <2>1. UNCHANGED <<units, slot, startup, request>>
    BY <1>1 DEF Kick, SeeAlive, unitVars, startupVars
  <2>2. \A q \in units : callback'[q] = "erase" <=> callback[q] = "erase"
    BY <1>1 DEF Kick, SeeAlive, Rearm, timerVars, SupervisionInv, TypeOK
  <2>3. \A s \in Slots : shm'[s].taken = shm[s].taken
    <3>1. PICK o, b : shm' = [shm EXCEPT ![o].alive = b]
      BY <1>1 DEF Kick, SeeAlive
    <3>2. \A s \in Slots : shm[s] \in [alive : BOOLEAN, taken : BOOLEAN]
      BY DEF SupervisionInv, TypeOK
    <3> QED
      BY <3>1, <3>2 DEF SupervisionInv, TypeOK
  <2> QED
    BY <1>0, <2>1, <2>2, <2>3, SlotsUntouched
<1>2. ASSUME NEW p \in Processes, ClientNext(p) \/ Expire(p) \/ CallbackNext(p),
             ~Kick(p), ~SeeAlive(p), ~ClearSlot(p), ~EraseUnit(p)
      PROVE  SlotAccounting'
  <2>1. UNCHANGED <<units, slot, shm, startup, request>>
    BY <1>2 DEF ClientNext, CallbackNext, SendRTS, SendRegisterRequest, Start, Leave, Hang,
        Crash, Expire, SeeSilent, DecrementTTL, RequestTermination, RestartRunning,
        RestartExited, Initiate, unitVars, startupVars
  <2>2. \A q \in Processes : callback'[q] = "erase" <=> callback[q] = "erase"
    BY <1>2 DEF ClientNext, CallbackNext, SendRTS, SendRegisterRequest, Start, Leave, Hang,
        Crash, Expire, SeeSilent, DecrementTTL, RequestTermination, RestartRunning,
        RestartExited, Initiate, timerVars, Rearm, Missed, SupervisionInv, TypeOK
  <2> QED
    BY <1>0, <2>1, <2>2, SlotsUntouched DEF SupervisionInv, TypeOK
<1>3. CASE (StartupNext /\ ~TakeSlot /\ ~AddNewUnit) \/ Interrupts
  <2>1. StartTimer => UNCHANGED <<units, slot, shm, callback, request>> /\ startup' = "Loop"
    BY StartTimerStarts DEF unitVars
  <2>2. UNCHANGED <<units, slot, shm, callback>>
    BY <1>3, <2>1 DEF StartupNext, DequeueAndCTS, BeginListening, SendCTS, TakeConnectionless,
        ListenTimesOut, TakeMessage, EnqueueAndHold, DropConnectionless, BeginKillAll,
        FindExited, Kill, ForceKill, WaitForProcess, Interrupts, Interrupt, InterruptReceive,
        InterruptWait, unitVars, timerVars
  <2>3. startup' = "AddUnit" <=> startup = "AddUnit"
    BY <1>3, <2>1, StartTimerStarts DEF StartupNext, DequeueAndCTS, BeginListening, SendCTS,
        TakeConnectionless, ListenTimesOut, TakeMessage, EnqueueAndHold, DropConnectionless,
        Take, BeginKillAll, FindExited, Kill, ForceKill, WaitForProcess, Interrupts, Interrupt,
        InterruptReceive, InterruptWait, NextTarget, startupVars
  <2>4. startup = "AddUnit" => request' = request
    BY <1>3, StartTimerStarts DEF StartupNext, DequeueAndCTS, BeginListening, SendCTS,
        TakeConnectionless, ListenTimesOut, TakeMessage, EnqueueAndHold, DropConnectionless,
        Take, BeginKillAll, FindExited, Kill, ForceKill, WaitForProcess, Interrupts, Interrupt,
        InterruptReceive, InterruptWait, startupVars
  <2> QED
    BY <1>0, <2>2, <2>3, <2>4, SlotsUntouched
<1> QED
  BY <1>1, <1>2, <1>3, TakeSlotKeepsSlots, AddNewUnitKeepsSlots, ClearSlotKeepsSlots,
     EraseUnitKeepsSlots DEF Next, Interrupts

(* Messages: those of another step, and those of nobody that changes.  A   *)
(* queue that is left alone or shortened stays in order as long as what    *)
(* its messages speak of does.                                             *)
LEMMA MessagesStay ==
    ASSUME SupervisionInv, UNCHANGED mailboxVars,
           InHand' => InHand /\ request' = request,
           \A p \in Processes :
              /\ client[p] \in {"rts_sent", "registering"} => client'[p] = client[p]
              /\ AwaitsStart(p) =>
                    \/ AwaitsStart(p)'
                    \/ \A i \in 1 .. Len(inbox) : inbox[i] # Message("START", p)
    PROVE  MessagesOK'
<1>0. \A m \in Messages : /\ m.from \in Processes
                          /\ m.kind = "START" => m = Message("START", m.from)
  BY DEF Messages, Message
<1>1. \A i \in 1 .. Len(inbox) : inbox[i] \in Messages
  BY DEF SupervisionInv, TypeOK
<1>2. \A i \in 1 .. Len(held) : held[i] \in Processes
  BY DEF SupervisionInv, TypeOK
<1>3. inbox' = inbox /\ held' = held
  BY DEF mailboxVars
<1>4. ASSUME NEW i \in 1 .. Len(inbox), NEW p \in Processes, p = inbox[i].from
      PROVE  /\ inbox[i].kind = "RTS" =>
                   /\ client'[p] = "rts_sent"
                   /\ \A j \in 1 .. Len(held) : held[j] # p
             /\ inbox[i].kind = "REGISTER_REQUEST" => client'[p] = "registering"
             /\ inbox[i].kind = "START" => AwaitsStart(p)'
             /\ InHand' => inbox[i] # request'
  <2>1. /\ inbox[i].kind = "RTS" =>
              client[p] = "rts_sent" /\ \A j \in 1 .. Len(held) : held[j] # p
        /\ inbox[i].kind = "REGISTER_REQUEST" => client[p] = "registering"
        /\ inbox[i].kind = "START" => AwaitsStart(p) /\ inbox[i] = Message("START", p)
        /\ InHand => inbox[i] # request
    BY <1>0, <1>1, <1>4 DEF SupervisionInv, MessagesOK
  <2> QED
    BY <2>1
<1>5. \A i \in 1 .. Len(held) : client'[held[i]] = "rts_sent"
  BY <1>2 DEF SupervisionInv, MessagesOK
<1> QED
  BY <1>0, <1>1, <1>3, <1>4, <1>5 DEF SupervisionInv, MessagesOK, AwaitsStart

(* What MessagesOK says of one message under way.                          *)
Fits(m) ==
    /\ m.kind = "RTS" =>
          client[m.from] = "rts_sent" /\ \A j \in 1 .. Len(held) : held[j] # m.from
    /\ m.kind = "REGISTER_REQUEST" => client[m.from] = "registering"
    /\ m.kind = "START" => AwaitsStart(m.from)
    /\ InHand => m # request

(* MessagesOK, message by message, in the next state.                      *)
LEMMA MessagesFit ==
    ASSUME \A i, j \in 1 .. Len(inbox') : inbox'[i] = inbox'[j] => i = j,
           \A n : (\E i \in 1 .. Len(inbox') : inbox'[i] = n) => Fits(n)',
           \A i, j \in 1 .. Len(held') : held'[i] = held'[j] => i = j,
           \A i \in 1 .. Len(held') : client'[held'[i]] = "rts_sent"
    PROVE  MessagesOK'
BY DEF MessagesOK, Fits, AwaitsStart, InHand

LEMMA TakenMessage ==
    ASSUME SupervisionInv, NEW step, NEW kind, Take(step, kind)
    PROVE  /\ Head(inbox) \in Messages /\ Head(inbox).kind = kind /\ Fits(Head(inbox))
           /\ startup = step
           /\ \A i \in 1 .. Len(inbox') :
                 inbox'[i] \in Messages /\ inbox'[i] # Head(inbox) /\ Fits(inbox'[i])
           /\ \A i, j \in 1 .. Len(inbox') : inbox'[i] = inbox'[j] => i = j
<1>1. inbox \in Seq(Messages) /\ inbox # <<>> /\ inbox' = Tail(inbox)
      /\ Head(inbox).kind = kind /\ startup = step
  BY DEF SupervisionInv, TypeOK, Take
<1>2. /\ Len(inbox) \in Nat /\ Len(inbox) > 0
      /\ Head(inbox) \in Messages /\ Head(inbox) = inbox[1]
      /\ Len(inbox') = Len(inbox) - 1
      /\ \A i \in 1 .. Len(inbox') : i + 1 \in 1 .. Len(inbox) /\ inbox'[i] = inbox[i + 1]
  BY <1>1, TailFacts
<1>3. \A i \in 1 .. Len(inbox) : inbox[i] \in Messages /\ Fits(inbox[i])
  BY <1>1 DEF SupervisionInv, MessagesOK, Fits
<1>4. \A i, j \in 1 .. Len(inbox) : inbox[i] = inbox[j] => i = j
  BY DEF SupervisionInv, MessagesOK
<1>5. Fits(Head(inbox))
  BY <1>2, <1>3
<1>6. ASSUME NEW i \in 1 .. Len(inbox')
      PROVE  inbox'[i] \in Messages /\ inbox'[i] # Head(inbox) /\ Fits(inbox'[i])
  <2>1. i + 1 \in 1 .. Len(inbox) /\ inbox'[i] = inbox[i + 1] /\ i + 1 # 1
    BY <1>2
  <2>2. inbox[i + 1] # inbox[1]
    BY <1>2, <1>4, <2>1
  <2> QED
    BY <1>2, <1>3, <2>1, <2>2
<1>7. ASSUME NEW i \in 1 .. Len(inbox'), NEW j \in 1 .. Len(inbox'), inbox'[i] = inbox'[j]
      PROVE  i = j
  <2>1. i + 1 \in 1 .. Len(inbox) /\ j + 1 \in 1 .. Len(inbox) /\ inbox[i + 1] = inbox[j + 1]
    BY <1>2, <1>7
  <2>2. i + 1 = j + 1
    BY <1>4, <2>1
  <2> QED
    BY <2>2
<1> QED
  BY <1>1, <1>2, <1>5, <1>6, <1>7

(* A message taken from the queue leaves the others in order.              *)
LEMMA TakingKeepsMessages ==
    ASSUME WatchdogAssumption, SupervisionInv,
           \/ SendCTS \/ TakeConnectionless \/ TakeMessage \/ EnqueueAndHold
           \/ DropConnectionless
    PROVE  MessagesOK'
<1> DEFINE m == Head(inbox)
           p == m.from
<1>a. PICK step, kind : Take(step, kind)
  BY DEF SendCTS, TakeConnectionless, TakeMessage, EnqueueAndHold, DropConnectionless
<1>b. /\ m \in Messages /\ Fits(m)
      /\ \A i \in 1 .. Len(inbox') :
            inbox'[i] \in Messages /\ inbox'[i] # m /\ Fits(inbox'[i])
      /\ \A i, j \in 1 .. Len(inbox') : inbox'[i] = inbox'[j] => i = j
  BY <1>a, TakenMessage
<1>c. p \in Processes
  BY <1>b DEF Messages
<1>d. \A i \in 1 .. Len(inbox') : inbox'[i].from = p => inbox'[i].kind # m.kind
  BY <1>b DEF Messages
<1>e. /\ held \in Seq(Processes)
      /\ \A i, j \in 1 .. Len(held) : held[i] = held[j] => i = j
      /\ \A i \in 1 .. Len(held) : client[held[i]] = "rts_sent"
  BY DEF SupervisionInv, TypeOK, MessagesOK
<1> HIDE DEF m
<1>1. CASE SendCTS
  <2>1. /\ m.kind = "RTS" /\ client[p] = "rts_sent"
        /\ \A j \in 1 .. Len(held) : held[j] # p
        /\ client' = [client EXCEPT ![p] = "cleared"]
        /\ startup' = "AwaitMessage"
        /\ UNCHANGED <<held, units, timer, callback>>
    BY <1>1, <1>b DEF SendCTS, Take, Fits, m, unitVars, timerVars
  <2>2. \A q \in Processes : q # p => client'[q] = client[q]
    BY <2>1, <1>c DEF SupervisionInv, TypeOK
  <2>3. ASSUME NEW n, \E i \in 1 .. Len(inbox') : inbox'[i] = n
        PROVE  Fits(n)'
    <3>1. n \in Messages /\ n # m /\ Fits(n) /\ n.from \in Processes
      BY <1>b, <2>3 DEF Messages
    <3>2. n.from # p
      BY <1>b, <1>c, <1>d, <2>1, <2>3, <3>1 DEF Fits, AwaitsStart, InHand, Messages
    <3> QED
      BY <2>1, <2>2, <3>1, <3>2 DEF Fits, AwaitsStart, InHand
  <2>4. \A i \in 1 .. Len(held) : client'[held[i]] = "rts_sent"
    BY <1>e, <2>1, <2>2
  <2> QED
    BY <1>b, <1>e, <2>1, <2>3, <2>4, MessagesFit
<1>2. CASE TakeConnectionless \/ TakeMessage
  <2>1. /\ request' = m /\ startup' = "Parse"
        /\ UNCHANGED <<client, held, units, timer, callback>>
    <3>1. CASE TakeConnectionless
      BY <3>1 DEF TakeConnectionless, m, clientVars, unitVars, timerVars
    <3>2. CASE TakeMessage
      <4>1. /\ m.kind = "REGISTER_REQUEST" /\ m.from = request.from
            /\ request.kind = "REGISTER_REQUEST" /\ request \in Messages
        BY <3>2, SenderOfRequest DEF TakeMessage, Take, m, SupervisionInv, RequestOK
      <4>2. m = request
        BY <1>b, <4>1 DEF Messages
      <4> QED
        BY <3>2, <4>2 DEF TakeMessage, clientVars, unitVars, timerVars
    <3> QED
      BY <1>2, <3>1, <3>2
  <2>2. ASSUME NEW n, \E i \in 1 .. Len(inbox') : inbox'[i] = n
        PROVE  Fits(n)'
    BY <1>b, <2>1, <2>2 DEF Fits, AwaitsStart, InHand
  <2> QED
    BY <1>b, <1>e, <2>1, <2>2, MessagesFit
<1>3. CASE EnqueueAndHold
  <2>1. /\ m.kind = "RTS" /\ client[p] = "rts_sent"
        /\ \A j \in 1 .. Len(held) : held[j] # p
        /\ held' = Append(held, p)
        /\ startup' = startup /\ startup = "AwaitMessage"
        /\ UNCHANGED <<client, units, timer, callback>>
    BY <1>3, <1>b DEF EnqueueAndHold, Take, Fits, m, startupVars, clientVars, unitVars, timerVars
  <2>2. /\ Len(held) \in Nat /\ Len(held') = Len(held) + 1
        /\ held'[Len(held) + 1] = p
        /\ \A i \in 1 .. Len(held) : held'[i] = held[i]
    BY <1>c, <1>e, <2>1, AppendFacts
  <2>3. \A i \in 1 .. Len(held') : i \in 1 .. Len(held) \/ i = Len(held) + 1
    BY <2>2
  <2>4. ASSUME NEW n, \E i \in 1 .. Len(inbox') : inbox'[i] = n
        PROVE  Fits(n)'
    <3>1. Fits(n) /\ (n.kind = "RTS" => n.from # p)
      BY <1>b, <1>d, <2>1, <2>4
    <3> QED
      BY <2>1, <2>2, <2>3, <3>1 DEF Fits, AwaitsStart, InHand
  <2>5. /\ \A i, j \in 1 .. Len(held') : held'[i] = held'[j] => i = j
        /\ \A i \in 1 .. Len(held') : client'[held'[i]] = "rts_sent"
    BY <1>e, <2>1, <2>2, <2>3
  <2> QED
    BY <1>b, <2>4, <2>5, MessagesFit
<1>4. CASE DropConnectionless
  <2>1. UNCHANGED <<client, held, startup, request, units, timer, callback>>
    BY <1>4 DEF DropConnectionless, clientVars, startupVars, unitVars, timerVars
  <2>2. ASSUME NEW n, \E i \in 1 .. Len(inbox') : inbox'[i] = n
        PROVE  Fits(n)'
    BY <1>b, <2>1, <2>2 DEF Fits, AwaitsStart, InHand
  <2> QED
    BY <1>b, <1>e, <2>1, <2>2, MessagesFit
<1> QED
  BY <1>1, <1>2, <1>3, <1>4

(* A client sends what its step allows, and nothing of its is under way.   *)
LEMMA SendingKeepsMessages ==
    ASSUME SupervisionInv, NEW p \in Processes,
           SendRTS(p) \/ SendRegisterRequest(p) \/ Start(p)
    PROVE  MessagesOK'
<1>1. PICK kind \in {"RTS", "REGISTER_REQUEST", "START"}, next \in ClientSteps :
         /\ inbox' = Append(inbox, Message(kind, p))
         /\ client' = [client EXCEPT ![p] = next]
         /\ kind = "RTS" => client[p] = "starting" /\ next = "rts_sent"
         /\ kind = "REGISTER_REQUEST" => client[p] = "cleared" /\ next = "registering"
         /\ kind = "START" => client[p] = "registered" /\ next = "working"
         /\ UNCHANGED <<held, startup, request, units, timer, callback>>
  BY DEF ClientSteps, SendRTS, SendRegisterRequest, Start, Runs, startupVars, unitVars, timerVars
<1> DEFINE m == Message(kind, p)
<1>2. m \in Messages /\ m.kind = kind /\ m.from = p
  BY DEF Message, Messages
<1> HIDE DEF m
<1>3. /\ Len(inbox) \in Nat /\ Len(inbox') = Len(inbox) + 1
      /\ inbox'[Len(inbox) + 1] = m
      /\ \A i \in 1 .. Len(inbox) : inbox'[i] = inbox[i]
  BY <1>1, <1>2, AppendFacts DEF SupervisionInv, TypeOK, m
<1>4. \A i \in 1 .. Len(inbox') : i \in 1 .. Len(inbox) \/ i = Len(inbox) + 1
  BY <1>3
<1>5. client[p] \in {"starting", "cleared", "registered"}
  BY <1>1
<1>6. \A i \in 1 .. Len(inbox) : inbox[i] \in Messages /\ Fits(inbox[i])
  BY DEF SupervisionInv, TypeOK, MessagesOK, Fits, InHand
<1>7. \A i \in 1 .. Len(inbox) : inbox[i].from # p
  BY <1>5, <1>6 DEF Fits, AwaitsStart, InHand, Messages
<1>8. \A i \in 1 .. Len(held) : held[i] \in Processes /\ held[i] # p
  <2>1. held \in Seq(Processes) /\ \A i \in 1 .. Len(held) : client[held[i]] = "rts_sent"
    BY DEF SupervisionInv, TypeOK, MessagesOK
  <2> QED
    BY <1>5, <2>1
<1>9. client'[p] = next /\ \A q \in Processes : q # p => client'[q] = client[q]
  BY <1>1 DEF SupervisionInv, TypeOK
<1>10. InHand => m # request
  BY <1>1, <1>2, <1>5 DEF SupervisionInv, RequestOK, AwaitsStart, InHand
<1>11. ASSUME NEW n, \E i \in 1 .. Len(inbox') : inbox'[i] = n
       PROVE  Fits(n)'
  <2>1. CASE n = m
    <3>1. kind = "START" => p \in units /\ ~timer[p] /\ callback[p] = "none"
      BY <1>1 DEF SupervisionInv, UnitsOK
    <3> QED
      BY <1>1, <1>2, <1>8, <1>9, <1>10, <2>1, <3>1 DEF Fits, AwaitsStart, InHand
  <2>2. CASE n # m
    <3>1. n \in Messages /\ Fits(n) /\ n.from # p /\ n.from \in Processes
      BY <1>3, <1>4, <1>6, <1>7, <1>11, <2>2 DEF Messages
    <3> QED
      BY <1>1, <1>9, <3>1 DEF Fits, AwaitsStart, InHand
  <2> QED
    BY <2>1, <2>2
<1>12. \A i, j \in 1 .. Len(inbox') : inbox'[i] = inbox'[j] => i = j
  BY <1>2, <1>3, <1>4, <1>7 DEF SupervisionInv, MessagesOK
<1>13. /\ \A i, j \in 1 .. Len(held') : held'[i] = held'[j] => i = j
       /\ \A i \in 1 .. Len(held') : client'[held'[i]] = "rts_sent"
  BY <1>1, <1>8, <1>9 DEF SupervisionInv, MessagesOK
<1> QED
  BY <1>11, <1>12, <1>13, MessagesFit

(* The sender that is cleared first is no longer held.                     *)
LEMMA ClearingKeepsMessages ==
    ASSUME SupervisionInv, DequeueAndCTS
    PROVE  MessagesOK'
<1> DEFINE p == Head(held)
<1>1. /\ held \in Seq(Processes) /\ held # <<>> /\ held' = Tail(held)
      /\ client' = [client EXCEPT ![p] = "cleared"]
      /\ startup' = "AwaitMessage"
      /\ UNCHANGED <<inbox, units, timer, callback>>
  BY DEF DequeueAndCTS, SupervisionInv, TypeOK, unitVars, timerVars
<1>2. /\ Len(held) \in Nat /\ Len(held) > 0 /\ Len(held') = Len(held) - 1
      /\ p \in Processes /\ p = held[1]
      /\ \A i \in 1 .. Len(held') : i + 1 \in 1 .. Len(held) /\ held'[i] = held[i + 1]
  BY <1>1, TailFacts
<1> HIDE DEF p
<1>3. \A i, j \in 1 .. Len(held) : held[i] = held[j] => i = j
  BY DEF SupervisionInv, MessagesOK
<1>4. \A i \in 1 .. Len(held) : held[i] \in Processes /\ client[held[i]] = "rts_sent"
  BY DEF SupervisionInv, TypeOK, MessagesOK
<1>5. \A q \in Processes : q # p => client'[q] = client[q]
  BY <1>1, <1>2 DEF SupervisionInv, TypeOK
<1>6. ASSUME NEW i \in 1 .. Len(held')
      PROVE  held'[i] = held[i + 1] /\ held'[i] # p /\ client'[held'[i]] = "rts_sent"
  <2>1. i + 1 \in 1 .. Len(held) /\ 1 \in 1 .. Len(held) /\ i + 1 # 1
        /\ held'[i] = held[i + 1]
    BY <1>2
  <2>2. held[i + 1] # p
    BY <1>2, <1>3, <2>1
  <2> QED
    BY <1>4, <1>5, <2>1, <2>2
<1>7. ASSUME NEW i \in 1 .. Len(held'), NEW j \in 1 .. Len(held'), held'[i] = held'[j]
      PROVE  i = j
  <2>1. i + 1 \in 1 .. Len(held) /\ j + 1 \in 1 .. Len(held) /\ held[i + 1] = held[j + 1]
    BY <1>2, <1>6, <1>7
  <2>2. i + 1 = j + 1
    BY <1>3, <2>1
  <2> QED
    BY <2>2
<1>8. ASSUME NEW n, \E i \in 1 .. Len(inbox') : inbox'[i] = n
      PROVE  Fits(n)'
  <2>0. \A i \in 1 .. Len(inbox) : inbox[i] \in Messages /\ Fits(inbox[i])
    BY DEF SupervisionInv, TypeOK, MessagesOK, Fits, InHand
  <2>1. n \in Messages /\ n.from \in Processes /\ Fits(n)
    BY <1>1, <1>8, <2>0 DEF Messages
  <2>2. /\ 1 \in 1 .. Len(held) /\ client[p] = "rts_sent"
        /\ n.kind = "RTS" => n.from # p
    BY <1>2, <1>4, <2>1 DEF Fits
  <2>3. n.from # p
    BY <2>1, <2>2 DEF Fits, AwaitsStart, InHand, Messages
  <2>4. n.kind = "RTS" => \A j \in 1 .. Len(held') : held'[j] # n.from
    <3>1. ASSUME n.kind = "RTS", NEW j \in 1 .. Len(held')
          PROVE  held'[j] # n.from
      <4>1. j + 1 \in 1 .. Len(held) /\ held'[j] = held[j + 1]
        BY <1>2
      <4> QED
        BY <2>1, <3>1, <4>1 DEF Fits
    <3> QED
      BY <3>1
  <2> QED
    BY <1>1, <1>5, <2>1, <2>3, <2>4 DEF Fits, AwaitsStart, InHand
<1>9. \A i, j \in 1 .. Len(inbox') : inbox'[i] = inbox'[j] => i = j
  BY <1>1 DEF SupervisionInv, MessagesOK
<1> QED
  BY <1>6, <1>7, <1>8, <1>9, MessagesFit

(* The request in hand stays in hand while its slot is taken.              *)
LEMMA TakeSlotKeepsMessages ==
    ASSUME WatchdogAssumption, SupervisionInv, TakeSlot
    PROVE  MessagesOK'
<1>1. /\ UNCHANGED <<mailboxVars, client, units, timer, callback>>
      /\ InHand /\ request' = request
  BY TakeSlotTakes DEF InHand, clientVars, timerVars
<1> QED
  BY <1>1, MessagesStay DEF AwaitsStart

(* A registered client has nothing under way but the START to come.        *)
LEMMA AddNewUnitKeepsMessages ==
    ASSUME WatchdogAssumption, SupervisionInv, AddNewUnit
    PROVE  MessagesOK'
<1> DEFINE p == request.from
<1>1. /\ startup = "AddUnit" /\ request.kind = "REGISTER_REQUEST"
      /\ p \in Processes /\ p \notin units /\ client[p] = "registering"
      /\ units' = units \cup {p}
      /\ client' = [client EXCEPT ![p] = "registered"]
      /\ startup' = "Loop"
      /\ UNCHANGED <<inbox, held, request, timer, callback>>
  BY AddNewUnitAdds DEF mailboxVars, timerVars
<1>2. \A i \in 1 .. Len(inbox) : inbox[i] \in Messages /\ Fits(inbox[i])
  BY DEF SupervisionInv, TypeOK, MessagesOK, Fits, InHand
<1>3. \A q \in Processes : q # p => client'[q] = client[q]
  BY <1>1 DEF SupervisionInv, TypeOK
<1>4. request \in Messages
  BY <1>1, SenderOfRequest DEF SupervisionInv
<1>5. ASSUME NEW n, \E i \in 1 .. Len(inbox') : inbox'[i] = n
      PROVE  Fits(n)'
  <2>1. n \in Messages /\ Fits(n) /\ n.from \in Processes
    BY <1>1, <1>2, <1>5 DEF Messages
  <2>2. n # request
    BY <1>1, <2>1 DEF Fits, InHand
  <2>3. n.from # p
    <3>1. CASE n.kind = "REGISTER_REQUEST"
      BY <1>1, <1>4, <2>1, <2>2, <3>1 DEF Messages
    <3>2. CASE n.kind # "REGISTER_REQUEST"
      BY <1>1, <2>1, <3>2 DEF Fits, AwaitsStart, InHand, Messages
    <3> QED
      BY <3>1, <3>2
  <2> QED
    BY <1>1, <1>3, <2>1, <2>3 DEF Fits, AwaitsStart, InHand
<1>6. \A i \in 1 .. Len(held) : held[i] \in Processes /\ client[held[i]] = "rts_sent"
  BY DEF SupervisionInv, TypeOK, MessagesOK
<1>7. /\ \A i, j \in 1 .. Len(inbox') : inbox'[i] = inbox'[j] => i = j
      /\ \A i, j \in 1 .. Len(held') : held'[i] = held'[j] => i = j
  BY <1>1 DEF SupervisionInv, MessagesOK
<1>8. \A i \in 1 .. Len(held') : client'[held'[i]] = "rts_sent"
  BY <1>1, <1>3, <1>6
<1> QED
  BY <1>5, <1>7, <1>8, MessagesFit

(* A timer is armed once: there is no second START under way.              *)
LEMMA StartTimerKeepsMessages ==
    ASSUME WatchdogAssumption, SupervisionInv, StartTimer
    PROVE  MessagesOK'
<1> DEFINE p == request.from
<1>1. /\ startup = "Parse" /\ request = Message("START", p) /\ p \in Processes
      /\ timer' = [timer EXCEPT ![p] = TRUE]
      /\ startup' = "Loop"
      /\ UNCHANGED <<mailboxVars, client, units, callback>>
  BY StartTimerStarts, SenderOfRequest DEF clientVars, unitVars, SupervisionInv, Messages, Message
<1>2. \A i \in 1 .. Len(inbox) : inbox[i] # Message("START", p)
  BY <1>1 DEF SupervisionInv, MessagesOK, InHand
<1>3. \A q \in Processes : q # p => timer'[q] = timer[q]
  BY <1>1 DEF SupervisionInv, TypeOK
<1> QED
  BY <1>1, <1>2, <1>3, MessagesStay DEF AwaitsStart, InHand

(* The steps that no message under way and no request in hand speaks of.   *)
Quiet ==
    /\ UNCHANGED mailboxVars
    /\ startup' \in {"AwaitMessage", "Parse", "AddUnit"} => UNCHANGED <<startup, request>>
    /\ \A p \in Processes :
          /\ client[p] \in {"rts_sent", "cleared", "registering"} => client'[p] = client[p]
          /\ AwaitsStart(p) => AwaitsStart(p)'

LEMMA MostStartupStepsAreQuiet ==
    ASSUME BeginListening \/ ListenTimesOut \/ BeginKillAll \/ FindExited \/ Kill
           \/ ForceKill \/ WaitForProcess \/ Interrupts
    PROVE  Quiet
<1>1. UNCHANGED <<mailboxVars, client, units, timer, callback>>
  BY DEF BeginListening, ListenTimesOut, BeginKillAll, FindExited, Kill, ForceKill,
         WaitForProcess, Interrupts, Interrupt, InterruptReceive, InterruptWait, clientVars,
         unitVars, timerVars
<1>2. startup' \in {"AwaitMessage", "Parse", "AddUnit"} => UNCHANGED <<startup, request>>
  BY DEF BeginListening, ListenTimesOut, BeginKillAll, FindExited, Kill, ForceKill,
         WaitForProcess, Interrupts, Interrupt, InterruptReceive, InterruptWait, NextTarget,
         startupVars
<1> QED
  BY <1>1, <1>2 DEF Quiet, AwaitsStart

LEMMA ProcessStepsAreQuiet ==
    ASSUME SupervisionInv, NEW p \in Processes,
           Kick(p) \/ Leave(p) \/ Hang(p) \/ Crash(p) \/ Expire(p) \/ CallbackNext(p)
    PROVE  Quiet
<1> USE DEF SupervisionInv, TypeOK, clientVars, unitVars, timerVars, startupVars
<1>1. UNCHANGED <<mailboxVars, startup, request>>
  BY DEF Kick, Leave, Hang, Crash, Expire, CallbackNext, SeeAlive, SeeSilent, DecrementTTL,
         RequestTermination, ClearSlot, EraseUnit, RestartRunning, RestartExited, Initiate
<1>2. CASE Kick(p) \/ Leave(p) \/ Crash(p)
  BY <1>1, <1>2 DEF Kick, Leave, Crash, Quiet, AwaitsStart
<1>3. CASE Hang(p)
  BY <1>1, <1>3 DEF Hang, Runs, Quiet, AwaitsStart
<1>4. CASE Expire(p) \/ CallbackNext(p)
  <2>1. ~AwaitsStart(p)
    BY <1>4 DEF Expire, CallbackNext, SeeAlive, SeeSilent, DecrementTTL, RequestTermination,
        ClearSlot, EraseUnit, RestartRunning, RestartExited, Initiate, Missed, AwaitsStart
  <2>2. client[p] \in {"rts_sent", "cleared", "registering"} => client'[p] = client[p]
    <3>1. CASE Initiate(p)
      BY <3>1 DEF Initiate, UnitsOK, Restarting
    <3>2. CASE ~Initiate(p)
      BY <1>4, <3>2 DEF Expire, CallbackNext, SeeAlive, SeeSilent, DecrementTTL,
          RequestTermination, ClearSlot, EraseUnit, RestartRunning, RestartExited
    <3> QED
      BY <3>1, <3>2
  <2>3. \A q \in Processes : q # p =>
           /\ client'[q] = client[q] /\ timer'[q] = timer[q] /\ callback'[q] = callback[q]
           /\ q \in units => q \in units'
    BY <1>4 DEF Expire, CallbackNext, SeeAlive, SeeSilent, DecrementTTL, RequestTermination,
        ClearSlot, EraseUnit, RestartRunning, RestartExited, Initiate, Rearm
  <2> QED
    BY <1>1, <2>1, <2>2, <2>3 DEF Quiet, AwaitsStart
<1> QED
  BY <1>2, <1>3, <1>4

LEMMA MessagesKept ==
    ASSUME WatchdogAssumption, SupervisionInv, Next
    PROVE  MessagesOK'
<1>1. Quiet => MessagesOK'
  <2>1. Quiet => UNCHANGED mailboxVars /\ (InHand' => InHand /\ request' = request)
    BY DEF Quiet, InHand
  <2> QED
    BY <2>1, MessagesStay DEF Quiet
<1>2. CASE StartupNext \/ Interrupts
  BY <1>1, <1>2, MostStartupStepsAreQuiet, TakingKeepsMessages, ClearingKeepsMessages,
     TakeSlotKeepsMessages, AddNewUnitKeepsMessages, StartTimerKeepsMessages DEF StartupNext
<1>3. ASSUME NEW p \in Processes, ClientNext(p) \/ Expire(p) \/ CallbackNext(p)
      PROVE  MessagesOK'
  BY <1>1, <1>3, ProcessStepsAreQuiet, SendingKeepsMessages DEF ClientNext
<1> QED
  BY <1>2, <1>3 DEF Next, Interrupts

(* The request in hand stays what it is, and so does its sender.           *)
LEMMA RequestKept ==
    ASSUME WatchdogAssumption, SupervisionInv, Next
    PROVE  RequestOK'
<1>0. request.from \in Processes
  BY SenderOfRequest DEF SupervisionInv
<1>1. ASSUME startup' \in {"AwaitMessage", "Parse", "AddUnit"} => UNCHANGED <<startup, request>>,
             \A p \in Processes :
                /\ client[p] = "cleared" => client'[p] \in {"cleared", "registering"}
                /\ client[p] = "registering" => client'[p] = "registering"
                /\ AwaitsStart(p) => AwaitsStart(p)'
      PROVE  RequestOK'
  BY <1>0, <1>1 DEF SupervisionInv, RequestOK
<1>2. Quiet => RequestOK'
  BY <1>1 DEF Quiet
<1>3. CASE DequeueAndCTS
  BY <1>3, TailFacts DEF DequeueAndCTS, Message, SupervisionInv, TypeOK, RequestOK
<1>4. CASE SendCTS \/ TakeConnectionless
  <2>1. Head(inbox) \in Messages /\ Fits(Head(inbox)) /\ Head(inbox).from \in Processes
    BY <1>4, TakenMessage DEF SendCTS, TakeConnectionless, Messages
  <2>2. CASE SendCTS
    BY <2>1, <2>2 DEF SendCTS, Message, SupervisionInv, TypeOK, RequestOK
  <2>3. CASE TakeConnectionless
    BY <2>1, <2>3 DEF TakeConnectionless, Take, Fits, AwaitsStart, RequestOK, clientVars,
        unitVars, timerVars
  <2> QED
    BY <1>4, <2>2, <2>3
<1>5. CASE TakeMessage
  <2>1. Head(inbox) \in Messages /\ Fits(Head(inbox)) /\ Head(inbox).from = request.from
        /\ Head(inbox).kind = "REGISTER_REQUEST"
    BY <1>5, TakenMessage DEF TakeMessage, Take
  <2>2. client[request.from] = "registering" /\ request.kind = "REGISTER_REQUEST"
    BY <1>5, <2>1 DEF Fits, TakeMessage, Take, SupervisionInv, RequestOK
  <2> QED
    BY <1>5, <2>2 DEF TakeMessage, RequestOK, clientVars
<1>6. CASE EnqueueAndHold \/ DropConnectionless
  <2>1. UNCHANGED <<startup, request, client, units, timer, callback>>
    BY <1>6 DEF EnqueueAndHold, DropConnectionless, startupVars, clientVars, unitVars, timerVars
  <2> QED
    BY <1>1, <2>1 DEF AwaitsStart
<1>7. CASE TakeSlot \/ AddNewUnit \/ StartTimer
  BY <1>7, TakeSlotTakes, AddNewUnitAdds, StartTimerStarts DEF RequestOK, clientVars
<1>8. ASSUME NEW p \in Processes, SendRTS(p) \/ SendRegisterRequest(p) \/ Start(p)
      PROVE  RequestOK'
  <2>1. UNCHANGED <<startup, request, units, timer, callback>>
    BY <1>8 DEF SendRTS, SendRegisterRequest, Start, startupVars, unitVars, timerVars
  <2>2. /\ client[p] = "cleared" => client'[p] = "registering"
        /\ client[p] \notin {"registering", "working", "hung"}
        /\ \A q \in Processes : q # p => client'[q] = client[q]
    BY <1>8 DEF SendRTS, SendRegisterRequest, Start, Runs, SupervisionInv, TypeOK
  <2> QED
    BY <1>1, <2>1, <2>2 DEF AwaitsStart
<1> QED
  BY <1>2, <1>3, <1>4, <1>5, <1>6, <1>7, <1>8, MostStartupStepsAreQuiet, ProcessStepsAreQuiet
     DEF Next, StartupNext, ClientNext, Interrupts

(* Clients, units and timers: the steps of a client ...                    *)
LEMMA ClientsKeepUnits ==
    ASSUME SupervisionInv, NEW p \in Processes, ClientNext(p)
    PROVE  UnitsOK'
<1> USE DEF SupervisionInv, TypeOK, UnitsOK, Restarting, clientVars, unitVars, timerVars
<1>1. UNCHANGED <<offset, units, slot, timer, callback>>
  BY DEF ClientNext, SendRTS, SendRegisterRequest, Start, Kick, Leave, Hang, Crash
<1>2. CASE SendRTS(p) \/ SendRegisterRequest(p)
  BY <1>1, <1>2 DEF SendRTS, SendRegisterRequest, Runs
<1>3. CASE Start(p)
  BY <1>1, <1>3 DEF Start, Runs
<1>4. CASE Hang(p)
  BY <1>1, <1>4 DEF Hang, Runs
<1>5. CASE Kick(p) \/ Leave(p) \/ Crash(p)
  BY <1>1, <1>5 DEF Kick, Leave, Crash
<1> QED
  BY <1>2, <1>3, <1>4, <1>5 DEF ClientNext

(* ... those of the main thread ...                                        *)
LEMMA StartupKeepsUnits ==
    ASSUME WatchdogAssumption, SupervisionInv, StartupNext \/ Interrupts
    PROVE  UnitsOK'
<1> USE DEF SupervisionInv, TypeOK, UnitsOK, Restarting
<1>1. CASE DequeueAndCTS
  <2>1. /\ Head(held) \in Processes /\ client[Head(held)] = "rts_sent"
        /\ client' = [client EXCEPT ![Head(held)] = "cleared"]
        /\ UNCHANGED <<offset, units, slot, timer, callback>>
    BY <1>1, TailFacts DEF DequeueAndCTS, MessagesOK, unitVars, timerVars
  <2> QED
    BY <2>1
<1>2. CASE SendCTS
  <2>1. /\ Head(inbox).from \in Processes /\ client[Head(inbox).from] = "rts_sent"
        /\ client' = [client EXCEPT ![Head(inbox).from] = "cleared"]
        /\ UNCHANGED <<offset, units, slot, timer, callback>>
    BY <1>2, TakenMessage DEF SendCTS, Fits, Messages, unitVars, timerVars
  <2> QED
    BY <2>1
<1>3. CASE TakeSlot \/ AddNewUnit
  <2> DEFINE q == request.from
             s == FirstAvailableSlot
  <2>1. CASE TakeSlot
    <3>1. /\ q \in Processes /\ q \notin units /\ s \in Slots
          /\ slot' = [slot EXCEPT ![q] = s]
          /\ UNCHANGED <<client, offset, units, timer, callback>>
      BY <2>1, TakeSlotTakes DEF timerVars, clientVars
    <3> HIDE DEF q, s
    <3> QED
      BY <3>1
  <2>2. CASE AddNewUnit
    <3>1. /\ q \in Processes /\ q \notin units /\ client[q] = "registering"
          /\ units' = units \cup {q}
          /\ offset' = [offset EXCEPT ![q] = slot[q]]
          /\ client' = [client EXCEPT ![q] = "registered"]
          /\ UNCHANGED <<slot, timer, callback>>
      BY <2>2, AddNewUnitAdds DEF timerVars
    <3> HIDE DEF q
    <3>2. ~timer[q] /\ callback[q] = "none"
      BY <3>1
    <3> QED
      BY <3>1, <3>2
  <2> QED
    BY <1>3, <2>1, <2>2
<1>4. CASE StartTimer
  <2>1. /\ request.from \in Processes /\ AwaitsStart(request.from)
        /\ timer' = [timer EXCEPT ![request.from] = TRUE]
        /\ UNCHANGED <<client, offset, units, slot, callback>>
    BY <1>4, StartTimerStarts DEF clientVars, unitVars
  <2> QED
    BY <2>1 DEF AwaitsStart
<1>5. ASSUME ~DequeueAndCTS, ~SendCTS, ~TakeSlot, ~AddNewUnit, ~StartTimer
      PROVE  UNCHANGED <<client, offset, units, slot, timer, callback>>
  BY <1>5 DEF StartupNext, BeginListening, TakeConnectionless, ListenTimesOut, TakeMessage,
      EnqueueAndHold, DropConnectionless, BeginKillAll, FindExited, Kill, ForceKill,
      WaitForProcess, Interrupts, Interrupt, InterruptReceive, InterruptWait, clientVars,
      unitVars, timerVars
<1>6. UNCHANGED <<client, offset, units, slot, timer, callback>> => UnitsOK'
  OBVIOUS
<1> QED
  BY <1>1, <1>2, <1>3, <1>4, <1>5, <1>6

(* ... and those of the timers.                                            *)
LEMMA TimersKeepUnits ==
    ASSUME SupervisionInv, NEW p \in Processes, Expire(p) \/ CallbackNext(p)
    PROVE  UnitsOK'
<1>a. /\ UnitsOK
      /\ client \in [Processes -> ClientSteps] /\ units \subseteq Processes
      /\ offset \in [Processes -> Slots \cup {NoUnit}]
      /\ slot \in [Processes -> Slots \cup {NoUnit}]
      /\ timer \in [Processes -> BOOLEAN]
      /\ callback \in [Processes -> {"none", "expired", "silent", "erase", "restart",
                                     "wait", "fork"}]
  BY DEF SupervisionInv, TypeOK
<1>1. CASE Expire(p)
  <2>1. /\ timer[p] /\ timer' = [timer EXCEPT ![p] = FALSE]
        /\ callback' = [callback EXCEPT ![p] = "expired"]
        /\ UNCHANGED <<client, offset, units, slot>>
    BY <1>1 DEF Expire, clientVars, unitVars
  <2> QED
    BY <1>a, <2>1 DEF UnitsOK, Restarting
<1>2. CASE SeeAlive(p) \/ DecrementTTL(p)
  <2>1. /\ callback[p] \in {"expired", "silent"} /\ timer' = [timer EXCEPT ![p] = TRUE]
        /\ callback' = [callback EXCEPT ![p] = "none"]
        /\ UNCHANGED <<client, offset, units, slot>>
    BY <1>2 DEF SeeAlive, DecrementTTL, Missed, Rearm, clientVars, unitVars
  <2> QED
    BY <1>a, <2>1 DEF UnitsOK, Restarting
<1>3. CASE SeeSilent(p)
  <2>1. /\ callback[p] = "expired" /\ callback' = [callback EXCEPT ![p] = "silent"]
        /\ UNCHANGED <<client, offset, units, slot, timer>>
    BY <1>3 DEF SeeSilent, clientVars, unitVars
  <2> QED
    BY <1>a, <2>1 DEF UnitsOK, Restarting
<1>4. CASE RequestTermination(p)
  <2>1. /\ callback[p] = "silent" /\ callback' = [callback EXCEPT ![p] = "none"]
        /\ UNCHANGED <<client, offset, units, slot, timer>>
    BY <1>4 DEF RequestTermination, Missed, clientVars
  <2> QED
    BY <1>a, <2>1 DEF UnitsOK, Restarting
<1>5. CASE ClearSlot(p)
  <2>1. /\ callback[p] = "silent" /\ callback' = [callback EXCEPT ![p] = "erase"]
        /\ timer' = [timer EXCEPT ![p] = FALSE]
        /\ UNCHANGED <<client, offset, units, slot>>
    BY <1>5 DEF ClearSlot, Missed, clientVars
  <2> QED
    BY <1>a, <2>1 DEF UnitsOK, Restarting
<1>6. CASE EraseUnit(p)
  <2>1. /\ callback[p] = "erase" /\ callback' = [callback EXCEPT ![p] = "restart"]
        /\ units' = units \ {p} /\ slot' = [slot EXCEPT ![p] = NoUnit]
        /\ UNCHANGED <<client, offset, timer>>
    BY <1>6 DEF EraseUnit, clientVars
  <2> QED
    BY <1>a, <2>1 DEF UnitsOK, Restarting
<1>7. CASE RestartRunning(p) \/ RestartExited(p)
  <2>1. /\ callback[p] \in {"restart", "wait"}
        /\ \E step \in {"wait", "fork"} : callback' = [callback EXCEPT ![p] = step]
        /\ UNCHANGED <<client, offset, units, slot, timer>>
    BY <1>7 DEF RestartRunning, RestartExited, clientVars, unitVars
  <2>2. PICK step \in {"wait", "fork"} : callback' = [callback EXCEPT ![p] = step]
    BY <2>1
  <2> QED
    BY <1>a, <2>1, <2>2 DEF UnitsOK, Restarting
<1>8. CASE Initiate(p)
  <2>1. /\ callback[p] = "fork" /\ callback' = [callback EXCEPT ![p] = "none"]
        /\ client' = [client EXCEPT ![p] = "starting"]
        /\ offset' = [offset EXCEPT ![p] = NoUnit]
        /\ UNCHANGED <<units, slot, timer>>
    BY <1>8 DEF Initiate, unitVars
  <2> QED
    BY <1>a, <2>1 DEF UnitsOK, Restarting
<1> QED
  BY <1>1, <1>2, <1>3, <1>4, <1>5, <1>6, <1>7, <1>8 DEF CallbackNext

LEMMA UnitsKept ==
    ASSUME WatchdogAssumption, SupervisionInv, Next
    PROVE  UnitsOK'
BY ClientsKeepUnits, StartupKeepsUnits, TimersKeepUnits DEF Next, Interrupts

(* killAll moves on only when its target no longer runs, and none of those *)
(* it has passed is ever forked again.                                     *)
LEMMA PassedByStaysDead ==
    ASSUME WatchdogAssumption, SupervisionInv, UNCHANGED <<startup, target>>,
           \A p \in Processes : OnFailure[p] = "KILL_ALL" =>
              /\ process'[p] = "running" => process[p] = "running"
              /\ ~Restarting(p)'
    PROVE  KilledOK'
BY DEF SupervisionInv, KilledOK, Killing

LEMMA KilledKept ==
    ASSUME WatchdogAssumption, SupervisionInv, Next
    PROVE  KilledOK'
<1> USE WatchdogAssumption DEF SupervisionInv, TypeOK, processVars, startupVars, timerVars
<1>1. ASSUME NEW p \in Processes, ClientNext(p) \/ Expire(p) \/ CallbackNext(p)
      PROVE  KilledOK'
  <2>1. UNCHANGED <<startup, target>>
    BY <1>1 DEF ClientNext, CallbackNext, SendRTS, SendRegisterRequest, Start, Kick, Leave,
        Hang, Crash, Expire, SeeAlive, SeeSilent, DecrementTTL, RequestTermination,
        ClearSlot, EraseUnit, RestartRunning, RestartExited, Initiate
  <2>2. CASE ClientNext(p)
    <3>1. callback' = callback
      BY <2>2 DEF ClientNext, SendRTS, SendRegisterRequest, Start, Kick, Leave, Hang, Crash
    <3>2. \A q \in Processes : process'[q] = "running" => process[q] = "running"
      BY <2>2 DEF ClientNext, SendRTS, SendRegisterRequest, Start, Kick, Leave, Hang, Crash
    <3> QED
      BY <2>1, <3>1, <3>2, PassedByStaysDead DEF KilledOK, Restarting
  <2>3. CASE Expire(p) \/ CallbackNext(p)
    <3>1. ~Initiate(p) =>
             \A q \in Processes : process'[q] = "running" => process[q] = "running"
      BY <2>3 DEF CallbackNext, Expire, SeeAlive, SeeSilent, DecrementTTL,
          RequestTermination, ClearSlot, EraseUnit, RestartRunning, RestartExited, Reap
    <3>2. \A q \in Processes : q # p => callback'[q] = callback[q]
      BY <2>3 DEF CallbackNext, Expire, SeeAlive, SeeSilent, DecrementTTL,
          RequestTermination, ClearSlot, EraseUnit, RestartRunning, RestartExited, Initiate, Rearm
    <3>3. OnFailure[p] = "KILL_ALL" => ~Restarting(p) /\ ~Initiate(p)
      BY DEF KilledOK, Restarting, Initiate
    <3>4. OnFailure[p] = "KILL_ALL" => ~Restarting(p)'
      BY <2>3, <3>3 DEF Restarting, CallbackNext, Expire, SeeAlive, SeeSilent, DecrementTTL,
          RequestTermination, ClearSlot, EraseUnit, RestartRunning, RestartExited, Rearm, Missed
    <3>5. \A q \in Processes : q # p /\ process'[q] = "running" => process[q] = "running"
      BY <2>3 DEF CallbackNext, Expire, SeeAlive, SeeSilent, DecrementTTL,
          RequestTermination, ClearSlot, EraseUnit, RestartRunning, RestartExited, Initiate, Reap
    <3>6. \A q \in Processes : OnFailure[q] = "KILL_ALL" =>
             /\ process'[q] = "running" => process[q] = "running"
             /\ ~Restarting(q)'
      BY <3>1, <3>2, <3>3, <3>4, <3>5 DEF KilledOK, Restarting
    <3> QED
      BY <2>1, <3>6, PassedByStaysDead
  <2> QED
    BY <1>1, <2>2, <2>3
<1>2. CASE StartupNext \/ Interrupts
  <2>1. callback' = callback
    BY <1>2, TakeSlotTakes, AddNewUnitAdds, StartTimerStarts DEF StartupNext, DequeueAndCTS,
        BeginListening,
        SendCTS, TakeConnectionless, ListenTimesOut, TakeMessage, EnqueueAndHold,
        DropConnectionless, BeginKillAll, FindExited, Kill, ForceKill, WaitForProcess,
        Interrupts, Interrupt, InterruptReceive, InterruptWait
  <2>2. CASE FindExited \/ WaitForProcess \/ InterruptWait
    <3>1. /\ Killing /\ NextTarget
          /\ OnFailure[target] = "KILL_ALL" => process'[target] # "running"
          /\ \A p \in Processes : process'[p] = "running" => process[p] = "running"
      BY <2>2 DEF FindExited, WaitForProcess, InterruptWait, Reap, Killing, KilledOK
    <3>2. \A p \in Processes : OnFailure[p] = "KILL_ALL" /\ p <= target
             => process'[p] # "running"
      BY <3>1 DEF KilledOK, Processes
    <3>3. CASE target = NumProcesses
      BY <2>1, <3>1, <3>2, <3>3 DEF NextTarget, KilledOK, Killing, Restarting, Processes
    <3>4. CASE target # NumProcesses
      <4>1. /\ startup' = "KillCheck" /\ target' = target + 1
            /\ \A p \in Processes : p < target' => p <= target
        BY <3>1, <3>4 DEF NextTarget, Processes
      <4> QED
        BY <2>1, <3>2, <4>1 DEF KilledOK, Killing, Restarting
    <3> QED
      BY <3>3, <3>4
  <2>3. CASE Kill \/ ForceKill
    <3>1. /\ Killing /\ Killing' /\ startup' # "Exited" /\ target' = target
          /\ \A p \in Processes : process'[p] = "running" => process[p] = "running"
          /\ startup' = "KillWait" => process'[target] # "running"
      BY <2>3 DEF Kill, ForceKill, Killing
    <3> QED
      BY <2>1, <3>1 DEF KilledOK, Restarting
  <2>4. CASE BeginKillAll
    BY <2>1, <2>4 DEF BeginKillAll, KilledOK, Killing, Restarting, Processes
  <2>5. CASE Interrupt
    BY <2>1, <2>5, PassedByStaysDead DEF Interrupt, KilledOK, Restarting
  <2>6. ASSUME StartupNext \/ InterruptReceive, ~FindExited, ~WaitForProcess, ~Kill,
               ~ForceKill, ~BeginKillAll
        PROVE  KilledOK'
    <3>1. /\ ~Killing /\ startup # "Exited" /\ ~Killing' /\ startup' # "Exited"
          /\ target' = target
      BY <2>6, TakeSlotTakes, AddNewUnitAdds, StartTimerStarts DEF StartupNext, DequeueAndCTS,
          BeginListening, SendCTS, TakeConnectionless, ListenTimesOut, TakeMessage,
          EnqueueAndHold, DropConnectionless, Take, InterruptReceive, Killing
    <3> QED
      BY <2>1, <3>1 DEF KilledOK, Killing, Restarting
  <2> QED
    BY <1>2, <2>2, <2>3, <2>4, <2>5, <2>6 DEF Interrupts
<1> QED
  BY <1>1, <1>2 DEF Next, Interrupts

LEMMA NoFatalErrorKept ==
    ASSUME WatchdogAssumption, SupervisionInv, Next
    PROVE  NoFatalError'
<1>1. CASE StartupNext \/ Interrupts
  BY <1>1, TakeSlotTakes, AddNewUnitAdds, StartTimerStarts DEF StartupNext, DequeueAndCTS,
        BeginListening,
      SendCTS, TakeConnectionless, ListenTimesOut, TakeMessage, EnqueueAndHold,
      DropConnectionless, Take, BeginKillAll, FindExited, Kill, ForceKill, WaitForProcess,
      NextTarget, Interrupts, Interrupt, InterruptReceive, InterruptWait, RaiseFlag, startupVars,
      flagVars, SupervisionInv, NoFatalError
<1>2. ASSUME NEW p \in Processes, ClientNext(p) \/ Expire(p) \/ CallbackNext(p)
      PROVE  NoFatalError'
  BY <1>2 DEF ClientNext, CallbackNext, SendRTS, SendRegisterRequest, Start, Kick, Leave,
      Hang, Crash, Expire, SeeAlive, SeeSilent, DecrementTTL, RequestTermination,
      ClearSlot, EraseUnit, RestartRunning, RestartExited, Initiate, startupVars, flagVars, SupervisionInv,
      NoFatalError
<1> QED
  BY <1>1, <1>2 DEF Next, Interrupts

-----------------------------------------------------------------------------
LEMMA InitEstablishes ==
    ASSUME WatchdogAssumption, Init
    PROVE  SupervisionInv
<1> USE WatchdogAssumption DEF Init, NoUnit
<1>1. TypeOK
  <2>1. /\ 1 \in Processes /\ BaseTTL \in [Processes -> Nat]
        /\ MaxHangs \in Nat /\ MaxCrashes \in Nat
    BY DEF WatchdogAssumption, Processes
  <2>2. inbox \in Seq(Messages) /\ held \in Seq(Processes) /\ request = NoRequest
    OBVIOUS
  <2>3. /\ client \in [Processes -> ClientSteps] /\ startup \in StartupSteps
        /\ shm \in [Slots -> [alive : BOOLEAN, taken : BOOLEAN]]
    BY DEF ClientSteps, StartupSteps
  <2>4. hangs \in 0 .. MaxHangs /\ crashes \in 0 .. MaxCrashes
    BY <2>1
  <2> QED
    BY <2>1, <2>2, <2>3, <2>4 DEF TypeOK
<1>2. SlotAccounting
  BY DEF SlotAccounting, SlotOwners
<1>3. MessagesOK
  BY DEF MessagesOK
<1>4. RequestOK /\ NoFatalError
  BY DEF RequestOK, NoFatalError
<1>5. UnitsOK
  BY DEF UnitsOK, Restarting
<1>6. KilledOK
  BY DEF KilledOK, Killing, Restarting
<1> QED
  BY <1>1, <1>2, <1>3, <1>4, <1>5, <1>6 DEF SupervisionInv

LEMMA StutterKeeps ==
    ASSUME SupervisionInv, UNCHANGED vars
    PROVE  SupervisionInv'
<1>1. /\ UNCHANGED <<process, sigterm, client, offset, inbox, held, startup, request, target>>
      /\ UNCHANGED <<units, ttl, slot, timer, callback, shm, terminationFlag, interrupted>>
      /\ UNCHANGED <<hangs, crashes>>
  BY DEF vars, processVars, clientVars, mailboxVars, startupVars, unitVars, timerVars,
         flagVars, faultVars
<1>2. TypeOK'
  BY <1>1 DEF SupervisionInv, TypeOK
<1>3. SlotAccounting'
  BY <1>1 DEF SupervisionInv, SlotAccounting, SlotOwners
<1>4. MessagesOK'
  BY <1>1 DEF SupervisionInv, MessagesOK, AwaitsStart, InHand
<1>5. RequestOK' /\ NoFatalError'
  BY <1>1 DEF SupervisionInv, RequestOK, AwaitsStart, NoFatalError
<1>6. UnitsOK'
  BY <1>1 DEF SupervisionInv, UnitsOK, Restarting
<1>7. KilledOK'
  BY <1>1 DEF SupervisionInv, KilledOK, Killing, Restarting
<1> QED
  BY <1>2, <1>3, <1>4, <1>5, <1>6, <1>7 DEF SupervisionInv

(* The inductive invariant holds in every reachable state: whatever order  *)
(* the clients, the server, killAll() and the callback threads run in.     *)
THEOREM SupervisionInvariant == Spec => []SupervisionInv
<1>1. Init => SupervisionInv
  BY InitEstablishes, WatchdogAssumption
<1>2. SupervisionInv /\ [Next]_vars => SupervisionInv'
  <2> SUFFICES ASSUME SupervisionInv, [Next]_vars PROVE SupervisionInv'
    OBVIOUS
  <2> USE WatchdogAssumption
  <2>1. CASE Next
    <3>1. 1 \in Processes
      BY DEF WatchdogAssumption, Processes
    <3>2. TypeOK'
      BY <2>1, <3>1, StartupKeepsTypes, OthersKeepTypes DEF Next, Interrupts
    <3> QED
      BY <2>1, <3>2, SlotAccountingKept, MessagesKept, RequestKept, UnitsKept, KilledKept,
         NoFatalErrorKept DEF SupervisionInv
  <2>2. CASE UNCHANGED vars
    BY <2>2, StutterKeeps
  <2> QED
    BY <2>1, <2>2
<1> QED
  BY <1>1, <1>2, PTL DEF Spec

(* The state of startup and of its children is always of its type.         *)
THEOREM WatchdogTypeCorrect == Spec => []TypeOK
<1>1. SupervisionInv => TypeOK
  BY DEF SupervisionInv
<1> QED
  BY <1>1, SupervisionInvariant, PTL

(* The slots taken in shared memory are always those of their owners, one  *)
(* each: restarts share and leak none, although the callback threads clear *)
(* slots, and erase units a moment later, while the server hands the slots *)
(* out without a common lock.                                              *)
THEOREM SlotsAccounted == Spec => []SlotAccounting
<1>1. SupervisionInv => SlotAccounting
  BY DEF SupervisionInv
<1> QED
  BY <1>1, SupervisionInvariant, PTL

(* The server never ends in a Fatal_Error unless SIGINT interrupts one of  *)
(* its receive() calls: no second registration, no full shared memory, no  *)
(* START for a unit that is not there.                                     *)
THEOREM ServerNeverFails == Spec => []NoFatalError
<1>1. SupervisionInv => NoFatalError
  BY DEF SupervisionInv
<1> QED
  BY <1>1, SupervisionInvariant, PTL

(* A registered client kicks the slot its unit is judged by, across any    *)
(* number of restarts and re-used slots.                                   *)
THEOREM KicksReachTheirUnit == Spec => []KickReachesOwnUnit
<1>1. SupervisionInv => KickReachesOwnUnit
  BY DEF SupervisionInv, UnitsOK, KickReachesOwnUnit, TypeOK
<1> QED
  BY <1>1, SupervisionInvariant, PTL

(* When startup has exited, none of the processes it was to kill with the  *)
(* others runs, whatever crashed, hung or was restarted on the way.        *)
THEOREM KilledStayDead == Spec => []NobodyOutlivesStartup
<1>1. SupervisionInv => NobodyOutlivesStartup
  BY DEF SupervisionInv, KilledOK, NobodyOutlivesStartup
<1> QED
  BY <1>1, SupervisionInvariant, PTL
=============================================================================
