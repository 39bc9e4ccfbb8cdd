----------------------------- MODULE WatchdogProps -----------------------------
(***************************************************************************)
(* What the watchdog and the process manager promise the system.           *)
(***************************************************************************)
EXTENDS Watchdog

(* Type correctness of the state of startup and of its children.           *)
TypeOK ==
    /\ process \in [Processes -> {"running", "exited", "reaped"}]
    /\ sigterm \in [Processes -> BOOLEAN]
    /\ client \in [Processes -> ClientSteps]
    /\ offset \in [Processes -> Slots \cup {NoUnit}]
    /\ inbox \in Seq(Messages)
    /\ held \in Seq(Processes)
    /\ startup \in StartupSteps
    /\ request \in Messages \cup {NoRequest}
    /\ target \in Processes
    /\ units \subseteq Processes
    /\ ttl \in [Processes -> Nat]
    /\ slot \in [Processes -> Slots \cup {NoUnit}]
    /\ timer \in [Processes -> BOOLEAN]
    /\ callback \in [Processes -> {"none", "expired", "silent", "erase", "restart",
                                   "wait", "fork"}]
    /\ shm \in [Slots -> [alive : BOOLEAN, taken : BOOLEAN]]
    /\ terminationFlag \in BOOLEAN
    /\ interrupted \in BOOLEAN
    /\ hangs \in 0 .. MaxHangs
    /\ crashes \in 0 .. MaxCrashes

(* A slot belongs to a unit from the moment the server has taken it for    *)
(* the request until a callback thread has cleared it, which is before the *)
(* unit is erased: for that while the list has a unit without a slot, and  *)
(* a new unit with the same offset may come to stand beside it.            *)
SlotOwners ==
    {p \in units : callback[p] # "erase"}
        \cup {p \in Processes : startup = "AddUnit" /\ p = request.from}

(* Nobody shares his slot with another owner, and no slot is taken that    *)
(* nobody owns: however the callback threads, which take no lock, clear    *)
(* slots while the server hands them out again, none is leaked, none is    *)
(* cleared under its new owner and none is given away twice.               *)
SlotAccounting ==
    /\ \A p \in SlotOwners : slot[p] \in Slots
    /\ \A p, q \in SlotOwners : slot[p] = slot[q] => p = q
    /\ {s \in Slots : shm[s].taken} = {slot[p] : p \in SlotOwners}

(* While a unit is registered its client kicks the slot that the server    *)
(* looks at when the timer of the unit expires.                            *)
KickReachesOwnUnit ==
    \A p \in units : Runs(p, "working") => offset[p] = slot[p]

(* No Fatal_Error of the server but that of an interrupted receive(): no   *)
(* client registers twice, none finds the shared memory full, and none     *)
(* starts a timer that is not there.                                       *)
NoFatalError == startup = "Fatal" => interrupted

(* When startup has exited, no process runs that it was to kill with the   *)
(* others.  (One that is restarted at that moment may: a callback thread   *)
(* forks it after killAll() has passed it by.)                             *)
NobodyOutlivesStartup ==
    startup = "Exited" =>
        \A p \in Processes : OnFailure[p] = "KILL_ALL" => process[p] # "running"

(* The server waits for the message of a client that has died: nothing     *)
(* ends this wait, and m_terminationFlag is not looked at during it.       *)
ServerStuck ==
    /\ startup = "AwaitMessage"
    /\ process[request.from] # "running"
    /\ \A i \in DOMAIN inbox : inbox[i] # request

Monitored(p) == p \in units /\ (timer[p] \/ callback[p] \in {"expired", "silent"})

Unresponsive(p) == process[p] # "running" \/ client[p] = "hung"

(* A monitored client that hangs or dies ends the whole system, unless the *)
(* server is stuck in the registration of another one or SIGINT has ended  *)
(* startup in the middle of a receive().                                   *)
FailureStopsAll ==
    \A p \in Processes :
        OnFailure[p] = "KILL_ALL" /\ Monitored(p) /\ Unresponsive(p)
            ~> startup \in {"Exited", "Fatal"} \/ ServerStuck

(* A monitored process that has died is replaced by a new one, unless      *)
(* startup is ending or stuck.                                             *)
DeadIsReplaced ==
    \A p \in Processes :
        OnFailure[p] = "RESET_ONLY" /\ Monitored(p) /\ process[p] = "exited"
            ~> process[p] = "running" \/ Stopping \/ ServerStuck

(* Every client gets through its registration, however many are told to    *)
(* hold, unless startup is ending, stuck, or the client dies.              *)
EveryClientIsServed ==
    \A p \in Processes :
        client[p] = "starting"
            ~> \/ client[p] \in {"working", "hung"}
               \/ process[p] # "running"
               \/ Stopping
               \/ ServerStuck
=============================================================================
