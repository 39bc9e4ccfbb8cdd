------------------------------- MODULE Gateway -------------------------------
(***************************************************************************)
(* The database gateway: the main thread, which validates, authorises,     *)
(* executes, answers and logs one request after the other, and the log     *)
(* thread, which writes the log entries into the same database.            *)
(*                                                                         *)
(* Every query is NewQuery, which points p_currentQueryStatement to a      *)
(* prepared statement, then CurrentQuery, which reads that pointer back,   *)
(* then bind and next.  The pointer belongs to the one Database object of  *)
(* the two threads.  The log thread holds m_writeLock around its query,    *)
(* the main thread only around those that change identifiers or            *)
(* clearances: its look-ups are not protected.                             *)
(*                                                                         *)
(* PINs and cards are one table here, from identifiers to owners; an       *)
(* employee is its name.  NewQuery (with prepare) is one step, and so is   *)
(* everything from CurrentQuery to the last bind.                          *)
(*                                                                         *)
(* A reply is a send() to the main application, without a time limit: it   *)
(* need not return.                                                        *)
(***************************************************************************)
EXTENDS Integers, Sequences

CONSTANTS
    Identifiers,   \* PINs and card UUIDs
    Malformed,     \* the identifiers that isParameterValid rejects
    Staff,         \* the employees of the database as it is installed
    Guests,        \* the names createNewUniqueGuest can come up with
    NoOwner,       \* the owner id 0
    Garbled,       \* a level that is not a signed number
    OutOfRange,    \* a signed number that no int holds
    TypedLevels,   \* the levels that are typed, before they are narrowed
    Required,      \* CommandClearance of each command; the installed database
                   \* has none below 0
    InitialOwner, InitialClearance,  \* the tables at the start
    Pacings,       \* whether requests wait until the log has been written
    LogQueueSize,  \* capacity of the log thread's message queue
    MaxRequests,   \* bound, for either pacing: no request is received after
                   \* this many requests and restarts
    MaxCrashes     \* bound: restarts of the process

Commands == {"AUTHENTICATE", "ADD", "REMOVE", "SET_CLNC", "GUEST_ACCESS_CTL"}
Changing == {"ADD", "REMOVE", "SET_CLNC"}

Employees == Staff \cup Guests

(* The values of an int; Clearance is a signed char.                       *)
CInts == {n \in Int : -2147483647 - 1 <= n /\ n <= 2147483647}
Clearances == -128 .. 127
MAX_CLEARANCE == 127
FAIL_SAFE_CLEARANCE == -128
NO_CLEARANCE == -1
SignedChar(n) == ((n + 128) % 256) - 128

ASSUME GatewayAssumption ==
    /\ Malformed \subseteq Identifiers
    /\ Staff \cap Guests = {}
    /\ NoOwner \notin Employees
    /\ Garbled \notin Int /\ OutOfRange \notin Int \cup {Garbled}
    /\ TypedLevels \subseteq CInts \cup {Garbled, OutOfRange}
    /\ Required \in [Commands -> NO_CLEARANCE + 1 .. MAX_CLEARANCE]
    /\ InitialOwner \in [Identifiers -> Staff \cup {NoOwner}]
    /\ InitialClearance \in [Staff -> Clearances]
    /\ Pacings \subseteq BOOLEAN
    /\ LogQueueSize \in Nat \ {0}
    /\ MaxRequests \in [BOOLEAN -> Nat]
    /\ MaxCrashes \in Nat

VARIABLES
    owner,      \* the tables of PINs and cards
    hired,      \* the rows of the Employees table
    clearance,  \* their Clearance column
    current,    \* whose statement p_currentQueryStatement points to
    bound,      \* who has bound the parameters of the INSERT of the log
    lock,       \* who holds m_writeLock
    main,       \* the main thread
    queue,      \* the queue of the log thread
    writer,     \* the log thread
    rows,       \* LogTable
    dead,       \* Fatal_Error or an exception has ended the process
    granted,    \* what was executed, with the state of the tables then
    requests, crashes,
    paced       \* the next request comes after the log has been written

tables == <<owner, hired, clearance>>
statements == <<current, bound>>
history == <<granted, requests, crashes, paced>>
vars == <<tables, statements, lock, main, queue, writer, rows, dead, history>>

-----------------------------------------------------------------------------
(* A request: target is the identifier it is about, signer the one of the  *)
(* employee who makes it.  ADD without a level means level 0.              *)
Requests ==
    {r \in [command : Commands, target : Identifiers, signer : Identifiers,
            level : TypedLevels \cup {0}] :
        /\ r.command \notin Changing => r.target = r.signer
        /\ r.command \notin {"ADD", "SET_CLNC"} => r.level = 0
        /\ r.command = "SET_CLNC" => r.level \in TypedLevels}

Validate(r) == {r.target, r.signer} \cap Malformed = {}

(* Mutant: the level is read as an int and never narrowed.                 *)
WideClearance(level) == IF level = Garbled THEN FAIL_SAFE_CLEARANCE ELSE level

destringifyClearance(level) ==
    IF level = Garbled THEN FAIL_SAFE_CLEARANCE ELSE SignedChar(level)

isValidClearance(level) == level >= NO_CLEARANCE /\ level < MAX_CLEARANCE

(* What the tables say.                                                    *)
SelectClearanceWhereId(employee) ==
    IF employee \in hired THEN clearance[employee] ELSE NO_CLEARANCE

getClearance(id) == SelectClearanceWhereId(owner[id])

Entitled(r) == r.command \in Changing => getClearance(r.signer) >= Required[r.command]

-----------------------------------------------------------------------------
NoEntry == [user |-> NoOwner, command |-> "none"]

NoRequest == [command |-> "none", target |-> NoOwner, signer |-> NoOwner, level |-> 0]

Idle == [step |-> "idle", query |-> "user", request |-> NoRequest, pointer |-> "main",
         required |-> NO_CLEARANCE, user |-> NoOwner, level |-> NO_CLEARANCE,
         guest |-> NoOwner, command |-> "none"]

Waiting == [step |-> "wait", pointer |-> "main", entry |-> NoEntry]

Init ==
    /\ owner = InitialOwner
    /\ hired = Staff
    /\ clearance = [e \in Employees |->
                        IF e \in Staff THEN InitialClearance[e] ELSE NO_CLEARANCE]
    /\ current = "main"
    /\ bound = "nobody"
    /\ lock = "free"
    /\ main = Idle
    /\ queue = <<>>
    /\ writer = Waiting
    /\ rows = <<>>
    /\ dead = FALSE
    /\ granted = <<>>
    /\ requests = 0
    /\ crashes = 0
    /\ paced \in Pacings

-----------------------------------------------------------------------------
(* The main thread.  A look-up is NewQuery, Bind and one of the actions    *)
(* that read the row, named after what is looked up.                       *)

At(step) == ~dead /\ main.step = step

LookUp(query) == main' = [main EXCEPT !.step = "new", !.query = query]

(* Process replies and is done with the request, or goes on to Log.        *)
SendReply(after) == main' = [main EXCEPT !.step = "reply", !.query = after]

LogThreadIsIdle == queue = <<>> /\ writer.step = "wait"

Receive(r) ==
    /\ At("idle")
    /\ requests + crashes < MaxRequests[paced]
    /\ paced => LogThreadIsIdle
    /\ requests' = requests + 1
    /\ main' = IF Validate(r)
               THEN [Idle EXCEPT !.step = "new", !.request = r,
                        !.query = IF r.command = "AUTHENTICATE" THEN "user" ELSE "required"]
               ELSE [Idle EXCEPT !.step = "reply", !.request = r, !.query = "nothing"]
    /\ UNCHANGED <<tables, statements, lock, queue, writer, rows, dead,
                   granted, crashes, paced>>

ReplyReturns ==
    /\ At("reply")
    /\ IF main.query = "nothing" THEN main' = Idle ELSE LookUp(main.query)
    /\ UNCHANGED <<tables, statements, lock, queue, writer, rows, dead, history>>

NewQuery ==
    /\ At("new")
    /\ current' = "main"
    /\ main' = [main EXCEPT !.step = "bind"]
    /\ UNCHANGED <<tables, bound, lock, queue, writer, rows, dead, history>>

(* CurrentQuery, then the bindings of the statement are cleared and the    *)
(* argument of the look-up is bound.                                       *)
Bind ==
    /\ At("bind")
    /\ main' = [main EXCEPT !.step = "run", !.pointer = current]
    /\ bound' = IF current = "writer" THEN "main" ELSE bound
    /\ UNCHANGED <<tables, current, lock, queue, writer, rows, dead, history>>

(* next() on the INSERT of the log thread: the row is inserted once more,  *)
(* and there is no row to read, so that the look-up keeps its default.     *)
(* With the main thread's one argument bound, NOT NULL makes it fail.      *)
Own == main.pointer = "main"
Found(value, default) == IF Own THEN value ELSE default

Run(query) ==
    /\ At("run")
    /\ main.query = query
    /\ Own \/ bound = "writer"
    /\ rows' = IF Own THEN rows ELSE Append(rows, writer.entry)
    /\ UNCHANGED <<tables, statements, lock, queue, writer, dead, history>>

RunFails ==
    /\ At("run")
    /\ ~Own /\ bound # "writer"
    /\ dead' = TRUE
    /\ UNCHANGED <<tables, statements, lock, main, queue, writer, rows, history>>

(* The default of CommandsTable::SelectClearance is the int 255.           *)
SelectRequired ==
    /\ Run("required")
    /\ main' = [main EXCEPT !.step = "new", !.query = "user",
                   !.required = Found(Required[main.request.command], SignedChar(255))]

(* Mutant: the owner of the identifier the request is about is looked up.  *)
SelectTarget ==
    /\ Run("user")
    /\ main' = [main EXCEPT !.step = "new", !.query = "level",
                   !.user = Found(owner[main.request.target], NoOwner)]

SelectOwner ==
    /\ Run("user")
    /\ main' = [main EXCEPT !.step = "new", !.query = "level",
                   !.user = Found(owner[main.request.signer], NoOwner)]

SelectLevel ==
    /\ Run("level")
    /\ main' = [main EXCEPT !.step = "decide",
                   !.level = Found(SelectClearanceWhereId(main.user), NO_CLEARANCE)]

(* Mutant: the log entry names the owner of that identifier.               *)
SelectObject ==
    /\ Run("author")
    /\ main' = [main EXCEPT !.step = "new", !.query = "command",
                   !.user = Found(owner[main.request.target], NoOwner)]

SelectAuthor ==
    /\ Run("author")
    /\ main' = [main EXCEPT !.step = "new", !.query = "command",
                   !.user = Found(owner[main.request.signer], NoOwner)]

SelectCommand ==
    /\ Run("command")
    /\ main' = [main EXCEPT !.step = "enqueue",
                   !.command = Found(main.request.command, "none")]

-----------------------------------------------------------------------------
(* Authorize, Execute and Log.                                             *)

Record(r) ==
    granted' = Append(granted, [command |-> r.command, author |-> owner[r.signer],
                                entitled |-> Entitled(r),
                                resigns |-> r.command = "REMOVE" /\ r.target = r.signer])

Refuse ==
    /\ At("decide")
    /\ main.request.command \in Changing
    /\ main.level < main.required
    /\ SendReply("nothing")
    /\ UNCHANGED <<tables, statements, lock, queue, writer, rows, dead, history>>

(* AUTHENTICATE and the guest switch change nothing here.                  *)
Answer ==
    /\ At("decide")
    /\ main.request.command \notin Changing
    /\ Record(main.request)
    /\ SendReply("author")
    /\ UNCHANGED <<tables, statements, lock, queue, writer, rows, dead,
                   requests, crashes, paced>>

Level == destringifyClearance(main.request.level)

Authorized ==
    /\ At("decide")
    /\ main.request.command \in Changing
    /\ main.level >= main.required

(* std::stoi throws, and nothing catches what it throws.                   *)
LevelOverflows ==
    /\ Authorized
    /\ main.request.level = OutOfRange
    /\ dead' = TRUE
    /\ UNCHANGED <<tables, statements, lock, main, queue, writer, rows, history>>

Authorize ==
    /\ Authorized
    /\ main.request.level # OutOfRange
    /\ Record(main.request)
    /\ IF main.request.command = "SET_CLNC" /\ Level = FAIL_SAFE_CLEARANCE
       THEN SendReply("author")
       ELSE main' = [main EXCEPT !.step = "lock"]
    /\ UNCHANGED <<tables, statements, lock, queue, writer, rows, dead,
                   requests, crashes, paced>>

TakeLock ==
    /\ At("lock")
    /\ lock = "free"
    /\ lock' = "main"
    /\ main' = [main EXCEPT !.step = "change"]
    /\ UNCHANGED <<tables, statements, queue, writer, rows, dead, history>>

(* The change is made, or turned out to be impossible; the lock is         *)
(* released before the reply is sent and the log entry is put together.    *)
Finish ==
    /\ lock' = "free"
    /\ SendReply("author")

Change(command) ==
    /\ At("change")
    /\ main.request.command = command
    /\ UNCHANGED <<bound, queue, writer, rows, dead, history>>

AddExisting ==
    /\ Change("ADD")
    /\ owner[main.request.target] # NoOwner
    /\ current' = "main"
    /\ Finish
    /\ UNCHANGED tables

(* Mutant: the identifier is stored before the employee is.                *)
AddUnknown ==
    /\ Change("ADD")
    /\ owner[main.request.target] = NoOwner
    /\ current' = "main"
    /\ \E g \in Guests \ hired :
          /\ owner' = [owner EXCEPT ![main.request.target] = g]
          /\ clearance' = [clearance EXCEPT ![g] = Level]
          /\ main' = [main EXCEPT !.step = "assign", !.guest = g]
    /\ UNCHANGED <<hired, lock>>

(* createNewUniqueGuest tries names until one is free.  When none is, the  *)
(* loop does not end, and the thread stays here with the lock.             *)
AddGuest ==
    /\ Change("ADD")
    /\ owner[main.request.target] = NoOwner
    /\ current' = "main"
    /\ \E g \in Guests \ hired :
          /\ hired' = hired \cup {g}
          /\ clearance' = [clearance EXCEPT ![g] = Level]
          /\ main' = [main EXCEPT !.step = "assign", !.guest = g]
    /\ UNCHANGED <<owner, lock>>

AddIdentifier ==
    /\ At("assign")
    /\ owner' = [owner EXCEPT ![main.request.target] = main.guest]
    /\ current' = "main"
    /\ Finish
    /\ UNCHANGED <<hired, clearance, bound, queue, writer, rows, dead, history>>

(* The owner stays in the Employees table.                                 *)
RemoveIdentifier ==
    /\ Change("REMOVE")
    /\ owner' = [owner EXCEPT ![main.request.target] = NoOwner]
    /\ current' = "main"
    /\ Finish
    /\ UNCHANGED <<hired, clearance>>

(* Mutant: the level is not checked.                                       *)
SetAnyClearance ==
    /\ Change("SET_CLNC")
    /\ current' = "main"
    /\ LET employee == owner[main.request.target] IN
       clearance' = IF employee = NoOwner THEN clearance
                    ELSE [clearance EXCEPT ![employee] = Level]
    /\ Finish
    /\ UNCHANGED <<owner, hired>>

SetClearance ==
    /\ Change("SET_CLNC")
    /\ isValidClearance(Level)
    /\ current' = "main"
    /\ LET employee == owner[main.request.target] IN
       clearance' = IF employee = NoOwner THEN clearance
                    ELSE [clearance EXCEPT ![employee] = Level]
    /\ Finish
    /\ UNCHANGED <<owner, hired>>

SetClearanceRejects ==
    /\ Change("SET_CLNC")
    /\ ~isValidClearance(Level)
    /\ Finish
    /\ UNCHANGED <<tables, current>>

(* sendConnectionless to the log thread blocks while its queue is full.    *)
CreateLog ==
    /\ At("enqueue")
    /\ Len(queue) < LogQueueSize
    /\ queue' = Append(queue, [user |-> main.user, command |-> main.command])
    /\ main' = Idle
    /\ UNCHANGED <<tables, statements, lock, writer, rows, dead, history>>

-----------------------------------------------------------------------------
(* The log thread.                                                         *)

WriterAt(step) == ~dead /\ writer.step = step

TakeEntry ==
    /\ WriterAt("wait")
    /\ queue # <<>>
    /\ queue' = Tail(queue)
    /\ writer' = [writer EXCEPT !.step = "lock", !.entry = Head(queue)]
    /\ UNCHANGED <<tables, statements, lock, main, rows, dead, history>>

WriterTakesLock ==
    /\ WriterAt("lock")
    /\ lock = "free"
    /\ lock' = "writer"
    /\ writer' = [writer EXCEPT !.step = "new"]
    /\ UNCHANGED <<tables, statements, main, queue, rows, dead, history>>

(* NewQuery prepares the INSERT, which clears its bindings.                *)
WriterNewQuery ==
    /\ WriterAt("new")
    /\ current' = "writer"
    /\ bound' = "nobody"
    /\ writer' = [writer EXCEPT !.step = "bind"]
    /\ UNCHANGED <<tables, lock, main, queue, rows, dead, history>>

(* A look-up has one parameter: binding the second one is a fatal error.   *)
WriterBind ==
    /\ WriterAt("bind")
    /\ IF current = "writer"
       THEN /\ bound' = "writer"
            /\ writer' = [writer EXCEPT !.step = "run", !.pointer = current]
            /\ UNCHANGED dead
       ELSE /\ dead' = TRUE
            /\ UNCHANGED <<bound, writer>>
    /\ UNCHANGED <<tables, current, lock, main, queue, rows, history>>

(* Mutant: the lock is kept until the next entry.                          *)
WriteLogKeepsLock ==
    /\ WriterAt("run")
    /\ IF bound = "writer"
       THEN /\ rows' = Append(rows, writer.entry)
            /\ writer' = [writer EXCEPT !.step = "wait"]
            /\ UNCHANGED dead
       ELSE /\ dead' = TRUE
            /\ UNCHANGED <<rows, writer>>
    /\ UNCHANGED <<tables, statements, lock, main, queue, history>>

WriteLog ==
    /\ WriterAt("run")
    /\ IF bound = "writer"
       THEN /\ rows' = Append(rows, writer.entry)
            /\ lock' = "free"
            /\ writer' = [writer EXCEPT !.step = "wait"]
            /\ UNCHANGED dead
       ELSE /\ dead' = TRUE
            /\ UNCHANGED <<rows, lock, writer>>
    /\ UNCHANGED <<tables, statements, main, queue, history>>

-----------------------------------------------------------------------------
(* The process dies, or is killed by the watchdog, anywhere; the new one   *)
(* finds the tables as they are and clears the queue of the log thread.    *)
Restart ==
    /\ crashes < MaxCrashes
    /\ crashes' = crashes + 1
    /\ current' = "main"
    /\ bound' = "nobody"
    /\ lock' = "free"
    /\ main' = Idle
    /\ queue' = <<>>
    /\ writer' = Waiting
    /\ dead' = FALSE
    /\ UNCHANGED <<tables, rows, granted, requests, paced>>

LookUpStep ==
    \/ NewQuery \/ Bind \/ RunFails
    \/ SelectRequired \/ SelectOwner \/ SelectLevel \/ SelectAuthor \/ SelectCommand

ExecuteStep ==
    \/ Refuse \/ Answer \/ LevelOverflows \/ Authorize \/ TakeLock
    \/ AddExisting \/ AddGuest \/ AddIdentifier
    \/ RemoveIdentifier \/ SetClearance \/ SetClearanceRejects
    \/ CreateLog

WriterStep == TakeEntry \/ WriterTakesLock \/ WriterNewQuery \/ WriterBind \/ WriteLog

Next ==
    \/ \E r \in Requests : Receive(r)
    \/ ReplyReturns
    \/ LookUpStep \/ ExecuteStep \/ WriterStep
    \/ Restart

Spec == Init /\ [][Next]_vars

(* Both threads are scheduled; when requests come, whether the process is  *)
(* killed and whether the main application lets a reply return is not up   *)
(* to them.                                                                *)
FairSpec == Spec /\ WF_vars(LookUpStep \/ ExecuteStep) /\ WF_vars(WriterStep)
=============================================================================
