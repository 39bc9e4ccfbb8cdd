# A verification of NFCDoorAccess

NFCDoorAccess controls an electronic lock from a Raspberry Pi.  A startup program forks three
processes - the hardware daemon, the main application and the database gateway - and watches over
them.  They talk through POSIX message queues wrapped in a handshake protocol of their own, and
every protocol and every decision is a Mealy automaton driven by the same small engine.

This directory holds TLA+ models of the parts in which the order of events matters, configurations
that check them with TLC, and theorems that TLAPS proves about them for every value of their
constants.  Paths below are relative to `src/`.

1. [The system](#1-the-system)
2. [The modules](#2-the-modules)
3. [The runs](#3-the-runs)
4. [Fairness](#4-fairness)
5. [What is proved](#5-what-is-proved)
6. [Where code and documentation disagree](#6-where-code-and-documentation-disagree)
7. [What is not modelled](#7-what-is-not-modelled)
8. [Plan](#8-plan)

## 1. The system

```
   keypad, card reader
          | pipes                          (threads of the hardware daemon)
   input controller --send()--> main application --send()--> database gateway
          |                       |     ^------------send()---------|
          | connectionless        | connectionless
          +----> indicators <-----+     (display, buzzer, door)

   startup: watchdog server + process manager
      ^ register (send), START (connectionless), kicks (shared memory) from all three
      v fork, SIGTERM, SIGKILL, waitpid
```

| Component | State | Operations | What makes it correct |
|---|---|---|---|
| Mealy engine (`MealyAutomaton`) | current state, error status, event and message in hand | `processEvent`, `saveEvent` | it is not reentrant: one event at a time |
| Mailbox (`MailboxAPI`, `MailboxAutomaton`) | queue, automaton, message buffer, list of held senders | `send`, `receive` with options, `sendConnectionless` | a send that returns has delivered; no held sender is forgotten; no message out of order or twice; calls return |
| Main application (`MainApplication`) | `MainAutomaton`, `KeypadAutomaton`, guest switch, deadline timer | a message of the hardware daemon, a reply of the gateway, a timeout in a thread of its own | the door opens only on a fitting reply to the last request; every wait ends |
| Database gateway (`DatabaseGateway`, `DatabaseTables`, `SQLite3_Database`) | employees, passwords, cards, commands, log; the current statement of the database; the write lock | one request at a time: validate, authorise, execute, reply, log; a log thread with a queue of its own | nobody acts beyond his clearance; the log says who did what; no identifier without its employee; every request ends |
| Watchdog (`Watchdog`) | units, their timers and TTLs, slots in shared memory, termination flag | register, START, kick; expiry in one thread per timer | whoever stops kicking is acted upon; slots are neither shared nor leaked |
| Startup, process manager (`Startup`, `ProcessManager`) | the child processes | initiate, restart, kill all | no child outlives startup |
| Input path (`HardwareDaemon`, `Keypad`, `FIFO_Pipe`, `RFIDController`) | `InputAutomaton`, its message buffer, the keypad's line buffer, two pipes, the last card and its timer | a key, a card, a read from a pipe, `send()` | what is sent has a form its receiver accepts, made of the latest inputs; a card arrives once and whole; what was entered is dealt with |
| Indicators (`IndicatorController`) | queue of commands, door pin, display, idle message, a timer each for door and display | one connectionless command at a time; the callbacks of the timers in threads of their own | the door closes again; no notice stays on the display |

What is hard about this code is concurrency and failure, seldom arithmetic.  The handshake has an
automaton at either end, and any message can arrive in any state of them.  Timers call back in
threads of their own (`SIGEV_THREAD`) and use the automata and the lists of the main thread without
its locks.  Processes are killed and restarted under the hands of those they talk to.  Some calls
have a time limit and others, inside them, have none.  The list of hazards in `PROJECT.json` names
each place, and the properties below are aimed at that list.

## 2. The modules

| Module | Content |
|---|---|
| `Mailbox` | the handshake protocol: automata, queues, calls, crashes |
| `ReliableSend` | what `send()` promises to its caller |
| `MailboxProps` | properties of `Mailbox`, refinement mapping to `ReliableSend` |
| `MCMailbox` | topologies of mailboxes for TLC |
| `MailboxProofs` | theorems about `Mailbox`: types, automata and calls |
| `HandshakeProofs` | theorems about the handshakes of `Mailbox`, by counting what is under way |
| `DeliveryProofs` | theorems about delivery and order in `Mailbox`, step simulation of `ReliableSend` |
| `DoorControl` | both automata of the main application, the timer, the gateway as they see it |
| `DoorPolicy` | when the door may open and the guest switch may move |
| `DoorControlProps` | properties of `DoorControl`, refinement mapping to `DoorPolicy` |
| `DoorControlProofs` | theorems about `DoorControl` |
| `Watchdog` | clients, server, timer callbacks, process manager |
| `WatchdogProps` | properties of `Watchdog` |
| `MCWatchdog` | who asks for what on failure, for TLC |
| `WatchdogProofs` | theorems about `Watchdog` |
| `Gateway` | the database gateway: main thread, log thread, tables, current statement, write lock |
| `AccessRights` | how the rights of the employees may change |
| `GatewayProps` | properties of `Gateway`, refinement mapping to `AccessRights` |
| `MCGateway` | a small database for TLC |
| `GatewayProofs` | theorems about `Gateway` |
| `Input` | keypad thread, card thread, input-logic thread with `InputAutomaton`, the pipes |
| `InputProps` | properties of `Input` |
| `MCInput` | what users type, for TLC |
| `InputProofs` | theorems about `Input` |
| `Indicators` | clients, indicator thread, door and display with their timers, end of the daemon |
| `IndicatorsProps` | properties of `Indicators` |
| `MCIndicators` | two clients, a prompt and a notice for TLC |
| `IndicatorsProofs` | theorems about `Indicators` |

`Input` produces the messages that `DoorControl` receives; `DoorControl` sends its requests to what
`Gateway` models and its commands to what `Indicators` models; `Mailbox` is how they get there, and
`Watchdog` watches the processes.  They are checked one by one: where one depends on another it
takes what the other may do as a condition of its property: `Input` and `Gateway` do not assume that
`send()` returns, and their liveness properties begin with that condition.

Definitions whose comment starts with "Mutant" are not part of a specification: each is a
definition of the model with a plausible mistake in it, kept to show that the property it is listed
with in `PROJECT.json` would notice.

### Mailbox

One process owns one mailbox.  Its state is its queue (`queue`), the automaton (`state`,
`errorStatus`, `finished`, `buffer`, `waitingList`, `override`), the message `mq_send` has been
called with (`outbox`: the call blocks while the queue of the destination is full) and what its
owner is doing (`call`).  `TransitionTable` is the table of `MailboxAutomaton.cpp:116-186`, row by
row; `Do...` are its actions.  `Accept` and `Reject` are `MAutomat::processEvent` for an event with
and without a row.  `ParseMessage` decides which event a received message is, and whether it is
fatal.  The actions are the steps between two system calls:

- `Send`, `Receive`, `SendConnectionless`: the owner makes a call;
- `SendImmediate`: `mq_send` succeeds, when there is room;
- `ReceiveImmediate`: a message is taken from the queue and processed (`Handle`); `NothingReceived`:
  the time is up or the queue was empty; `Interrupt`: a signal ended the system call;
- `ReturnFromSend`, `ReturnFromReceive`: the loop of the call ends and the automaton is reset;
- `Crash`, `Restart`: a process dies anywhere and its successor drains the queue of that name.

Payloads are numbers, in the order in which a mailbox sends; names are model values.  Time is
untimed: a limit may pass whenever there is nothing in the queue.  The buffer is modelled as the
code has it: `receive()` releases the data but leaves the names, and the next call judges what it
receives by them.

### DoorControl

`MAutomat::processEvent` looks a transition up, assigns the state and runs the action.  The main
loop and the timer callback both do this on the same `KeypadAutomaton` without a lock, so each
thread has a program counter (`thread[t].step`) and its own copy of what it has looked up, and the
steps `Lookup`, `Enter` (within `DoNothing`, `DoSendRequestToDB`, `DoSignal`, `DoCancelAction`,
`DoSwitchGuestAccess`), `Send`, `StartTimer`, `StopTimer`, `SignalFinish` interleave.  Two threads
that begin at the same time in one automaton, the keypad's or `MainAutomaton`, may delete the same
event twice, which aborts the process, or one may look up the event of the other, for
`m_iCurrentEventID` is a member (`mautomat.cpp:111`).  The model ends there in either case, with
`Abort`: of the second it claims nothing.

The gateway answers one request at a time with `send()`.  A request sent while it still owes a reply
makes the two sends collide; `Mailbox` shows what comes of that, and here it is `wedged`.  The
variables `asked`, `answers`, `openings`, `cancelled`, `timeouts` and `overlap` are history: the
guards read of them only the bound on messages and which request the gateway has in hand.  `overlap`
says that the two threads have been inside the automata together; several properties exempt what
follows, and only those that say so.

### Watchdog

Three parties: the clients (`ClientNext`), the main thread of startup (`StartupNext`) and a callback
thread per timer (`CallbackNext`).  The handshake of the registration is modelled as far as the
server shows it: `SendCTS`, `EnqueueAndHold`, `DequeueAndCTS` are those of the mailbox automaton,
and `DropConnectionless` is what happens to a START that arrives while the server waits for the
message of another client.  The callback reads the control block (`SeeAlive`, `SeeSilent`) and acts
a moment later (`DecrementTTL`, `RequestTermination`, `ClearSlot`, `EraseUnit`, `RestartRunning`,
`RestartExited`, `Initiate`); the main thread and the clients run in between.  `RemoveUnit` of the
code is two steps, `ClearSlot` and `EraseUnit`, and so is its `AddNewUnit`, `TakeSlot` and
`AddNewUnit`: the callback thread holds no lock, and a slot may be handed out again while the unit
it belonged to is still in the list.  `killAll()` is
`Kill`, `ForceKill`, `WaitForProcess`, `FindExited`, process after process, with `waitpid` and
zombies: a process is `running`, `exited` or `reaped`, and `hasExited()` is true exactly once.
SIGINT comes at most once, at any moment: it raises the flag, ends the sleep in `killAll()`, ends
`waitpid`, or makes `receive()` yield a message from nobody.

The unit name stands for the PID the client sends, which is that of the process startup has forked.
The initial state is the one after `initiateAll()`.  A client that gets no reply in time exits;
that is one of its crashes.

### Gateway

The main thread handles one request after the other (`main`: its step, the request, and what it has
looked up), the log thread one entry after the other (`writer`).  A query of the code is
`NewQuery()`, which points `p_currentQueryStatement` to a prepared statement, then `CurrentQuery()`,
which reads that pointer back, then `bind` and `next`.  Both threads use the one `Database` object,
and only the queries that change identifiers or clearances, and those of the log thread, hold
`m_writeLock`.  So a look-up is three steps: `NewQuery`, `Bind` and one of `SelectRequired`,
`SelectOwner`, `SelectLevel`, `SelectAuthor`, `SelectCommand`; the log thread's query is
`WriterNewQuery`, `WriterBind`, `WriteLog`.  What a thread does with the other's statement is
modelled by what SQLite does with it: a second insertion of the row, a default instead of an answer,
or a fatal error (`RunFails`, `WriterBind`).  `Refuse`, `Answer`, `LevelOverflows` and `Authorize`
are the decision; `AddExisting`, `AddGuest`, `AddIdentifier`, `RemoveIdentifier`, `SetClearance` and
`SetClearanceRejects` are the branches of `Execute` under the lock; `CreateLog` puts the entry into
the queue.  Every reply, of `Receive`, `Refuse`, `Answer` and `Finish`, is a `send()` to the main
application without a time limit: `SendReply` begins it, and `ReplyReturns` may never come.  `Crash`
restarts the process at any point; the tables survive.

PINs and cards are one table here, since the code treats them alike: an identifier has an owner.
The clearance is a signed char, and `destringifyClearance` narrows the typed number if an int holds
it; for a longer one (`OutOfRange`) `std::stoi` throws, nobody catches it, and the process ends
(`LevelOverflows`).  `granted` is
history: what was executed, by whom, and whether the tables entitled him to it at that moment.
`paced` is chosen at the start: whether the next request comes only when the log thread is idle,
as it does at a keypad, or whenever it likes.

### Input

The keypad thread is `ReadCharacter`, `ReadEnter`, `ReadBackspace` and `checkBufferOverflow` on the
line buffer; the card thread is `ReadCard` with the timer that lets the same card pass again.  Both
pipes are sequences of characters without boundaries, so that two words written between two reads
arrive as one and a long one in pieces; here alone texts are spelled out, because the properties are
about this.  A card is as many characters as its identifier takes in hexadecimal with dashes: 11 for
four bytes, 20 for seven, while a read takes 11 (`CardReadSize`).  `ReadKeypadPipe` and
`ReadCardPipe` read at most one buffer (`Piece`, `Rest`), parse it
(`KeypadParameter`, `CardParameter`) and process the event: `Transitions` is the table of
`InputAutomaton.cpp`, `ActionResult` what its actions leave in the message buffer.  `doSend` is
the return of `send()`, which keeps the thread until the main application has the message, and for
ever if it never takes it.  `heard`, `typed` and
`shown` are history.  `paced` says whether a line is only begun after the last one was dealt with.

### Indicators

The clients put commands into a queue without a handshake and block while it is full (`Request`,
`sendConnectionless`).  The indicator thread takes one after the other (`CheckTerminate`,
`ListenAndParseRequest`, `TimedOut`).  Both the thread and every callback of the display's timer
have a step in `thread`, and the functions of `I2C_LCD` are cut where another thread can come
between: the idle message (`setDefault`, `PutToLCD`), the copy that is made of the message
(`CopyMessage`), the timer (`StopTimer`, `StartTimer`), the display (`ClearDisplay`,
`SendCharacters` in two parts).  `OpenDoors` is the pin, then the timer;
`closeTheDoor_timerCallback` may be late by any time.  SIGTERM lets the loop end and destroys the
members (`Destroy`: display first, then the door, which is closed); `Die` is every other end of the
process, which leaves pin and display as they are.  `Restart` is the start of the whole system.
`clash` is history: whether threads have met at the display since one began to write alone.

## 3. The runs

All constants have named bounds; "d.s." is the number of distinct states.

| Run | Configuration | Shows |
|---|---|---|
| `commands` | `MailboxCommands.cfg`, 4 mailboxes, queues of 1, 22 k d.s. | Where commands flow one way - two senders share a receiver that is itself a sender, and one of them sends notices as well - a send that returns has delivered, every send and every timed receive returns, a handshake has one token, one sender is cleared at a time (`HandshakesIntact`), nothing is fatal, and the protocol implements `ReliableSend`, liveness included. |
| `system` | `MailboxSystem.cfg`, the links of the running system, a signal, 226 k d.s. | With requests and replies both sent by `send()`, `send()` delivers or leaves its mailbox wedged; a wedged mailbox never works again; the state fits the waiting list. |
| `crash` | `MailboxCrash.cfg`, one crash anywhere, all receive options, 570 k d.s. | A process that dies in a handshake and is restarted makes nobody receive twice, out of order or what was meant for others, and no survivor lose track of the call it is in. |
| `door` | `DoorControl.cfg`, 3 messages, 1.29 M d.s. | Whatever the interleaving, the door opens and the switch moves only on a fitting positive reply to the last request, once, never after a cancel (`DoorPolicy`); every wait has a deadline and ends; a collision needs a timeout first; the two automata agree. |
| `watchdog` | `Watchdog.cfg`, 2 processes, two misses, a hang, a crash, 266 k d.s. | A hang or crash of a monitored client ends the whole system, and every client gets registered. |
| `restart` | `WatchdogRestart.cfg`, one process is restarted, 341 k d.s. | Restarts from callback threads neither leak slots nor give one to two owners, cause no fatal error, let no client kick for another unit, replace what has died, and leave what is to be killed dead; nobody outlives a regular exit of startup. |
| `gateway` | `Gateway.cfg`, one administrator, three identifiers, one free name, a log queue of 1, three paced or two hurried requests, a restart, 390 k d.s. | No identifier lacks its employee; requests that leave the log thread its time are carried out only for those entitled, and logged truthfully; the log is written whatever becomes of the replies, and the gateway gets idle again if they return; rights change as `AccessRights` says. |
| `input` | `Input.cfg`, 9 lines of user input, two cards of four bytes and one of seven, four paced inputs with one card or three hurried ones, 649 k d.s. | Only well-formed messages are sent, of the latest inputs; a line typed at leisure arrives as meant unless it is longer than the reader's buffer; as long as all cards shown have four bytes, each one that was accepted is heard once, whole and in its turn; if every `send()` returns, the pipes get empty and the last card may pass again. |
| `indicators` | `Indicators.cfg`, two clients, a queue of 2, three commands, two callbacks of the display, one end of the daemon, 217 k d.s. | An open door is closed, unless the daemon was killed; a display left alone shows no notice and, unless threads met, the idle message. |
| `mutual_send`, `opens_unasked`, `gateway_race` | see section 6 | The counterexamples to three statements of the documentation. |

**Why the bounds are enough.**  In `commands` a queue holds one message, so that every signal, HOLD
and CTS included, may have to wait for room; four mailboxes give a receiver with two competing
senders that is a sender itself.  `system` has two messages per sender, so that a handshake starts
while the remains of the previous one are about.  `crash` has two messages for order to mean
something.  Three messages in `door` are enough for a request, something that interrupts it and a
request after it, with the timeout and the reply of either; ADD stands for REMOVE and SET_CLNC,
whose rows are the same.  In the `watchdog` runs two processes are the least for one to be held
while the other registers and for killAll to pass one by while the other restarts; two misses
distinguish the first from the last, and one hang with one crash can hit the same process or both.
Three processes add only a third place in the same list.  In `gateway` an ADD, a second ADD for
which no name is left, and a third request can follow one another, the first of them may be cut off
by the restart, the levels 259 and 200 wrap around in a signed char and a third one fits no int; two
hurried requests are the least for the threads to meet.  In `input` four inputs are a command with
all its parameters, or an abandoned one and the one after it; the lines contain a correction, an
abandoned input, the longest PIN that one read takes, of exactly nine characters, and the longest
the gateway accepts; in a hurry they merge into words that are no command.  Three hurried inputs are
also a REMOVE with two cards, or three cards that wait in the pipe together, of different lengths or
the same one twice; with four inputs at leisure one card (`MaxCards`) comes at any moment.  In
`indicators` three commands are two openings of the door with a notice between them, or a notice,
what replaces it and what comes after, and two callbacks can be at the display together with the
server.

**Deadlock** is not checked, because all the models may rightly stop: the bounds on inputs, messages
and faults are used up, startup or the gateway has exited, or mailboxes are wedged.  That nobody
waits for ever where he should not is stated by the liveness properties instead.

**Exceptions written into properties.**  `FailureStopsAll`, `EveryClientIsServed` and
`DeadIsReplaced` exempt `ServerStuck`: the server has cleared a client that died before its message,
and waits for it without a limit, since `TimedOut` leaves the automaton in WaitingMSG and
`m_terminationFlag` is read only between two calls.  `NoFatalError` (watchdog) exempts SIGINT: a
`receive()` it interrupts yields a message from `""`, which is fatal unless the buffer names nobody,
and startup then exits without `killAll()`.  `NobodyOutlivesStartup` therefore speaks of a regular
exit, and of processes with KILL_ALL only: one that is being restarted may be forked after its turn.
`EveryWaitHasDeadline` exempts a request that is still being sent, for the timer is started only
when `send()` has returned.  `PacedAuthorizedOnly` and `PacedRowsNameAuthors` speak of paced
requests only, since the look-ups of hurried ones are not protected from the log thread (section 6).
`PacedRowsNameAuthors` exempts the death of a gateway that was given a level beyond int.
`GatewaySettles` exempts a gateway that has died, and one that is searching a name for a guest when
none is left: that loop does not end.  Its first half has the condition `RepliesAreTaken`, its
second, about the log, has not.  `InputIsDealtWith` has the condition `EverySendReturns`, and that
the user stops typing is the bound on the inputs: the input-logic thread asks the keypad first
(`InputController.cpp:155`), so that a keypad that always has something would shut the cards out.
`CardsArriveWhole` speaks of cards of one length, that of a read (section 6).  `LinesArriveWhole`
exempts words that do not fit into one read.  `OpenDoorCloses` exempts a daemon that was killed, and
`DisplaySettles` what two threads have written at once.  Each is behaviour of the code and is listed
as a hazard.

## 4. Fairness

- `Mailbox`: weak fairness of the steps of a call that can go on, and of the owners of listening
  mailboxes calling `receive()` again, which is what the main loops do.  None for `send()`, signals,
  crashes and restarts.
- `DoorControl`: weak fairness of both threads, of the gateway's reply and of the expiry of an armed
  timer.  None for the user.
- `Watchdog`: weak fairness of the main thread, of the registration of a client that runs, of the
  expiry of armed timers and of the callback threads.  None for kicks: a client that works may be
  too slow for its deadline.  None for hangs, crashes and SIGINT.
- `Gateway`: weak fairness of the main thread within a request and of the log thread.  None for
  requests and restarts, and none for the return of a reply: `mutual_send` shows that it may block or
  wedge.  The loop over the names of guests is a step that is not enabled when none
  is free.
- `Input`: weak fairness of the keypad thread on a line that has been begun, of the reads of the
  input-logic thread and of the card timer.  None for users and cards, and none for `send()`: the
  main application may be wedged or dead.
- `Indicators`: weak fairness of the indicator thread, of armed timers and of each callback.  None
  for clients, SIGTERM, death and restart.

Weak fairness is what a preemptive scheduler gives to a thread that can run.  No action needs strong
fairness: a queue has one reader, and the wait for room in a queue ends because that reader drains
it.

## 5. What is proved

The theorems hold for every value of the constants that the named assumptions admit:
`MailboxAssumption`, `DoorControlAssumption`, `WatchdogAssumption`, `GatewayAssumption`,
`InputAssumption`, `IndicatorsAssumption`, each declared with the constants and evaluated by TLC in
every run of its component.  They assume no fairness.  Where a theorem holds only for some values of
the constants, its statement begins with a named condition on them; the table lists these.

| Condition | Says | Theorems | Runs that satisfy it |
|---|---|---|---|
| `NobodyIsKilled` | no process is killed from outside | `SendDeliversOrWedgesItself` | `commands`, `system` |
| `QuietOneWay` | nobody sends to a mailbox that sends to it, no signals, no kills | `NobodyMeetsAFatalError`, `SendDeliversAlways`, `HandshakesStayIntact`, `HandshakeKeepsThePromise` | `commands` |
| `ListenersDoNotSend` | a mailbox on which `receive()` is called is not sent from | `MessagesArriveInOrder` (or `QuietOneWay`) | `crash` |
| `LinesAreSimple` | a line that fits into one read is BACKSPACE alone, or ends with its only ENTER and corrects only what there is | `LinesAlwaysArriveWhole` | `input` |

**Mailbox** (`MailboxProofs`): for any set of mailboxes, topology, receive options, queue size and
number of crashes and signals.  Inductive invariant: `Inv == TypeOK /\ IdleStateMatchesWaitingList
/\ CallMatchesAutomaton`.  The three need one another: typing needs a waiting list that is not empty
when its front is taken; that needs the idle state to match the list; and that holds after a call
only because a call and its automaton agree on where they are.  Lemmas about the rows of the table
(`RowFacts`), about `processEvent` with and without a row, and one per action lead to
`MailboxTypeCorrect`, `WaitingListSafe`, `CallAndAutomatonAgree` and the action property
`WedgedForever`.

**Handshakes** (`HandshakeProofs`): `TInv` counts.  A handshake of m with d is a token in one of
four places: requested (the RTS is on its way, or d has put m on its waiting list), cleared (the CTS
is on its way), the message is on its way, or its acknowledgement is.  There is never more than one
token, a mailbox that has rejected nothing has it where its automaton says, and whoever has
acknowledged a message has it (`TokenOK`, `ExpectOK`, `LettersOK`, `AnsweredOK`).  The counts are
cardinalities of sets of positions in queues, and the first lemmas say what appending to and taking
from a queue does to them.  `SendDeliversOrWedgesItself` follows for any topology and any number of
signals, mailboxes that send to each other included: a `send()` that returns has delivered or its
mailbox is wedged.  It needs `NobodyIsKilled`: with one crash TLC finds a receiver that acknowledges
and is killed before its `receive()` returns, so that `send()` returns and nobody has the message.

**Delivery** (`DeliveryProofs`): `SInv` is what holds in addition where requests flow one way and
nothing interrupts.  Nobody's automaton has rejected anything, the token of every handshake is there
(`WholeToken`: exactly one, where `TInv` says at most one), a receiver that has cleared m waits for
m, and a sender is told to HOLD once at most, before it is cleared (`HoldOK`).  Then no event is
without a row, which gives `NobodyMeetsAFatalError`, `SendDeliversAlways` and `HandshakesStayIntact`.
The condition cannot be weakened to any topology: mutual sends wedge (section 6), and a signal is
the event SYSCALL_INTERRUPTED, which the automaton rejects or answers with a fatal error.
`HandshakeKeepsThePromise` maps every step to a step of `ReliableSend` or a stutter.

`OInv` is about order and does not need `SInv` to be inductive.  What a mailbox has handed out, has
in its buffer and has queued of one sender is numbered upwards, and what the sender is about to queue
is newer (`AllSorted`, `AllNewer`).  It holds through signals and kills as long as `receive()` hands
out only what its automaton has received; `MessagesArriveInOrder` gets that from `QuietOneWay` or
from `ListenersDoNotSend`.  Without either, `receive()` on a wedged mailbox can hand out the message
that the mailbox itself failed to send.

**Door** (`DoorControlProofs`): for any subset of the commands and any number of messages.  Four
inductive invariants on top of one another.  `PolicyInv` says what the message a thread is handling
implies about requests and replies (a thread that is going to open the door is handling the reply to
the last request, which stands); `DoorImplementsPolicy` follows from it step by step, as a step of
`DoorPolicy` or a stutter.  `OweInv` says that, as long as nothing has timed out, the gateway owes a
reply only while the automaton waits; hence `CollisionsFollowTimeouts`.  `DeadlineInv` says where a
deadline is when the threads have not met; hence `WaitsHaveDeadlines`.  `AgreeInv` follows
the result on its way from the keypad automaton to `MainAutomaton`; hence `TheAutomataAgree`.

**Watchdog** (`WatchdogProofs`): for any number of processes, any choice between RESET_ONLY and
KILL_ALL, any TTLs, any number of slots not below that of the processes, and any number of hangs and
crashes.  `SupervisionInv` joins `TypeOK` and `SlotAccounting` with

- `MessagesOK`: every message under way fits the step of its client, so a client has at most one
  registration under way and a START only after it;
- `RequestOK`: the request in hand is that of a client waiting for just this;
- `UnitsOK`: a client that is not registered has no unit, timer or callback, and a registered one
  has the offset of its unit; a restart is a process with neither unit nor timer;
- `KilledOK`: `killAll()` has left no KILL_ALL process running behind it;
- `NoFatalError`.

`NoFatalError` needs a free slot for every registration, which is a counting argument: units and
taken slots correspond one to one, the registering process is not a unit, and there are no fewer
slots than processes (`SlotForEveryProcess`).  `SlotAccounting` speaks of owners, not of units
(`SlotOwners`): a request that has taken its slot is one before it is in the list, and a unit whose
slot a callback thread has cleared is none although it still is in the list; what is cleared is
thereby never the slot of a new owner.  The theorems are `WatchdogTypeCorrect`, `SlotsAccounted`,
`ServerNeverFails`, `KicksReachTheirUnit` and `KilledStayDead`.

**Gateway** (`GatewayProofs`): for any database whose commands require a clearance, any typed
levels, any length of the log queue, any number of requests and restarts.  `GatewayInv == TypeOK /\
OwnersExist /\ RequestOK` holds whatever the two threads do to the statement they share; it gives
`GatewayTypeCorrect` and `EveryOwnerExists`, the latter because the main thread alone writes these
tables and stores the employee first.  Of typed levels the type says that what an int holds is
narrowed to a signed char before anything is stored, and that what no int holds ends the process
before it gets to the tables.  `PacedInv` is about paced requests: the threads take turns
(`TurnsTaken`), so each look-up runs its own statement and what has been looked up is still what the
tables say (`LookUpsHold`) - only the main thread changes them, after it has read them; hence what
is executed is entitled (`GrantsEntitled`), and the rows follow what was executed (`LogFollows`,
`RowsNameAuthors`).  `OnlyEntitledIsDone` and `LogNamesAuthors` follow, and
`GatewayImplementsRights` shows that every step is one of `AccessRights` or a stutter.

**Input** (`InputProofs`): for any lines and cards, any sizes of the buffers, either pacing and any
number of inputs.  `InputInv == TypeOK /\ MessageFits /\ SentFits /\ MessageIsRecent /\
CardsInTurn`.  `MessageFits` says what the message buffer holds in each state of the automaton: the
command of the state and as many parameters, of the right kinds, as the state stands for.
`MessageIsRecent` says that these are the last inputs heard.  Together they give
`SentAlwaysWellFormed` and `SentAlwaysRecent` when `doSend` begins; `InputTypeCorrect` follows
directly.  `CardsInTurn` says where in the stream of the card pipe each card begins that was shown
and not heard: at a multiple of the size of a read.  It holds as long as all cards have that size,
and gives `CardsAlwaysArriveWhole`.  `LinesAlwaysArriveWhole` is about lines typed at leisure and
has an invariant of its own, `LinesInv`: such a line is in one place, being typed, in the pipe, or
heard, and the part of it that is typed is what the editing keys have made of it so far.  Its
condition `LinesAreSimple` is that a line that fits into one read is a BACKSPACE alone, or keys up
to the first ENTER in which every BACKSPACE has something to erase and the line buffer never gets
full, so that it makes one input; `MCInput` asserts it of the lines that TLC uses.  The properties
select from sequences by position (`Selection`) and not with the library's `SelectSeq`, which is
recursive and which no prover can expand.

**Indicators** (`IndicatorsProofs`): for any texts, clients, length of the queue and number of
commands, callbacks and ends of the daemon.  `IndicatorsInv == TypeOK /\ OpenDoorIsTimed /\
DisplayInv`.  `OpenDoorIsTimed` is the safety half of `OpenDoorCloses`: an open door has a timer, a
callback or a thread about to start the timer.  `DisplayInv` says which texts the threads hold at
which step (`TextsOK`), that a notice that can be read has somebody to remove it
(`NoticesAreTimed`), that one thread at most writes while none has met another (`AloneOK`), and that
then its text is the idle message or a notice (`CopyOK`) and the display shows what it has written
so far (`ContentOK`). The last three need `AloneOK`, and all need the texts.  The theorems are
`IndicatorsTypeCorrect`, `OpenDoorAlwaysTimed` and `DisplayAlwaysSettles`.

**Only model-checked**: all liveness - `EveryCallReturns`, `EveryWaitEnds`, `FailureStopsAll`,
`EveryClientIsServed`, `DeadIsReplaced`, `GatewaySettles`, `InputIsDealtWith`, `OpenDoorCloses`, and
the fairness half of `ImplementsReliableSend` - since the prover has no rules for fairness and
ENABLED.  Every safety property that a passing run checks is the conclusion of a theorem, seven of
them (`ImplementsReliableSend` without its fairness among them) under the conditions above.

## 6. Where code and documentation disagree

| Run | Statement | What happens |
|---|---|---|
| `mutual_send` | "Guarantees that message will be delivered or it will block, possibly crash" (`SimplifiedMailbox.hpp:254`) | Two mailboxes that send to each other take each other's RTS for the message they wait for; `send()` returns, nothing is delivered, and the automaton is left with an error status that nobody clears.  The main application and the gateway send to each other. |
| `opens_unasked` | access "based on authentication" (`README.md:21`) | A request that arrives during a guest request is turned away, but its row leads to WaitingDatabase_Authorize: the reply to the guest request opens the door, and the switch is not moved. |
| `gateway_race` | of the lock: "used to synchronize the database access" (`DatabaseObject.hpp:121`); of the log: an entry "based on `logEntry` object" (`DatabaseObject.hpp:111`) | The look-ups of a request do not take the lock.  One that comes between `NewQuery()` and `next()` of the log thread executes the `INSERT` of the log a second time and finds no owner itself; the next entry names nobody. |

The models show other behaviour that a reader should know of and that no run is spent on:

- `sendConnectionless` to a mailbox followed by `receive()` takes that mailbox's RTS for a valid
  message and returns the notice just sent (`SimplifiedMailbox.hpp:270`: "Listens for messages until
  one is received"); and TIMED is tested before NORMAL (`:271`: "flag NORMAL has precedence").
- A START that the server drops in WaitingMSG leaves its client unmonitored for good:
  `Kick()` starts nothing, though `Start()` is "Optional, can be started with `Kick()`"
  (`WatchdogClient.hpp:70`).
- A PIN of nine or ten digits, which the gateway accepts, cannot be typed: the keypad's pipe is read
  nine characters at a time, the asterisk included.
- The reader accepts ISO14443A cards of seven bytes too and writes 20 characters for one
  (`PN532_NFC.cpp:102-119`), but a read takes 11: the card is heard as two inputs, neither of them a
  card that was shown.  The first looks like a card of four bytes and passes the gateway's pattern
  (`ValidationUtils.hpp:96-99`), the rest may be joined by the beginning of the next card.
  `CardsArriveWhole` does not hold of such cards.
- A callback of the display that meets the server may leave mixed text or an old prompt on the
  display until the next message.  A late callback of the door closes a door that has just been
  opened again.  The door stays open when the hardware daemon is killed while it is.

## 7. What is not modelled

- Memory: buffers, ownership, serialisation.  The exceptions are those the control flow depends on,
  the message buffer of a mailbox and the double delete in `saveEvent`.  Two threads inside
  operations of the same `std::list` (`WatchdogServer.cpp:438`) are undefined behaviour that the
  model does not resolve; it makes each list operation atomic.
- UNREGISTER, STOP, UPDATE_SETTINGS, SYNC and TERMINATE_REQUEST of the watchdog, which no program
  sends while it is supervised, and `TerminateAll`, which nothing calls.
- The messages of the data mailbox byte by byte, the SQL texts, and SQLite itself, which is taken to
  execute one statement after the other.  The text of identifiers in `Gateway`: an identifier is
  well-formed or malformed there.  What becomes of the identifier of a seven-byte card is the matter
  of `Input`: its first piece is well-formed to the gateway, its second is not.
- Undefined behaviour in memory that two threads reach at once: the event and its id within an
  automaton of the main application (`mautomat.cpp:111`, where `DoorControl` ends), the
  `std::string` of the idle message, the message buffer in `sendConnectionless` of two threads of
  the main application
  (`SimplifiedMailbox.cpp:795`), the characters on the bus of the display (a character is shown or
  not).
- The buzzer (it sounds and returns), the order in which `main()` of the hardware daemon joins its
  threads.
- The drivers, the bus of the card reader, logging, time conversion, the settings file: input and
  output without a protocol.
- The test programs, which are driven by hand.
- The older mailbox in `MailboxAPI/src/mailbox.cpp`, and the web interface, which no process uses.

## 8. Plan

In this order:

1. `Supervision`, an abstract specification of the watchdog (a monitored unit is up, suspected or
   acted upon) that `Watchdog` implements, with its step simulation in `WatchdogProofs`.
2. The composition of `Input` and `DoorControl`, so that the user's commands arrive in `DoorControl`
   in the orders in which `Input` can send them; today `DoorControl` takes any order, which includes
   them.
