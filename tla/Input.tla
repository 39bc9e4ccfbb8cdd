-------------------------------- MODULE Input --------------------------------
(***************************************************************************)
(* The input path of the hardware daemon: the keypad thread and the card   *)
(* thread write to a pipe each, and the input-logic thread reads from      *)
(* both, assembles command messages with InputAutomaton and sends them to  *)
(* the main application.                                                   *)
(*                                                                         *)
(* Either pipe is a stream of characters without boundaries.  A card's     *)
(* UUID of four bytes is eleven characters long, which is what one read    *)
(* takes; there are cards with seven and ten bytes, too.                   *)
(***************************************************************************)
EXTENDS Integers, Sequences

CONSTANTS
    Lines,        \* what a user may type: sequences of keys
    CardCharacters, Cards,  \* the UUIDs of the cards, as the reader writes them
    BufferSize,   \* KEYPAD_BUFFER_SIZE, for the keypad and its pipe
    CardBufferSize, \* RFID_BUFFER_SIZE, for the card pipe
    Pacings,      \* whether a line is begun after the last one was dealt with
    MaxInputs,    \* bound, for either pacing: lines begun and cards shown
    MaxCards      \* bound, for either pacing: cards shown

Enter == "Enter"
Backspace == "Backspace"
Characters == {"*", "/", "1", "2", "3", "4", "5"}
Keys == Characters \cup {Enter, Backspace}

(* The words that stand for the two keys in the pipe.                      *)
EnterWord == <<"E", "N", "T", "E", "R">>
BackspaceWord == <<"B", "C", "K", "S", "P", "C">>

(* Pipe::receive reads one character less than its buffer holds.           *)
ReadSize == BufferSize - 1
CardReadSize == CardBufferSize - 1

NoCard == <<>>

ASSUME InputAssumption ==
    /\ Lines \subseteq Seq(Keys)
    /\ Cards \subseteq Seq(CardCharacters) \ {NoCard}
    /\ BufferSize \in Nat /\ ReadSize >= Len(BackspaceWord)
    /\ CardBufferSize \in Nat /\ CardReadSize > 0
    /\ Pacings \subseteq BOOLEAN
    /\ {MaxInputs, MaxCards} \subseteq [BOOLEAN -> Nat]

VARIABLES
    typing,      \* the keys of the current line that are still to come
    keypad,      \* m_buffer of the keypad
    keypadPipe, cardPipe,
    lastCard,    \* lastCardUID
    timer,       \* same_card_timer
    logic,       \* whether the input-logic thread polls or is in send()
    state,       \* of the InputAutomaton
    message,     \* its m_messageBuffer
    sent,        \* what the main application has received
    heard,       \* the inputs the automaton was given
    typed,       \* the lines that were begun
    shown,       \* the cards the card thread has accepted
    inputs,
    paced        \* the next line waits for the last one

keypadVars == <<typing, keypad, typed>>
cardVars == <<lastCard, timer, shown>>
pipes == <<keypadPipe, cardPipe>>
logicVars == <<logic, state, message, sent, heard>>
vars == <<keypadVars, cardVars, pipes, logicVars, inputs, paced>>

-----------------------------------------------------------------------------
Parameter(type, data) == [type |-> type, data |-> data]

(* parseKeypadInput and parseRFIDInput.                                    *)
KeypadParameter(text) ==
    CASE text = EnterWord -> Parameter("Enter", <<>>)
      [] text = BackspaceWord -> Parameter("Cancel", <<>>)
      [] Head(text) = "*" -> Parameter("PIN", Tail(text))
      [] Head(text) = "/" -> Parameter("Command", Tail(text))
      [] OTHER -> Parameter("Plain", text)

CardParameter(text) == Parameter("Card", text)

CommandEvents ==
    [ADD |-> <<"1", "1", "1", "1">>, REMOVE |-> <<"2", "2", "2", "2">>,
     SET_CLNC |-> <<"3", "3", "3", "3">>,
     GUEST_ACCESS_ENABLE |-> <<"4", "4", "4", "4">>,
     GUEST_ACCESS_DISABLE |-> <<"5", "5", "5", "5">>]

NoEvent == "none"

(* The event of an input: the name of the command, or the input's type.    *)
Event(p) ==
    IF p.type # "Command" THEN p.type
    ELSE IF \E c \in DOMAIN CommandEvents : CommandEvents[c] = p.data
         THEN CHOOSE c \in DOMAIN CommandEvents : CommandEvents[c] = p.data
         ELSE NoEvent

-----------------------------------------------------------------------------
(* The transition table: state, event, next state and action.              *)
Credentials == {"PIN", "Card"}

Transition(from, events, to, action) ==
    {[state |-> from, event |-> e, next |-> to, action |-> action] : e \in events}

Cancelled(from) == Transition(from, {"Cancel"}, "Idle", "cancel")

Transitions ==
    UNION {
      Transition("Idle", {"ADD"}, "Add", "create"),
      Transition("Idle", {"REMOVE"}, "Remove", "create"),
      Transition("Idle", {"SET_CLNC"}, "SetClearance", "create"),
      Transition("Idle", {"GUEST_ACCESS_ENABLE", "GUEST_ACCESS_DISABLE"},
                 "GuestAccessControlParam1", "create"),
      Transition("Idle", Credentials, "Idle", "authenticate"),
      Transition("Idle", {"Enter", "Cancel"}, "Idle", "appendAndSend"),
      Transition("Idle", {"Plain"}, "Idle", "warn"),
      Cancelled("Add"),
      Transition("Add", Credentials, "AddParam1", "append"),
      Transition("Add", {"Enter", "Plain"}, "Idle", "warn"),
      Cancelled("AddParam1"),
      Transition("AddParam1", Credentials, "AddParam2", "append"),
      Transition("AddParam1", {"Enter", "Plain"}, "Idle", "warn"),
      Cancelled("AddParam2"),
      Transition("AddParam2", Credentials, "Idle", "warn"),
      Transition("AddParam2", {"Plain"}, "Idle", "appendAndSend"),
      Transition("AddParam2", {"Enter"}, "Idle", "send"),
      Cancelled("Remove"),
      Transition("Remove", Credentials, "RemoveParam1", "append"),
      Transition("Remove", {"Enter", "Plain"}, "Idle", "warn"),
      Cancelled("RemoveParam1"),
      Transition("RemoveParam1", Credentials, "Idle", "appendAndSend"),
      Transition("RemoveParam1", {"Enter", "Plain"}, "Idle", "warn"),
      Cancelled("SetClearance"),
      Transition("SetClearance", Credentials, "SetClearanceParam1", "append"),
      Transition("SetClearance", {"Enter", "Plain"}, "Idle", "warn"),
      Cancelled("SetClearanceParam1"),
      Transition("SetClearanceParam1", {"Plain"}, "SetClearanceParam2", "append"),
      Transition("SetClearanceParam1", {"Enter"} \cup Credentials, "Idle", "warn"),
      Cancelled("SetClearanceParam2"),
      Transition("SetClearanceParam2", Credentials, "Idle", "appendAndSend"),
      Transition("SetClearanceParam2", {"Enter", "Plain"}, "Idle", "warn"),
      Cancelled("GuestAccessControlParam1"),
      Transition("GuestAccessControlParam1", Credentials, "Idle", "appendAndSend"),
      Transition("GuestAccessControlParam1", {"Enter", "Plain"}, "Idle", "warn")}

NoMessage == [command |-> "NONE", parameters |-> <<>>]

(* Mutant: the new parameter comes first.                                  *)
prependParameter(m, p) == [m EXCEPT !.parameters = <<p>> \o @]

appendParameter(m, p) == [m EXCEPT !.parameters = Append(@, p)]

createCommand(c) == [NoMessage EXCEPT !.command = c]

(* Mutant: a wrong input leaves the abandoned command in the buffer.       *)
ResultOfWarnKept(action, p) ==
    CASE action = "create" -> createCommand(Event(p))
      [] action = "authenticate" -> appendParameter(createCommand("AUTHENTICATE"), p)
      [] action \in {"append", "appendAndSend"} -> appendParameter(message, p)
      [] action \in {"send", "warn"} -> message
      [] action = "cancel" -> NoMessage

(* What the action of a transition leaves in the message buffer.           *)
ActionResult(action, p) ==
    CASE action = "create" -> createCommand(Event(p))
      [] action = "authenticate" -> appendParameter(createCommand("AUTHENTICATE"), p)
      [] action \in {"append", "appendAndSend"} -> appendParameter(message, p)
      [] action = "send" -> message
      [] action \in {"warn", "cancel"} -> NoMessage

Sending == {"authenticate", "appendAndSend", "send"}

-----------------------------------------------------------------------------
Init ==
    /\ typing = <<>>
    /\ keypad = <<>>
    /\ keypadPipe = <<>>
    /\ cardPipe = <<>>
    /\ lastCard = NoCard
    /\ timer = "Stopped"
    /\ logic = "poll"
    /\ state = "Idle"
    /\ message = NoMessage
    /\ sent = <<>>
    /\ heard = <<>>
    /\ typed = <<>>
    /\ shown = <<>>
    /\ inputs = 0
    /\ paced \in Pacings

(* The user begins a line.                                                 *)
BeginLine(line) ==
    /\ typing = <<>>
    /\ inputs < MaxInputs[paced]
    /\ paced => keypadPipe = <<>> /\ logic = "poll" /\ Len(keypad) < BufferSize
    /\ typing' = line
    /\ typed' = Append(typed, line)
    /\ inputs' = inputs + 1
    /\ UNCHANGED <<keypad, cardVars, pipes, logicVars, paced>>

-----------------------------------------------------------------------------
(* The keypad thread.                                                      *)

flushBuffer ==
    /\ keypadPipe' = keypadPipe \o keypad
    /\ keypad' = <<>>

checkBufferOverflow ==
    /\ Len(keypad) >= BufferSize
    /\ flushBuffer
    /\ UNCHANGED <<typing, typed, cardVars, cardPipe, logicVars, inputs, paced>>

(* Mutant: a key is taken into a full buffer.                              *)
KeyUnchecked(k) ==
    /\ typing # <<>>
    /\ Head(typing) = k
    /\ typing' = Tail(typing)
    /\ UNCHANGED <<typed, cardVars, cardPipe, logicVars, inputs, paced>>

Key(k) ==
    /\ Len(keypad) < BufferSize
    /\ typing # <<>>
    /\ Head(typing) = k
    /\ typing' = Tail(typing)
    /\ UNCHANGED <<typed, cardVars, cardPipe, logicVars, inputs, paced>>

ReadCharacter ==
    /\ \E k \in Characters : Key(k) /\ keypad' = Append(keypad, k)
    /\ UNCHANGED keypadPipe

ReadEnter ==
    /\ Key(Enter)
    /\ IF keypad # <<>>
       THEN flushBuffer
       ELSE keypadPipe' = keypadPipe \o EnterWord /\ UNCHANGED keypad

(* Mutant: BACKSPACE erases one character.                                 *)
BackspaceErasesOne ==
    /\ Key(Backspace)
    /\ IF keypad # <<>>
       THEN keypad' = SubSeq(keypad, 1, Len(keypad) - 1) /\ UNCHANGED keypadPipe
       ELSE keypadPipe' = keypadPipe \o BackspaceWord /\ UNCHANGED keypad

ReadBackspace ==
    /\ Key(Backspace)
    /\ IF keypad # <<>>
       THEN keypad' = <<>> /\ UNCHANGED keypadPipe
       ELSE keypadPipe' = keypadPipe \o BackspaceWord /\ UNCHANGED keypad

KeypadStep == checkBufferOverflow \/ ReadCharacter \/ ReadEnter \/ ReadBackspace

-----------------------------------------------------------------------------
(* Mutant: the timer is not started when a card has been accepted.         *)
ReadCardUntimed(card) ==
    /\ inputs < MaxInputs[paced]
    /\ Len(shown) < MaxCards[paced]
    /\ card = lastCard => timer = "Expired"
    /\ cardPipe' = cardPipe \o card
    /\ lastCard' = card
    /\ shown' = Append(shown, card)
    /\ inputs' = inputs + 1
    /\ UNCHANGED <<keypadVars, keypadPipe, timer, logicVars, paced>>

(* The card thread: a card at the reader is sent unless it is the last one *)
(* and the timer, which runs since that one was sent, has not expired.     *)
ReadCard(card) ==
    /\ inputs < MaxInputs[paced]
    /\ Len(shown) < MaxCards[paced]
    /\ card = lastCard => timer = "Expired"
    /\ cardPipe' = cardPipe \o card
    /\ lastCard' = card
    /\ timer' = "Started"
    /\ shown' = Append(shown, card)
    /\ inputs' = inputs + 1
    /\ UNCHANGED <<keypadVars, keypadPipe, logicVars, paced>>

TimerExpires ==
    /\ timer = "Started"
    /\ timer' = "Expired"
    /\ UNCHANGED <<keypadVars, lastCard, shown, pipes, logicVars, inputs, paced>>

-----------------------------------------------------------------------------
(* The input-logic thread.  An input that is no event is ignored, and so   *)
(* is an event that the state has no transition for.                       *)
ProcessEvent(p) ==
    LET matching == {t \in Transitions : t.state = state /\ t.event = Event(p)} IN
    /\ heard' = Append(heard, p)
    /\ \/ /\ matching = {}
          /\ UNCHANGED <<logic, state, message>>
       \/ \E t \in matching :
             /\ state' = t.next
             /\ message' = ActionResult(t.action, p)
             /\ logic' = IF t.action \in Sending THEN "send" ELSE "poll"
    /\ UNCHANGED sent

(* Mutant: the reader waits until its buffer is full.                      *)
ReadFullBuffer ==
    /\ logic = "poll"
    /\ Len(keypadPipe) >= ReadSize
    /\ ProcessEvent(KeypadParameter(SubSeq(keypadPipe, 1, ReadSize)))
    /\ keypadPipe' = SubSeq(keypadPipe, ReadSize + 1, Len(keypadPipe))
    /\ UNCHANGED <<keypadVars, cardVars, cardPipe, inputs, paced>>

ReadKeypadPipe ==
    /\ logic = "poll"
    /\ keypadPipe # <<>>
    /\ LET size == IF Len(keypadPipe) < ReadSize THEN Len(keypadPipe) ELSE ReadSize IN
       /\ ProcessEvent(KeypadParameter(SubSeq(keypadPipe, 1, size)))
       /\ keypadPipe' = SubSeq(keypadPipe, size + 1, Len(keypadPipe))
    /\ UNCHANGED <<keypadVars, cardVars, cardPipe, inputs, paced>>

(* What one read of at most so many characters takes, and what it leaves.  *)
Piece(text, size) == SubSeq(text, 1, IF Len(text) < size THEN Len(text) ELSE size)
Rest(text, size) == SubSeq(text, Len(Piece(text, size)) + 1, Len(text))

(* Mutant: the reader's buffer is filled to its last character.            *)
ReadCardBuffer ==
    /\ logic = "poll"
    /\ keypadPipe = <<>>
    /\ cardPipe # <<>>
    /\ ProcessEvent(CardParameter(Piece(cardPipe, CardBufferSize)))
    /\ cardPipe' = Rest(cardPipe, CardBufferSize)
    /\ UNCHANGED <<keypadVars, cardVars, keypadPipe, inputs, paced>>

(* The keypad comes first when both pipes have something to read.          *)
ReadCardPipe ==
    /\ logic = "poll"
    /\ keypadPipe = <<>>
    /\ cardPipe # <<>>
    /\ ProcessEvent(CardParameter(Piece(cardPipe, CardReadSize)))
    /\ cardPipe' = Rest(cardPipe, CardReadSize)
    /\ UNCHANGED <<keypadVars, cardVars, keypadPipe, inputs, paced>>

(* send() returns when the main application has the message, if ever.      *)
doSend ==
    /\ logic = "send"
    /\ sent' = Append(sent, message)
    /\ message' = NoMessage
    /\ logic' = "poll"
    /\ UNCHANGED <<keypadVars, cardVars, pipes, state, heard, inputs, paced>>

ReadStep == ReadKeypadPipe \/ ReadCardPipe

Next ==
    \/ \E line \in Lines : BeginLine(line)
    \/ KeypadStep
    \/ \E card \in Cards : ReadCard(card)
    \/ TimerExpires
    \/ ReadStep
    \/ doSend

Spec == Init /\ [][Next]_vars

(* The threads are scheduled and time goes on; that send() returns is up   *)
(* to the main application, and nobody has to type or to show a card.      *)
FairSpec ==
    Spec /\ WF_vars(KeypadStep) /\ WF_vars(ReadStep) /\ WF_vars(TimerExpires)
=============================================================================
