------------------------------ MODULE InputProps ------------------------------
(***************************************************************************)
(* What is expected of the input path.                                     *)
(***************************************************************************)
EXTENDS Input, FiniteSets

States == {t.state : t \in Transitions}

Texts == Seq(Characters \cup {EnterWord[i] : i \in DOMAIN EnterWord}
                        \cup {BackspaceWord[i] : i \in DOMAIN BackspaceWord})

InputTypes == {"Enter", "Cancel", "PIN", "Command", "Plain", "Card"}

Parameters == [type : InputTypes, data : Texts \cup Seq(CardCharacters)]

Commands == DOMAIN CommandEvents \cup {"NONE", "AUTHENTICATE"}

Messages == [command : Commands, parameters : Seq(Parameters)]

(* Every variable has the values the code can give it; the keypad's buffer *)
(* never holds more than it was made for.                                  *)
TypeOK ==
    /\ typing \in Seq(Keys)
    /\ keypad \in Seq(Characters)
    /\ Len(keypad) <= BufferSize
    /\ keypadPipe \in Texts
    /\ cardPipe \in Seq(CardCharacters)
    /\ lastCard \in Cards \cup {NoCard}
    /\ timer \in {"Stopped", "Started", "Expired"}
    /\ logic \in {"poll", "send"}
    /\ state \in States
    /\ message \in Messages
    /\ sent \in Seq(Messages)
    /\ heard \in Seq(Parameters)
    /\ typed \in Seq(Lines)
    /\ shown \in Seq(Cards)
    /\ inputs \in 0 .. MaxInputs[paced]
    /\ paced \in BOOLEAN

-----------------------------------------------------------------------------
(* The forms that the other programs accept: the gateway validates number  *)
(* and types of the parameters (DatabaseRequest.cpp), and the main         *)
(* application takes a message without a command for a key.                *)
Forms ==
    [NONE |-> {<<"Enter">>, <<"Cancel">>},
     AUTHENTICATE |-> {<<a>> : a \in Credentials},
     ADD |-> {<<a, b>> : a, b \in Credentials}
             \cup {<<a, b, "Plain">> : a, b \in Credentials},
     REMOVE |-> {<<a, b>> : a, b \in Credentials},
     SET_CLNC |-> {<<a, "Plain", b>> : a, b \in Credentials},
     GUEST_ACCESS_ENABLE |-> {<<a>> : a \in Credentials},
     GUEST_ACCESS_DISABLE |-> {<<a>> : a \in Credentials}]

Types(m) == [i \in DOMAIN m.parameters |-> m.parameters[i].type]

WellFormed(m) == Types(m) \in Forms[m.command]

(* However inputs are interleaved, merged, cut or abandoned, every message *)
(* that is sent has a form its receiver accepts: nothing of a command that *)
(* was abandoned is left in a later one.                                   *)
SentWellFormed ==
    /\ \A i \in DOMAIN sent : WellFormed(sent[i])
    /\ logic = "send" => WellFormed(message)

(* The elements of a sequence at some positions, in their order.          *)
Selection(s, positions) ==
    [k \in 1 .. Cardinality(positions) |->
        s[CHOOSE i \in positions : Cardinality({j \in positions : j <= i}) = k]]

(* What was heard of the given types.                                      *)
Heard(types) ==
    Selection(heard, {i \in DOMAIN heard : heard[i].type \in types})

(* The parameters of a message are the inputs that were heard last, in     *)
(* their order; only commands in between are passed over.                  *)
SentIsRecent ==
    logic = "send" =>
        LET told == Heard(InputTypes \ {"Command"})
            number == Len(message.parameters)
            silent == IF heard[Len(heard)].type = "Enter" /\ message.command # "NONE"
                      THEN 1 ELSE 0
        IN message.parameters =
              SubSeq(told, Len(told) - silent - number + 1, Len(told) - silent)

-----------------------------------------------------------------------------
(* What a user means by a line: what is left after the last backspace, the *)
(* word for ENTER if that is nothing, or the word for BACKSPACE.           *)
LastBackspace(line) ==
    CHOOSE i \in 0 .. Len(line) :
       /\ i # 0 => line[i] = Backspace
       /\ \A j \in i + 1 .. Len(line) : line[j] # Backspace

Meaning(line) ==
    LET text == SubSeq(line, LastBackspace(line) + 1, Len(line) - 1) IN
    IF line = <<Backspace>> THEN BackspaceWord
    ELSE IF text = <<>> THEN EnterWord ELSE text

(* A meaning that the reader gets at once.                                 *)
Fits(line) == Len(Meaning(line)) <= ReadSize

AllFit == \A i \in DOMAIN typed : Fits(typed[i])

(* When a line is only begun after the last one was dealt with, every line *)
(* that fits into the reader's buffer is heard as one input, as meant.     *)
LinesArriveWhole ==
    paced /\ AllFit =>
        LET keyed == Heard(InputTypes \ {"Card"}) IN
        /\ Len(keyed) <= Len(typed)
        /\ \A i \in DOMAIN keyed : keyed[i] = KeypadParameter(Meaning(typed[i]))

(* The characters the keypad holds after p keys of a line.                 *)
Pending(line, p) == p - LastBackspace(SubSeq(line, 1, p))

(* The keypad makes one input of the line: BACKSPACE alone, or keys up to  *)
(* the first ENTER where BACKSPACE always erases something and the buffer  *)
(* never gets full.                                                        *)
MakesOneInput(line) ==
    \/ line = <<Backspace>>
    \/ /\ line # <<>>
       /\ line[Len(line)] = Enter
       /\ \A p \in 1 .. Len(line) - 1 : line[p] # Enter
       /\ \A p \in 0 .. Len(line) - 1 : Pending(line, p) <= ReadSize
       /\ \A p \in 0 .. Len(line) - 1 :
             line[p + 1] = Backspace => Pending(line, p) # 0

(* Of whatever fits, the keypad makes one input.                           *)
LinesAreSimple == \A line \in Lines : Fits(line) => MakesOneInput(line)

(* While all cards have the length the reader takes at once, each one that *)
(* was accepted is heard once, in its turn and whole, however late the     *)
(* input-logic thread comes to read it and whatever is typed meanwhile.    *)
OneReadEach == \A i \in DOMAIN shown : Len(shown[i]) = CardReadSize

CardsArriveWhole ==
    OneReadEach =>
        LET cards == Heard({"Card"}) IN
        /\ Len(cards) <= Len(shown)
        /\ \A i \in DOMAIN cards : cards[i].data = shown[i]
        /\ cardPipe = <<>> => Len(cards) = Len(shown)

(* Once the user stops, what was entered is dealt with, and the card that  *)
(* was accepted last may pass again; if no send() to the main application  *)
(* is for ever.  That he stops is the bound on the inputs: a keypad that   *)
(* always has something shuts the cards out.                               *)
Settled ==
    /\ keypadPipe = <<>> /\ cardPipe = <<>> /\ logic = "poll"
    /\ lastCard # NoCard => timer = "Expired"

EverySendReturns == []<>(logic = "poll")

InputIsDealtWith == EverySendReturns => ((~Settled) ~> Settled)
=============================================================================
