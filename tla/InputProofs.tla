----------------------------- MODULE InputProofs -----------------------------
(***************************************************************************)
(* Theorems about the input path, for every set of lines and cards, every  *)
(* size of the buffers, either pacing and every interleaving of the three  *)
(* threads.                                                                *)
(*                                                                         *)
(* Between two inputs the message buffer holds the command of the state    *)
(* with the parameters given for it (MessageFits), and these are the last  *)
(* inputs that were heard (MessageIsRecent): so what is sent has the form  *)
(* its receiver accepts.  For a line there are three places while the next *)
(* one has to wait: it is being typed, it is in the pipe, or it was heard  *)
(* (LineIsSomewhere).  While all cards have the length of one read, the    *)
(* pipe holds those that were not heard yet, one after the other, and each *)
(* read takes exactly one (CardsInTurn).                                   *)
(***************************************************************************)
EXTENDS InputProps, TLAPS, FiniteSetTheorems, SequenceTheorems

-----------------------------------------------------------------------------
(* The invariants.                                                         *)

(* What the message buffer holds while the thread polls: the command of    *)
(* the state with the parameters that were given for it.                   *)
Given(n) == Len(message.parameters) = n

Credential(i) == message.parameters[i].type \in Credentials

Plain(i) == message.parameters[i].type = "Plain"

Collected ==
    \/ state = "Idle" /\ message = NoMessage
    \/ state = "Add" /\ message.command = "ADD" /\ Given(0)
    \/ state = "AddParam1" /\ message.command = "ADD" /\ Given(1) /\ Credential(1)
    \/ state = "AddParam2" /\ message.command = "ADD"
       /\ Given(2) /\ Credential(1) /\ Credential(2)
    \/ state = "Remove" /\ message.command = "REMOVE" /\ Given(0)
    \/ state = "RemoveParam1" /\ message.command = "REMOVE" /\ Given(1) /\ Credential(1)
    \/ state = "SetClearance" /\ message.command = "SET_CLNC" /\ Given(0)
    \/ state = "SetClearanceParam1" /\ message.command = "SET_CLNC"
       /\ Given(1) /\ Credential(1)
    \/ state = "SetClearanceParam2" /\ message.command = "SET_CLNC"
       /\ Given(2) /\ Credential(1) /\ Plain(2)
    \/ state = "GuestAccessControlParam1" /\ Given(0)
       /\ message.command \in {"GUEST_ACCESS_ENABLE", "GUEST_ACCESS_DISABLE"}

MessageFits ==
    /\ logic = "poll" => Collected
    /\ logic = "send" => state = "Idle" /\ WellFormed(message)

(* The inputs that can be parameters.                                      *)
Told == Heard(InputTypes \ {"Command"})

(* s is a recent part of told: all that follows are the last, silent ones. *)
IsRecent(s, told, silent) ==
    /\ Len(s) + silent <= Len(told)
    /\ \A i \in 1 .. Len(s) : s[i] = told[(Len(told) - silent - Len(s)) + i]

(* The parameters in the buffer are the latest inputs but for some.        *)
Latest(silent) == IsRecent(message.parameters, Told, silent)

(* An ENTER that ended a command is not among its parameters.              *)
EnterEnded == heard[Len(heard)].type = "Enter" /\ message.command # "NONE"

MessageIsRecent ==
    /\ logic = "poll" => Latest(0)
    /\ logic = "send" => /\ EnterEnded => Latest(1)
                         /\ ~EnterEnded => Latest(0)

(* b is where the last backspace among the first p keys of a line is.      *)
ErasedUpTo(line, p, b) ==
    /\ b \in 0 .. p
    /\ b # 0 => line[b] = Backspace
    /\ \A j \in b + 1 .. p : line[j] # Backspace

Keyed == Heard(InputTypes \ {"Card"})

Current == typed[Len(typed)]

AtRest ==
    /\ typing = <<>>
    /\ keypad = <<>>
    /\ keypadPipe = <<>>
    /\ Len(Keyed) = Len(typed)

BeingTyped(p, b) ==
    /\ typing = SubSeq(Current, p + 1, Len(Current))
    /\ ErasedUpTo(Current, p, b)
    /\ keypad = SubSeq(Current, b + 1, p)
    /\ keypadPipe = <<>>
    /\ Len(Keyed) + 1 = Len(typed)

InThePipe ==
    /\ typing = <<>>
    /\ keypad = <<>>
    /\ keypadPipe = Meaning(Current)
    /\ Len(Keyed) + 1 = Len(typed)

(* Where the last line is.                                                 *)
LineIsSomewhere ==
    \/ AtRest
    \/ \E p \in 0 .. Len(Current) - 1, b \in 0 .. Len(Current) : BeingTyped(p, b)
    \/ InThePipe

HeardAsMeant ==
    \A i \in 1 .. Len(Keyed) : Keyed[i] = KeypadParameter(Meaning(typed[i]))

LinesInv ==
    paced /\ AllFit => LineIsSomewhere /\ HeardAsMeant

-----------------------------------------------------------------------------
(* Selections from sequences.                                              *)

Rank(I, i) == Cardinality({j \in I : j <= i})

(* The ranks of a finite set of numbers are 1, 2 and so on, each once.     *)
LEMMA RanksAreUnique ==
    ASSUME NEW I \in SUBSET Int, IsFiniteSet(I)
    PROVE  /\ \A i \in I : Rank(I, i) \in 1 .. Cardinality(I)
           /\ \A i, j \in I : Rank(I, i) = Rank(I, j) => i = j
           /\ \A k \in 1 .. Cardinality(I) : \E i \in I : Rank(I, i) = k
<1> DEFINE Upto(i) == {j \in I : j <= i}
<1>1. ASSUME NEW i \in I
      PROVE  /\ IsFiniteSet(Upto(i))
             /\ Cardinality(Upto(i)) \in 1 .. Cardinality(I)
  <2>1. Upto(i) \in SUBSET I /\ i \in Upto(i)
    OBVIOUS
  <2>2. IsFiniteSet(Upto(i)) /\ Cardinality(Upto(i)) <= Cardinality(I)
    BY <2>1, FS_Subset
  <2>3. Cardinality(Upto(i)) \in Nat /\ Cardinality(I) \in Nat
    BY <2>2, FS_CardinalityType
  <2>4. Cardinality(Upto(i)) # 0
    BY <2>1, <2>2, FS_EmptySet
  <2> QED
    BY <2>2, <2>3, <2>4
<1>2. ASSUME NEW i \in I, NEW j \in I, i < j
      PROVE  Cardinality(Upto(i)) # Cardinality(Upto(j))
  <2>1. i \in Int /\ j \in Int /\ \A m \in I : m \in Int
    OBVIOUS
  <2>2. j \in Upto(j) /\ j \notin Upto(i)
    BY <1>2, <2>1
  <2>3. \A m \in I : m <= i => m <= j
    BY <1>2, <2>1
  <2>4. Upto(i) \in SUBSET Upto(j)
    BY <2>3
  <2> QED
    BY <2>2, <2>4, <1>1, FS_Subset
<1>3. \A i \in I : Rank(I, i) = Cardinality(Upto(i))
  BY DEF Rank
<1>4. \A i, j \in I : Rank(I, i) = Rank(I, j) => i = j
  <2> SUFFICES ASSUME NEW i \in I, NEW j \in I, Rank(I, i) = Rank(I, j)
               PROVE  i = j
    OBVIOUS
  <2>1. i \in Int /\ j \in Int
    OBVIOUS
  <2>2. ~(i < j) /\ ~(j < i)
    BY <1>2, <1>3
  <2> QED
    BY <2>1, <2>2
<1>5. \A i \in I : Rank(I, i) \in 1 .. Cardinality(I)
  BY <1>1, <1>3
<1>6. \A k \in 1 .. Cardinality(I) : \E i \in I : Rank(I, i) = k
  <2> DEFINE T == 1 .. Cardinality(I)
             f == [i \in I |-> Rank(I, i)]
  <2>1. Cardinality(I) \in Nat
    BY FS_CardinalityType
  <2>2. IsFiniteSet(T) /\ Cardinality(T) = Cardinality(I)
    BY <2>1, FS_Interval
  <2>3. f \in Injection(I, T)
    BY <1>4, <1>5 DEF Injection, IsInjective
  <2>4. f \in Surjection(I, T)
    BY <2>2, <2>3, FS_Injection
  <2> QED
    BY <2>4 DEF Surjection
<1> QED
  BY <1>4, <1>5, <1>6

(* A new element does not change the selection of earlier ones, and comes  *)
(* last in a selection that includes it.                                   *)
LEMMA SelectionOfAppend ==
    ASSUME NEW S, NEW s \in Seq(S), NEW x \in S, NEW I \in SUBSET (1 .. Len(s))
    PROVE  /\ Selection(s, I) \in Seq(S)
           /\ Selection(Append(s, x), I) = Selection(s, I)
           /\ Selection(Append(s, x), I \cup {Len(s) + 1}) = Append(Selection(s, I), x)
<1> DEFINE n == Len(s)
           J == I \cup {n + 1}
           c == Cardinality(I)
           At(P, k) == CHOOSE i \in P : Rank(P, i) = k
<1>1. n \in Nat /\ I \in SUBSET Int /\ J \in SUBSET Int /\ n + 1 \notin I
  <2>1. n \in Nat
    BY LenProperties
  <2> HIDE DEF n
  <2>2. I \in SUBSET Int
    BY DEF n
  <2>3. n + 1 \notin I
    BY <2>1 DEF n
  <2> QED
    BY <2>1, <2>2, <2>3
<1>2. IsFiniteSet(I)
  <2>1. IsFiniteSet(1 .. n)
    BY <1>1, FS_Interval
  <2> QED
    BY <2>1, FS_Subset
<1>3. IsFiniteSet(J) /\ Cardinality(J) = c + 1 /\ c \in Nat
  BY <1>1, <1>2, FS_AddElement, FS_CardinalityType
<1>20. \A i, j \in J : Rank(J, i) = Rank(J, j) => i = j
  <2> HIDE DEF J, c
  <2> QED
    BY <1>1, <1>3, RanksAreUnique
<1>4. \A i \in I : Rank(J, i) = Rank(I, i)
  <2> SUFFICES ASSUME NEW i \in I
               PROVE  {j \in J : j <= i} = {j \in I : j <= i}
    BY DEF Rank
  <2> QED
    BY <1>1
<1>5. Rank(J, n + 1) = c + 1
  <2>1. {j \in J : j <= n + 1} = J
    BY <1>1
  <2> QED
    BY <1>3, <2>1 DEF Rank
<1>6. ASSUME NEW k \in 1 .. c
      PROVE  At(I, k) \in I /\ Rank(I, At(I, k)) = k /\ At(J, k) = At(I, k)
  <2>1. At(I, k) \in I /\ Rank(I, At(I, k)) = k
    BY <1>1, <1>2, RanksAreUnique
  <2>2. At(I, k) \in J /\ Rank(J, At(I, k)) = k
    BY <2>1, <1>4
  <2>3. At(J, k) \in J /\ Rank(J, At(J, k)) = k
    BY <2>2
  <2> HIDE DEF At, J
  <2>4. At(J, k) = At(I, k)
    BY <2>2, <2>3, <1>20
  <2> QED
    BY <2>1, <2>4
<1>7. At(J, c + 1) = n + 1
  <2>1. n + 1 \in J
    OBVIOUS
  <2>2. At(J, c + 1) \in J /\ Rank(J, At(J, c + 1)) = c + 1
    BY <2>1, <1>5
  <2> HIDE DEF At, J
  <2> QED
    BY <2>1, <2>2, <1>5, <1>20
<1>8. \A t, P : Selection(t, P) = [k \in 1 .. Cardinality(P) |-> t[At(P, k)]]
  BY DEF Selection, Rank
<1>9. Selection(s, I) \in Seq(S) /\ Len(Selection(s, I)) = c
  <2> HIDE DEF At
  <2>1. \A i \in 1 .. Len(s) : s[i] \in S
    BY ElementOfSeq
  <2>2. \A k \in 1 .. c : s[At(I, k)] \in S
    BY <2>1, <1>6
  <2> QED
    BY <2>2, <1>3, <1>8
<1>10. \A i \in I : Append(s, x)[i] = s[i]
  OBVIOUS
<1>11. Selection(Append(s, x), I) = Selection(s, I)
  <2> HIDE DEF At
  <2> QED
    BY <1>6, <1>8, <1>10
<1>12. Selection(Append(s, x), J) = Append(Selection(s, I), x)
  <2> DEFINE sel == Selection(s, I)
             r == Append(sel, x)
  <2>1. /\ Selection(Append(s, x), J) = [k \in 1 .. c + 1 |-> Append(s, x)[At(J, k)]]
        /\ sel = [k \in 1 .. c |-> s[At(I, k)]]
    BY <1>3, <1>8
  <2>2. sel \in Seq(S) /\ Len(sel) = c
    BY <1>9
  <2> HIDE DEF sel, At, J, c
  <2>3. /\ r \in Seq(S) /\ Len(r) = c + 1
        /\ \A k \in 1 .. c : r[k] = sel[k]
        /\ r[c + 1] = x
    BY <2>2, AppendProperties
  <2>4. Append(s, x)[n + 1] = x
    BY AppendProperties
  <2> HIDE DEF r, n
  <2>5. r = [k \in 1 .. c + 1 |-> r[k]]
    BY <2>3, LenProperties
  <2>6. \A k \in 1 .. c : Append(s, x)[At(J, k)] = r[k]
    BY <1>3, <1>6, <1>10, <2>1, <2>3
  <2>7. Append(s, x)[At(J, c + 1)] = r[c + 1]
    BY <1>7, <2>3, <2>4
  <2>8. \A k \in 1 .. c + 1 : Append(s, x)[At(J, k)] = r[k]
    <3> SUFFICES ASSUME NEW k \in 1 .. c + 1
                 PROVE  Append(s, x)[At(J, k)] = r[k]
      OBVIOUS
    <3>1. k \in 1 .. c \/ k = c + 1
      BY <1>3
    <3> QED
      BY <3>1, <2>6, <2>7
  <2>9. Selection(Append(s, x), J) = r
    BY <2>1, <2>5, <2>8
  <2> QED
    BY <2>9 DEF r, sel
<1> QED
  BY <1>9, <1>11, <1>12

(* What an input adds to what was heard.                                   *)
LEMMA HeardGrows ==
    ASSUME NEW types, heard \in Seq(Parameters), NEW p \in Parameters,
           heard' = Append(heard, p)
    PROVE  /\ Heard(types) \in Seq(Parameters)
           /\ p.type \in types => Heard(types)' = Append(Heard(types), p)
           /\ p.type \notin types => Heard(types)' = Heard(types)
<1> DEFINE I == {i \in DOMAIN heard : heard[i].type \in types}
           n == Len(heard)
<1>1. I \in SUBSET (1 .. n) /\ n \in Nat
  OBVIOUS
<1>2. /\ DOMAIN Append(heard, p) = 1 .. n + 1
      /\ \A i \in 1 .. n : Append(heard, p)[i] = heard[i]
      /\ Append(heard, p)[n + 1] = p
  BY AppendProperties
<1>3. {i \in DOMAIN Append(heard, p) : Append(heard, p)[i].type \in types}
      = IF p.type \in types THEN I \cup {n + 1} ELSE I
  BY <1>1, <1>2
<1>4. Heard(types) = Selection(heard, I)
  BY DEF Heard
<1>5. Heard(types)' =
      Selection(Append(heard, p), IF p.type \in types THEN I \cup {n + 1} ELSE I)
  BY <1>3 DEF Heard
<1> HIDE DEF I, n
<1>6. /\ Selection(heard, I) \in Seq(Parameters)
      /\ Selection(Append(heard, p), I) = Selection(heard, I)
      /\ Selection(Append(heard, p), I \cup {n + 1}) = Append(Selection(heard, I), p)
  BY <1>1, SelectionOfAppend DEF n
<1> QED
  BY <1>4, <1>5, <1>6

LEMMA SomeParameter == Parameter("Enter", <<>>) \in Parameters
BY EmptySeq DEF Parameter, Parameters, InputTypes, Texts

LEMMA HeardType ==
    ASSUME NEW types, heard \in Seq(Parameters)
    PROVE  Heard(types) \in Seq(Parameters)
<1>1. {i \in DOMAIN heard : heard[i].type \in types} \in SUBSET (1 .. Len(heard))
  BY LenProperties
<1> QED
  BY <1>1, SomeParameter, SelectionOfAppend DEF Heard

(* Before anything was heard.                                              *)
LEMMA NothingHeard ==
    ASSUME heard = <<>>
    PROVE  \A types : Heard(types) = <<>>
<1> SUFFICES ASSUME NEW types
             PROVE  Heard(types) = <<>>
  OBVIOUS
<1>1. {i \in DOMAIN heard : heard[i].type \in types} = {}
  OBVIOUS
<1>2. Cardinality({}) = 0
  BY FS_EmptySet
<1> QED
  BY <1>1, <1>2 DEF Heard, Selection

-----------------------------------------------------------------------------
(* Inputs and transitions.                                                 *)

LEMMA SeqOfElements ==
    ASSUME NEW S, NEW T, NEW s \in Seq(S), \A i \in 1 .. Len(s) : s[i] \in T
    PROVE  s \in Seq(T)
BY LenProperties, SeqDef

(* The words and what is typed are texts.                                  *)
LEMMA TextFacts ==
    /\ EnterWord \in Texts /\ Len(EnterWord) = 5
    /\ BackspaceWord \in Texts /\ Len(BackspaceWord) = 6
    /\ Seq(Characters) \subseteq Texts
    /\ ReadSize \in Nat /\ ReadSize >= 6
<1> DEFINE Letters == Characters \cup {EnterWord[i] : i \in DOMAIN EnterWord}
                      \cup {BackspaceWord[i] : i \in DOMAIN BackspaceWord}
<1>1. Texts = Seq(Letters)
  BY DEF Texts
<1>2. EnterWord \in Seq(Letters) /\ Len(EnterWord) = 5
  <2>1. EnterWord \in Seq({"E", "N", "T", "R"}) /\ Len(EnterWord) = 5
    BY DEF EnterWord
  <2>2. \A i \in 1 .. Len(EnterWord) : EnterWord[i] \in Letters
    BY <2>1, LenProperties
  <2> HIDE DEF Letters
  <2> QED
    BY <2>1, <2>2, SeqOfElements
<1>3. BackspaceWord \in Seq(Letters) /\ Len(BackspaceWord) = 6
  <2>1. BackspaceWord \in Seq({"B", "C", "K", "S", "P"}) /\ Len(BackspaceWord) = 6
    BY DEF BackspaceWord
  <2>2. \A i \in 1 .. Len(BackspaceWord) : BackspaceWord[i] \in Letters
    BY <2>1, LenProperties
  <2> HIDE DEF Letters
  <2> QED
    BY <2>1, <2>2, SeqOfElements
<1>4. Seq(Characters) \subseteq Seq(Letters)
  <2>1. Characters \subseteq Letters
    OBVIOUS
  <2> HIDE DEF Letters
  <2> QED
    BY <2>1, SeqMonotonic
<1>5. ReadSize \in Nat /\ ReadSize >= 6
  BY <1>3, InputAssumption DEF ReadSize
<1> QED
  BY <1>1, <1>2, <1>3, <1>4, <1>5

(* What the reader makes of a text is an input, and none of a card.        *)
LEMMA KeypadParameterType ==
    ASSUME NEW text \in Texts, text # <<>>
    PROVE  KeypadParameter(text) \in Parameters /\ KeypadParameter(text).type # "Card"
<1>1. <<>> \in Texts /\ Tail(text) \in Texts
  BY HeadTailProperties, EmptySeq DEF Texts
<1> DEFINE P(type, data) == [type |-> type, data |-> data]
<1>2. \A type \in InputTypes, data \in Texts : P(type, data) \in Parameters
  BY DEF Parameters
<1>3. \/ KeypadParameter(text) = P("Enter", <<>>)
      \/ KeypadParameter(text) = P("Cancel", <<>>)
      \/ KeypadParameter(text) = P("PIN", Tail(text))
      \/ KeypadParameter(text) = P("Command", Tail(text))
      \/ KeypadParameter(text) = P("Plain", text)
  BY DEF KeypadParameter, Parameter
<1>4. \A type, data : P(type, data).type = type
  OBVIOUS
<1> HIDE DEF P
<1>5. {"Enter", "Cancel", "PIN", "Command", "Plain"} \subseteq InputTypes
  BY DEF InputTypes
<1> QED
  BY <1>1, <1>2, <1>3, <1>4, <1>5

LEMMA CardParameterType ==
    ASSUME NEW text \in Seq(CardCharacters)
    PROVE  /\ CardParameter(text) \in Parameters
           /\ CardParameter(text).type = "Card"
           /\ CardParameter(text).data = text
BY DEF CardParameter, Parameter, Parameters, InputTypes

(* The event of an input is its type unless it is a command.               *)
CommandNames == {"ADD", "REMOVE", "SET_CLNC", "GUEST_ACCESS_ENABLE", "GUEST_ACCESS_DISABLE"}

LEMMA EventFacts ==
    ASSUME NEW p \in Parameters
    PROVE  /\ p.type # "Command" => Event(p) = p.type
           /\ p.type = "Command" => Event(p) \in CommandNames \cup {NoEvent}
           /\ p.type \in InputTypes
<1>1. p.type \in InputTypes
  BY DEF Parameters
<1>2. DOMAIN CommandEvents = CommandNames
  BY DEF CommandEvents, CommandNames
<1>3. ASSUME p.type = "Command", NEW c \in DOMAIN CommandEvents, CommandEvents[c] = p.data
      PROVE  (CHOOSE d \in DOMAIN CommandEvents : CommandEvents[d] = p.data) \in CommandNames
  BY <1>2, <1>3
<1> QED
  BY <1>1, <1>3 DEF Event

(* A row of the table.                                                     *)
Row(t, from, events, to, action) ==
    t.state = from /\ t.event \in events /\ t.next = to /\ t.action = action

LEMMA RowOfTransition ==
    ASSUME NEW from, NEW events, NEW to, NEW action, NEW t \in Transition(from, events, to, action)
    PROVE  Row(t, from, events, to, action)
BY DEF Transition, Row

(* The rows, state by state.                                               *)
LEMMA RowFacts ==
    ASSUME NEW t \in Transitions
    PROVE  \/ Row(t, "Idle", {"ADD"}, "Add", "create")
           \/ Row(t, "Idle", {"REMOVE"}, "Remove", "create")
           \/ Row(t, "Idle", {"SET_CLNC"}, "SetClearance", "create")
           \/ Row(t, "Idle", {"GUEST_ACCESS_ENABLE", "GUEST_ACCESS_DISABLE"},
                  "GuestAccessControlParam1", "create")
           \/ Row(t, "Idle", Credentials, "Idle", "authenticate")
           \/ Row(t, "Idle", {"Enter", "Cancel"}, "Idle", "appendAndSend")
           \/ Row(t, "Add", Credentials, "AddParam1", "append")
           \/ Row(t, "AddParam1", Credentials, "AddParam2", "append")
           \/ Row(t, "AddParam2", {"Plain"}, "Idle", "appendAndSend")
           \/ Row(t, "AddParam2", {"Enter"}, "Idle", "send")
           \/ Row(t, "Remove", Credentials, "RemoveParam1", "append")
           \/ Row(t, "RemoveParam1", Credentials, "Idle", "appendAndSend")
           \/ Row(t, "SetClearance", Credentials, "SetClearanceParam1", "append")
           \/ Row(t, "SetClearanceParam1", {"Plain"}, "SetClearanceParam2", "append")
           \/ Row(t, "SetClearanceParam2", Credentials, "Idle", "appendAndSend")
           \/ Row(t, "GuestAccessControlParam1", Credentials, "Idle", "appendAndSend")
           \/ t.next = "Idle" /\ t.action \in {"warn", "cancel"}
<1>1. \/ t \in Transition("Idle", {"ADD"}, "Add", "create")
      \/ t \in Transition("Idle", {"REMOVE"}, "Remove", "create")
      \/ t \in Transition("Idle", {"SET_CLNC"}, "SetClearance", "create")
      \/ t \in Transition("Idle", {"GUEST_ACCESS_ENABLE", "GUEST_ACCESS_DISABLE"},
             "GuestAccessControlParam1", "create")
      \/ t \in Transition("Idle", Credentials, "Idle", "authenticate")
      \/ t \in Transition("Idle", {"Enter", "Cancel"}, "Idle", "appendAndSend")
      \/ t \in Transition("Add", Credentials, "AddParam1", "append")
      \/ t \in Transition("AddParam1", Credentials, "AddParam2", "append")
      \/ t \in Transition("AddParam2", {"Plain"}, "Idle", "appendAndSend")
      \/ t \in Transition("AddParam2", {"Enter"}, "Idle", "send")
      \/ t \in Transition("Remove", Credentials, "RemoveParam1", "append")
      \/ t \in Transition("RemoveParam1", Credentials, "Idle", "appendAndSend")
      \/ t \in Transition("SetClearance", Credentials, "SetClearanceParam1", "append")
      \/ t \in Transition("SetClearanceParam1", {"Plain"}, "SetClearanceParam2", "append")
      \/ t \in Transition("SetClearanceParam2", Credentials, "Idle", "appendAndSend")
      \/ t \in Transition("GuestAccessControlParam1", Credentials, "Idle", "appendAndSend")
      \/ \E from, events : t \in Transition(from, events, "Idle", "warn")
      \/ \E from : t \in Transition(from, {"Cancel"}, "Idle", "cancel")
  BY DEF Transitions, Cancelled
<1>2. \A from, events :
         /\ t \in Transition(from, events, "Idle", "warn") => t.next = "Idle" /\ t.action = "warn"
         /\ t \in Transition(from, events, "Idle", "cancel") => t.next = "Idle" /\ t.action = "cancel"
  BY RowOfTransition DEF Row
<1>3. \A from, events, to, action :
         t \in Transition(from, events, to, action) => Row(t, from, events, to, action)
  BY RowOfTransition
<1> QED
  BY <1>1, <1>2, <1>3

(* Whatever the state, there is a row for every input but a command.       *)
StateNames ==
    {"Idle", "Add", "AddParam1", "AddParam2", "Remove", "RemoveParam1", "SetClearance",
     "SetClearanceParam1", "SetClearanceParam2", "GuestAccessControlParam1"}

LEMMA RowsOfTransition ==
    ASSUME NEW from, NEW events, NEW to, NEW action,
           Transition(from, events, to, action) \subseteq Transitions, NEW e \in events
    PROVE  \E t \in Transitions : t.state = from /\ t.event = e
<1> DEFINE t == [state |-> from, event |-> e, next |-> to, action |-> action]
<1>1. t \in Transition(from, events, to, action)
  BY DEF Transition
<1>2. t \in Transitions
  BY <1>1
<1> QED
  BY <1>2

LEMMA EveryStateHearsAll ==
    ASSUME NEW s \in StateNames, NEW e \in InputTypes \ {"Command"}
    PROVE  \E t \in Transitions : t.state = s /\ t.event = e
<1> DEFINE Has(from, events) ==
              \E to, action : Transition(from, events, to, action) \subseteq Transitions
<1>1. \A from, events : Has(from, events) =>
         \A f \in events : \E t \in Transitions : t.state = from /\ t.event = f
  <2> SUFFICES ASSUME NEW from, NEW events, Has(from, events), NEW f \in events
               PROVE  \E t \in Transitions : t.state = from /\ t.event = f
    OBVIOUS
  <2>1. PICK to, action : Transition(from, events, to, action) \subseteq Transitions
    OBVIOUS
  <2> QED
    BY <2>1, RowsOfTransition
<1>2. /\ Has("Idle", Credentials)
      /\ Has("Idle", {"Enter", "Cancel"})
      /\ Has("Idle", {"Plain"})
  <2>1. /\ Transition("Idle", Credentials, "Idle", "authenticate") \subseteq Transitions
        /\ Transition("Idle", {"Enter", "Cancel"}, "Idle", "appendAndSend") \subseteq Transitions
        /\ Transition("Idle", {"Plain"}, "Idle", "warn") \subseteq Transitions
    BY DEF Transitions
  <2> QED
    BY <2>1
<1>3. \A from \in StateNames \ {"Idle"} : Has(from, {"Cancel"})
  <2>1. \A from \in StateNames \ {"Idle"} :
           Transition(from, {"Cancel"}, "Idle", "cancel") \subseteq Transitions
    BY DEF Transitions, Cancelled, StateNames
  <2> QED
    BY <2>1
<1>4. \A from \in {"Add", "AddParam1", "Remove", "RemoveParam1", "SetClearance",
                   "SetClearanceParam2", "GuestAccessControlParam1"} :
         Has(from, {"Enter", "Plain"})
  <2>1. \A from \in {"Add", "AddParam1", "Remove", "RemoveParam1", "SetClearance",
                     "SetClearanceParam2", "GuestAccessControlParam1"} :
           Transition(from, {"Enter", "Plain"}, "Idle", "warn") \subseteq Transitions
    BY DEF Transitions
  <2> QED
    BY <2>1
<1>5. /\ Has("AddParam2", {"Plain"})
      /\ Has("AddParam2", {"Enter"})
      /\ Has("SetClearanceParam1", {"Plain"})
      /\ Has("SetClearanceParam1", {"Enter"} \cup Credentials)
  <2>1. /\ Transition("AddParam2", {"Plain"}, "Idle", "appendAndSend") \subseteq Transitions
        /\ Transition("AddParam2", {"Enter"}, "Idle", "send") \subseteq Transitions
        /\ Transition("SetClearanceParam1", {"Plain"}, "SetClearanceParam2", "append")
              \subseteq Transitions
        /\ Transition("SetClearanceParam1", {"Enter"} \cup Credentials, "Idle", "warn")
              \subseteq Transitions
    BY DEF Transitions
  <2> QED
    BY <2>1
<1>6. /\ Has("Add", Credentials)
      /\ Has("AddParam1", Credentials)
      /\ Has("AddParam2", Credentials)
      /\ Has("Remove", Credentials)
      /\ Has("RemoveParam1", Credentials)
      /\ Has("SetClearance", Credentials)
      /\ Has("SetClearanceParam2", Credentials)
      /\ Has("GuestAccessControlParam1", Credentials)
  <2>1. /\ Transition("Add", Credentials, "AddParam1", "append") \subseteq Transitions
        /\ Transition("AddParam1", Credentials, "AddParam2", "append") \subseteq Transitions
        /\ Transition("AddParam2", Credentials, "Idle", "warn") \subseteq Transitions
        /\ Transition("Remove", Credentials, "RemoveParam1", "append") \subseteq Transitions
        /\ Transition("RemoveParam1", Credentials, "Idle", "appendAndSend") \subseteq Transitions
        /\ Transition("SetClearance", Credentials, "SetClearanceParam1", "append")
              \subseteq Transitions
        /\ Transition("SetClearanceParam2", Credentials, "Idle", "appendAndSend")
              \subseteq Transitions
        /\ Transition("GuestAccessControlParam1", Credentials, "Idle", "appendAndSend")
              \subseteq Transitions
    BY DEF Transitions
  <2> QED
    BY <2>1
<1> HIDE DEF Has
<1>7. \E events : Has(s, events) /\ e \in events
  <2>1. e \in Credentials \cup {"Enter", "Cancel", "Plain"}
    BY DEF Credentials, InputTypes
  <2>2. "PIN" \in Credentials /\ "Card" \in Credentials
    BY DEF Credentials
  <2>3. CASE s = "Idle"
    BY <2>1, <2>3, <1>2
  <2>4. CASE e = "Cancel" /\ s # "Idle"
    BY <2>4, <1>3
  <2>5. CASE e \in {"Enter", "Plain"} /\ s # "Idle"
    BY <2>5, <1>4, <1>5 DEF StateNames
  <2>6. CASE e \in Credentials /\ s # "Idle"
    BY <2>6, <1>5, <1>6 DEF StateNames
  <2> QED
    BY <2>1, <2>3, <2>4, <2>5, <2>6
<1> QED
  BY <1>1, <1>7

LEMMA StatesAreNames == States = StateNames
<1>1. \A t, from, events, to, action : t \in Transition(from, events, to, action) => t.state = from
  BY RowOfTransition DEF Row
<1>2. \A t \in Transitions : t.state \in StateNames
  BY <1>1 DEF Transitions, Cancelled, StateNames
<1>3. \A s \in StateNames : \E t \in Transitions : t.state = s
  <2>1. "Plain" \in InputTypes \ {"Command"}
    BY DEF InputTypes
  <2> QED
    BY <2>1, EveryStateHearsAll
<1> QED
  BY <1>2, <1>3 DEF States

-----------------------------------------------------------------------------
(* Messages.                                                               *)

LEMMA MessageFields ==
    ASSUME NEW m \in Messages
    PROVE  m.command \in Commands /\ m.parameters \in Seq(Parameters)
BY DEF Messages

LEMMA NoMessageFields ==
    /\ NoMessage \in Messages
    /\ NoMessage.command = "NONE"
    /\ NoMessage.parameters = <<>>
BY DEF NoMessage, Messages, Commands

LEMMA CreateCommandFields ==
    ASSUME NEW c \in Commands
    PROVE  /\ createCommand(c) \in Messages
           /\ createCommand(c).command = c
           /\ createCommand(c).parameters = <<>>
<1>1. createCommand(c) = [command |-> c, parameters |-> <<>>]
  BY DEF createCommand, NoMessage
<1>2. <<>> \in Seq(Parameters)
  OBVIOUS
<1> QED
  BY <1>1, <1>2 DEF Messages

LEMMA AppendParameterFields ==
    ASSUME NEW m \in Messages, NEW p \in Parameters
    PROVE  /\ appendParameter(m, p) \in Messages
           /\ appendParameter(m, p).command = m.command
           /\ appendParameter(m, p).parameters = Append(m.parameters, p)
BY DEF appendParameter, Messages

(* What each action leaves in the message buffer.                          *)
LEMMA ActionResults ==
    ASSUME NEW p
    PROVE  /\ ActionResult("create", p) = createCommand(Event(p))
           /\ ActionResult("authenticate", p)
                 = appendParameter(createCommand("AUTHENTICATE"), p)
           /\ ActionResult("append", p) = appendParameter(message, p)
           /\ ActionResult("appendAndSend", p) = appendParameter(message, p)
           /\ ActionResult("send", p) = message
           /\ ActionResult("warn", p) = NoMessage
           /\ ActionResult("cancel", p) = NoMessage
BY DEF ActionResult

(* The forms of messages with one, two and three parameters.               *)
LEMMA TypesOfMessage ==
    ASSUME NEW m \in Messages
    PROVE  /\ Len(m.parameters) = 1 => Types(m) = <<m.parameters[1].type>>
           /\ Len(m.parameters) = 2 =>
                 Types(m) = <<m.parameters[1].type, m.parameters[2].type>>
           /\ Len(m.parameters) = 3 =>
                 Types(m) = <<m.parameters[1].type, m.parameters[2].type,
                              m.parameters[3].type>>
<1>1. m.parameters \in Seq(Parameters)
  BY MessageFields
<1>2. DOMAIN m.parameters = 1 .. Len(m.parameters)
  BY <1>1, LenProperties
<1>3. Types(m) = [i \in 1 .. Len(m.parameters) |-> m.parameters[i].type]
  BY <1>2 DEF Types
<1> QED
  BY <1>3

LEMMA FormsOfCommands ==
    /\ Forms["NONE"] = {<<"Enter">>, <<"Cancel">>}
    /\ \A c \in {"AUTHENTICATE", "GUEST_ACCESS_ENABLE", "GUEST_ACCESS_DISABLE"} :
          \A a \in Credentials : <<a>> \in Forms[c]
    /\ \A a, b \in Credentials : <<a, b>> \in Forms["ADD"] /\ <<a, b>> \in Forms["REMOVE"]
    /\ \A a, b \in Credentials : <<a, b, "Plain">> \in Forms["ADD"]
    /\ \A a, b \in Credentials : <<a, "Plain", b>> \in Forms["SET_CLNC"]
<1>1. Forms["NONE"] = {<<"Enter">>, <<"Cancel">>}
  BY DEF Forms
<1>2. /\ Forms["AUTHENTICATE"] = {<<a>> : a \in Credentials}
      /\ Forms["GUEST_ACCESS_ENABLE"] = {<<a>> : a \in Credentials}
      /\ Forms["GUEST_ACCESS_DISABLE"] = {<<a>> : a \in Credentials}
  BY DEF Forms
<1>3. /\ Forms["ADD"] = {<<a, b>> : a, b \in Credentials}
                        \cup {<<a, b, "Plain">> : a, b \in Credentials}
      /\ Forms["REMOVE"] = {<<a, b>> : a, b \in Credentials}
      /\ Forms["SET_CLNC"] = {<<a, "Plain", b>> : a, b \in Credentials}
  BY DEF Forms
<1> QED
  BY <1>1, <1>2, <1>3

(* Which messages are well-formed.                                         *)
LEMMA WellFormedMessages ==
    ASSUME NEW m \in Messages
    PROVE  /\ m.command = "NONE" /\ Len(m.parameters) = 1
                 /\ m.parameters[1].type \in {"Enter", "Cancel"} => WellFormed(m)
           /\ m.command \in {"AUTHENTICATE", "GUEST_ACCESS_ENABLE", "GUEST_ACCESS_DISABLE"}
                 /\ Len(m.parameters) = 1 /\ m.parameters[1].type \in Credentials
                 => WellFormed(m)
           /\ m.command \in {"ADD", "REMOVE"} /\ Len(m.parameters) = 2
                 /\ m.parameters[1].type \in Credentials
                 /\ m.parameters[2].type \in Credentials => WellFormed(m)
           /\ m.command = "ADD" /\ Len(m.parameters) = 3
                 /\ m.parameters[1].type \in Credentials
                 /\ m.parameters[2].type \in Credentials
                 /\ m.parameters[3].type = "Plain" => WellFormed(m)
           /\ m.command = "SET_CLNC" /\ Len(m.parameters) = 3
                 /\ m.parameters[1].type \in Credentials
                 /\ m.parameters[2].type = "Plain"
                 /\ m.parameters[3].type \in Credentials => WellFormed(m)
BY TypesOfMessage, FormsOfCommands DEF WellFormed

-----------------------------------------------------------------------------
(* What an input does to the message.                                      *)

LEMMA ProcessEventType ==
    ASSUME NEW p \in Parameters, ProcessEvent(p), logic = "poll",
           state \in States, message \in Messages, heard \in Seq(Parameters)
    PROVE  /\ state' \in States /\ message' \in Messages /\ logic' \in {"poll", "send"}
           /\ heard' = Append(heard, p) /\ heard' \in Seq(Parameters)
           /\ sent' = sent
<1>1. heard' = Append(heard, p) /\ sent' = sent
  BY DEF ProcessEvent
<1>2. heard' \in Seq(Parameters)
  BY <1>1, AppendProperties
<1>3. CASE UNCHANGED <<logic, state, message>>
  BY <1>1, <1>2, <1>3
<1>4. CASE ~UNCHANGED <<logic, state, message>>
  <2>1. PICK t \in Transitions :
             /\ t.event = Event(p)
             /\ state' = t.next
             /\ message' = ActionResult(t.action, p)
             /\ logic' \in {"poll", "send"}
    BY <1>4 DEF ProcessEvent
  <2>2. t.next \in States
    BY RowFacts, StatesAreNames DEF Row, StateNames
  <2>3. t.action = "create" => Event(p) \in Commands
    BY <2>1, RowFacts DEF Row, Commands, CommandEvents
  <2>4. t.action \in {"create", "authenticate", "append", "appendAndSend", "send",
                      "warn", "cancel"}
    BY RowFacts DEF Row
  <2>5. "AUTHENTICATE" \in Commands
    BY DEF Commands
  <2>6. ActionResult(t.action, p) \in Messages
    BY <2>3, <2>4, <2>5, ActionResults, CreateCommandFields, AppendParameterFields,
       NoMessageFields
  <2> QED
    BY <1>1, <1>2, <2>1, <2>2, <2>6
<1> QED
  BY <1>3, <1>4

(* A message and one more parameter.                                       *)
LEMMA OneMore ==
    ASSUME NEW m \in Messages, NEW p \in Parameters, NEW r, r = appendParameter(m, p)
    PROVE  /\ Len(m.parameters) \in Nat
           /\ r \in Messages
           /\ r.command = m.command
           /\ Len(r.parameters) = Len(m.parameters) + 1
           /\ \A i \in 1 .. Len(m.parameters) : r.parameters[i] = m.parameters[i]
           /\ r.parameters[Len(m.parameters) + 1] = p
<1> DEFINE s == m.parameters
<1>1. s \in Seq(Parameters)
  BY MessageFields
<1>2. r \in Messages /\ r.command = m.command /\ r.parameters = Append(s, p)
  BY AppendParameterFields
<1> HIDE DEF s
<1>3. /\ Len(s) \in Nat
      /\ Len(Append(s, p)) = Len(s) + 1
      /\ \A i \in 1 .. Len(s) : Append(s, p)[i] = s[i]
      /\ Append(s, p)[Len(s) + 1] = p
  BY <1>1, AppendProperties, LenProperties
<1> QED
  BY <1>2, <1>3 DEF s

-----------------------------------------------------------------------------
(* The messages that are sent are well-formed.                             *)

LEMMA ProcessEventFits ==
    ASSUME NEW p \in Parameters, ProcessEvent(p), logic = "poll", state \in States,
           message \in Messages, MessageFits
    PROVE  MessageFits'
<1>1. Collected
  BY DEF MessageFits
<1>2. CASE UNCHANGED <<logic, state, message>>
  BY <1>2 DEF MessageFits, Collected, Given, Credential, Plain, WellFormed, Types
<1>3. CASE ~UNCHANGED <<logic, state, message>>
  <2>1. PICK t \in Transitions :
             /\ t.state = state
             /\ t.event = Event(p)
             /\ state' = t.next
             /\ message' = ActionResult(t.action, p)
             /\ logic' = IF t.action \in Sending THEN "send" ELSE "poll"
    BY <1>3 DEF ProcessEvent
  <2>2. \A T \in {"Enter", "Cancel", "PIN", "Card", "Plain"} : Event(p) = T => p.type = T
    BY EventFacts DEF CommandNames, NoEvent, InputTypes
  <2>3. Event(p) \in Credentials => p.type \in Credentials
    BY <2>2 DEF Credentials
  <2>4. t.action \in {"authenticate", "appendAndSend", "send"} => logic' = "send"
    BY <2>1 DEF Sending
  <2>5. t.action \in {"create", "append", "warn", "cancel"} => logic' = "poll"
    BY <2>1 DEF Sending
  <2>6. t.action \in {"append", "appendAndSend"} =>
          /\ Len(message.parameters) \in Nat
          /\ message' \in Messages
          /\ message'.command = message.command
          /\ Len(message'.parameters) = Len(message.parameters) + 1
          /\ \A i \in 1 .. Len(message.parameters) :
                message'.parameters[i] = message.parameters[i]
          /\ message'.parameters[Len(message.parameters) + 1] = p
    BY <2>1, ActionResults, OneMore
  <2>7. \A c \in CommandNames : t.action = "create" /\ t.event = c =>
           message'.command = c /\ message'.parameters = <<>>
    BY <2>1, ActionResults, CreateCommandFields DEF CommandNames, Commands, CommandEvents
  <2>8. Len(<<>>) = 0
    OBVIOUS
  <2>9. Row(t, "Idle", {"ADD"}, "Add", "create") => MessageFits'
    BY <2>1, <2>5, <2>7, <2>8 DEF Row, MessageFits, Collected, Given, Credential, Plain, CommandNames
  <2>10. Row(t, "Idle", {"REMOVE"}, "Remove", "create") => MessageFits'
    BY <2>1, <2>5, <2>7, <2>8 DEF Row, MessageFits, Collected, Given, Credential, Plain, CommandNames
  <2>11. Row(t, "Idle", {"SET_CLNC"}, "SetClearance", "create") => MessageFits'
    BY <2>1, <2>5, <2>7, <2>8 DEF Row, MessageFits, Collected, Given, Credential, Plain, CommandNames
  <2>12. Row(t, "Idle", {"GUEST_ACCESS_ENABLE", "GUEST_ACCESS_DISABLE"},
            "GuestAccessControlParam1", "create") => MessageFits'
    BY <2>1, <2>5, <2>7, <2>8 DEF Row, MessageFits, Collected, Given, Credential, Plain, CommandNames
  <2>13. Row(t, "Idle", Credentials, "Idle", "authenticate") => MessageFits'
    <3> SUFFICES ASSUME Row(t, "Idle", Credentials, "Idle", "authenticate")
                 PROVE  MessageFits'
      OBVIOUS
    <3> DEFINE new == createCommand("AUTHENTICATE")
    <3>1. new \in Messages /\ new.command = "AUTHENTICATE" /\ new.parameters = <<>>
      BY CreateCommandFields DEF Commands
    <3>2. message' = appendParameter(new, p)
      BY <2>1, ActionResults DEF Row
    <3> HIDE DEF new
    <3>3. /\ message' \in Messages /\ message'.command = "AUTHENTICATE"
          /\ Len(message'.parameters) = 1 /\ message'.parameters[1] = p
      <4>1. Len(new.parameters) = 0
        BY <3>1, <2>8
      <4>2. new \in Messages
        BY <3>1
      <4>3. /\ message' \in Messages /\ message'.command = new.command
            /\ Len(message'.parameters) = Len(new.parameters) + 1
            /\ message'.parameters[Len(new.parameters) + 1] = p
        BY <4>2, <3>2, OneMore
      <4> QED
        BY <4>1, <4>3, <3>1
    <3>4. p.type \in Credentials
      BY <2>1, <2>3 DEF Row
    <3>5. WellFormed(message')
      BY <3>3, <3>4, WellFormedMessages
    <3> QED
      BY <3>5, <2>1, <2>4 DEF Row, MessageFits, WellFormed, Types
  <2>14. Row(t, "Idle", {"Enter", "Cancel"}, "Idle", "appendAndSend") => MessageFits'
    <3> SUFFICES ASSUME Row(t, "Idle", {"Enter", "Cancel"}, "Idle", "appendAndSend")
                 PROVE  MessageFits'
      OBVIOUS
    <3>1. message.command = "NONE" /\ Len(message.parameters) = 0
      BY <1>1, <2>1, NoMessageFields DEF Row, Collected, Given, Credential, Plain
    <3>2. t.action = "appendAndSend" /\ t.event = Event(p) /\ t.next = "Idle"
      BY <2>1 DEF Row
    <3>3. p.type \in {"Enter", "Cancel"}
      BY <2>1, <2>2, <2>3 DEF Row
    <3>4. WellFormed(message')
      BY <3>1, <3>2, <3>3, <2>6, WellFormedMessages
    <3> QED
      BY <3>2, <3>4, <2>1, <2>4 DEF MessageFits, WellFormed, Types
  <2>15. Row(t, "AddParam2", {"Plain"}, "Idle", "appendAndSend") => MessageFits'
    <3> SUFFICES ASSUME Row(t, "AddParam2", {"Plain"}, "Idle", "appendAndSend")
                 PROVE  MessageFits'
      OBVIOUS
    <3>1. /\ message.command = "ADD" /\ Len(message.parameters) = 2
          /\ message.parameters[1].type \in Credentials
          /\ message.parameters[2].type \in Credentials
      BY <1>1, <2>1, NoMessageFields DEF Row, Collected, Given, Credential, Plain
    <3>2. t.action = "appendAndSend" /\ t.event = Event(p) /\ t.next = "Idle"
      BY <2>1 DEF Row
    <3>3. p.type \in {"Plain"}
      BY <2>1, <2>2, <2>3 DEF Row
    <3>4. WellFormed(message')
      BY <3>1, <3>2, <3>3, <2>6, WellFormedMessages
    <3> QED
      BY <3>2, <3>4, <2>1, <2>4 DEF MessageFits, WellFormed, Types
  <2>16. Row(t, "RemoveParam1", Credentials, "Idle", "appendAndSend") => MessageFits'
    <3> SUFFICES ASSUME Row(t, "RemoveParam1", Credentials, "Idle", "appendAndSend")
                 PROVE  MessageFits'
      OBVIOUS
    <3>1. /\ message.command = "REMOVE" /\ Len(message.parameters) = 1
          /\ message.parameters[1].type \in Credentials
      BY <1>1, <2>1, NoMessageFields DEF Row, Collected, Given, Credential, Plain
    <3>2. t.action = "appendAndSend" /\ t.event = Event(p) /\ t.next = "Idle"
      BY <2>1 DEF Row
    <3>3. p.type \in Credentials
      BY <2>1, <2>2, <2>3 DEF Row
    <3>4. WellFormed(message')
      BY <3>1, <3>2, <3>3, <2>6, WellFormedMessages
    <3> QED
      BY <3>2, <3>4, <2>1, <2>4 DEF MessageFits, WellFormed, Types
  <2>17. Row(t, "SetClearanceParam2", Credentials, "Idle", "appendAndSend") => MessageFits'
    <3> SUFFICES ASSUME Row(t, "SetClearanceParam2", Credentials, "Idle", "appendAndSend")
                 PROVE  MessageFits'
      OBVIOUS
    <3>1. /\ message.command = "SET_CLNC" /\ Len(message.parameters) = 2
          /\ message.parameters[1].type \in Credentials
          /\ message.parameters[2].type = "Plain"
      BY <1>1, <2>1, NoMessageFields DEF Row, Collected, Given, Credential, Plain
    <3>2. t.action = "appendAndSend" /\ t.event = Event(p) /\ t.next = "Idle"
      BY <2>1 DEF Row
    <3>3. p.type \in Credentials
      BY <2>1, <2>2, <2>3 DEF Row
    <3>4. WellFormed(message')
      BY <3>1, <3>2, <3>3, <2>6, WellFormedMessages
    <3> QED
      BY <3>2, <3>4, <2>1, <2>4 DEF MessageFits, WellFormed, Types
  <2>18. Row(t, "GuestAccessControlParam1", Credentials, "Idle", "appendAndSend") => MessageFits'
    <3> SUFFICES ASSUME Row(t, "GuestAccessControlParam1", Credentials, "Idle", "appendAndSend")
                 PROVE  MessageFits'
      OBVIOUS
    <3>1. /\ message.command \in {"GUEST_ACCESS_ENABLE", "GUEST_ACCESS_DISABLE"}
          /\ Len(message.parameters) = 0
      BY <1>1, <2>1, NoMessageFields DEF Row, Collected, Given, Credential, Plain
    <3>2. t.action = "appendAndSend" /\ t.event = Event(p) /\ t.next = "Idle"
      BY <2>1 DEF Row
    <3>3. p.type \in Credentials
      BY <2>1, <2>2, <2>3 DEF Row
    <3>4. WellFormed(message')
      BY <3>1, <3>2, <3>3, <2>6, WellFormedMessages
    <3> QED
      BY <3>2, <3>4, <2>1, <2>4 DEF MessageFits, WellFormed, Types
  <2>19. Row(t, "Add", Credentials, "AddParam1", "append") => MessageFits'
    <3> SUFFICES ASSUME Row(t, "Add", Credentials, "AddParam1", "append")
                 PROVE  MessageFits'
      OBVIOUS
    <3>1. /\ message.command = "ADD" /\ Len(message.parameters) = 0
      BY <1>1, <2>1 DEF Row, Collected, Given, Credential, Plain
    <3>2. t.action = "append" /\ t.event = Event(p) /\ state' = "AddParam1" /\ logic' = "poll"
      BY <2>1, <2>5 DEF Row
    <3>3. p.type \in Credentials
      BY <2>1, <2>2, <2>3 DEF Row
    <3>4. /\ message'.command = "ADD" /\ Len(message'.parameters) = 1
          /\ message'.parameters[1].type \in Credentials
      BY <3>1, <3>2, <3>3, <2>6
    <3> QED
      BY <3>2, <3>4 DEF MessageFits, Collected, Given, Credential, Plain
  <2>20. Row(t, "AddParam1", Credentials, "AddParam2", "append") => MessageFits'
    <3> SUFFICES ASSUME Row(t, "AddParam1", Credentials, "AddParam2", "append")
                 PROVE  MessageFits'
      OBVIOUS
    <3>1. /\ message.command = "ADD" /\ Len(message.parameters) = 1
          /\ message.parameters[1].type \in Credentials
      BY <1>1, <2>1 DEF Row, Collected, Given, Credential, Plain
    <3>2. t.action = "append" /\ t.event = Event(p) /\ state' = "AddParam2" /\ logic' = "poll"
      BY <2>1, <2>5 DEF Row
    <3>3. p.type \in Credentials
      BY <2>1, <2>2, <2>3 DEF Row
    <3>4. /\ message'.command = "ADD" /\ Len(message'.parameters) = 2
          /\ message'.parameters[1].type \in Credentials
          /\ message'.parameters[2].type \in Credentials
      BY <3>1, <3>2, <3>3, <2>6
    <3> QED
      BY <3>2, <3>4 DEF MessageFits, Collected, Given, Credential, Plain
  <2>21. Row(t, "Remove", Credentials, "RemoveParam1", "append") => MessageFits'
    <3> SUFFICES ASSUME Row(t, "Remove", Credentials, "RemoveParam1", "append")
                 PROVE  MessageFits'
      OBVIOUS
    <3>1. /\ message.command = "REMOVE" /\ Len(message.parameters) = 0
      BY <1>1, <2>1 DEF Row, Collected, Given, Credential, Plain
    <3>2. t.action = "append" /\ t.event = Event(p) /\ state' = "RemoveParam1" /\ logic' = "poll"
      BY <2>1, <2>5 DEF Row
    <3>3. p.type \in Credentials
      BY <2>1, <2>2, <2>3 DEF Row
    <3>4. /\ message'.command = "REMOVE" /\ Len(message'.parameters) = 1
          /\ message'.parameters[1].type \in Credentials
      BY <3>1, <3>2, <3>3, <2>6
    <3> QED
      BY <3>2, <3>4 DEF MessageFits, Collected, Given, Credential, Plain
  <2>22. Row(t, "SetClearance", Credentials, "SetClearanceParam1", "append") => MessageFits'
    <3> SUFFICES ASSUME Row(t, "SetClearance", Credentials, "SetClearanceParam1", "append")
                 PROVE  MessageFits'
      OBVIOUS
    <3>1. /\ message.command = "SET_CLNC" /\ Len(message.parameters) = 0
      BY <1>1, <2>1 DEF Row, Collected, Given, Credential, Plain
    <3>2. t.action = "append" /\ t.event = Event(p) /\ state' = "SetClearanceParam1" /\ logic' = "poll"
      BY <2>1, <2>5 DEF Row
    <3>3. p.type \in Credentials
      BY <2>1, <2>2, <2>3 DEF Row
    <3>4. /\ message'.command = "SET_CLNC" /\ Len(message'.parameters) = 1
          /\ message'.parameters[1].type \in Credentials
      BY <3>1, <3>2, <3>3, <2>6
    <3> QED
      BY <3>2, <3>4 DEF MessageFits, Collected, Given, Credential, Plain
  <2>23. Row(t, "SetClearanceParam1", {"Plain"}, "SetClearanceParam2", "append") => MessageFits'
    <3> SUFFICES ASSUME Row(t, "SetClearanceParam1", {"Plain"}, "SetClearanceParam2", "append")
                 PROVE  MessageFits'
      OBVIOUS
    <3>1. /\ message.command = "SET_CLNC" /\ Len(message.parameters) = 1
          /\ message.parameters[1].type \in Credentials
      BY <1>1, <2>1 DEF Row, Collected, Given, Credential, Plain
    <3>2. t.action = "append" /\ t.event = Event(p) /\ state' = "SetClearanceParam2" /\ logic' = "poll"
      BY <2>1, <2>5 DEF Row
    <3>3. p.type \in {"Plain"}
      BY <2>1, <2>2, <2>3 DEF Row
    <3>4. /\ message'.command = "SET_CLNC" /\ Len(message'.parameters) = 2
          /\ message'.parameters[1].type \in Credentials
          /\ message'.parameters[2].type = "Plain"
      BY <3>1, <3>2, <3>3, <2>6
    <3> QED
      BY <3>2, <3>4 DEF MessageFits, Collected, Given, Credential, Plain
  <2>24. Row(t, "AddParam2", {"Enter"}, "Idle", "send") => MessageFits'
    <3> SUFFICES ASSUME Row(t, "AddParam2", {"Enter"}, "Idle", "send")
                 PROVE  MessageFits'
      OBVIOUS
    <3>1. message' = message /\ logic' = "send" /\ state' = "Idle"
      BY <2>1, <2>4, ActionResults DEF Row
    <3>2. /\ message.command = "ADD" /\ Len(message.parameters) = 2
          /\ message.parameters[1].type \in Credentials
          /\ message.parameters[2].type \in Credentials
      BY <1>1, <2>1 DEF Row, Collected, Given, Credential
    <3>3. WellFormed(message')
      BY <3>1, <3>2, WellFormedMessages
    <3> QED
      BY <3>1, <3>3 DEF MessageFits, WellFormed, Types
  <2>25. t.next = "Idle" /\ t.action \in {"warn", "cancel"} => MessageFits'
    BY <2>1, <2>5, ActionResults DEF MessageFits, Collected
  <2> QED
    BY <2>9, <2>10, <2>11, <2>12, <2>13, <2>14, <2>15, <2>16, <2>17, <2>18,
       <2>19, <2>20, <2>21, <2>22, <2>23, <2>24, <2>25, RowFacts
<1> QED
  BY <1>2, <1>3

-----------------------------------------------------------------------------
(* The parameters of a message are the latest inputs.                      *)

LEMMA RecentGrows ==
    ASSUME NEW s \in Seq(Parameters), NEW told \in Seq(Parameters), NEW p \in Parameters,
           IsRecent(s, told, 0)
    PROVE  /\ IsRecent(Append(s, p), Append(told, p), 0)
           /\ IsRecent(s, Append(told, p), 1)
<1> DEFINE n == Len(s)
           k == Len(told)
           s2 == Append(s, p)
           t2 == Append(told, p)
<1>1. /\ n \in Nat /\ k \in Nat /\ n <= k
      /\ \A i \in 1 .. n : s[i] = told[(k - 0 - n) + i]
  BY LenProperties DEF IsRecent
<1>2. /\ Len(s2) = n + 1
      /\ \A i \in 1 .. n : s2[i] = s[i]
      /\ s2[n + 1] = p
  BY AppendProperties
<1>3. /\ Len(t2) = k + 1
      /\ \A i \in 1 .. k : t2[i] = told[i]
      /\ t2[k + 1] = p
  BY AppendProperties
<1> HIDE DEF n, k, s2, t2
<1>4. \A i \in 1 .. n : s[i] = t2[(k - n) + i]
  <2> SUFFICES ASSUME NEW i \in 1 .. n
               PROVE  s[i] = t2[(k - n) + i]
    OBVIOUS
  <2>1. (k - n) + i \in 1 .. k /\ (k - 0 - n) + i = (k - n) + i
    BY <1>1
  <2>2. s[i] = told[(k - n) + i]
    BY <1>1, <2>1
  <2> QED
    BY <1>3, <2>1, <2>2
<1>5. \A i \in 1 .. n + 1 : s2[i] = t2[((k + 1) - 0 - (n + 1)) + i]
  <2> SUFFICES ASSUME NEW i \in 1 .. n + 1
               PROVE  s2[i] = t2[((k + 1) - 0 - (n + 1)) + i]
    OBVIOUS
  <2>1. ((k + 1) - 0 - (n + 1)) + i = (k - n) + i
    BY <1>1
  <2>2. CASE i \in 1 .. n
    BY <1>2, <1>4, <2>1, <2>2
  <2>3. CASE i = n + 1
    <3>1. (k - n) + i = k + 1
      BY <1>1, <2>3
    <3> QED
      BY <1>2, <1>3, <2>1, <2>3, <3>1
  <2> QED
    BY <1>1, <2>2, <2>3
<1>6. IsRecent(s2, t2, 0)
  BY <1>1, <1>2, <1>3, <1>5 DEF IsRecent
<1>7. IsRecent(s, t2, 1)
  <2>1. \A i \in 1 .. n : ((k + 1) - 1 - n) + i = (k - n) + i
    BY <1>1
  <2>2. \A i \in 1 .. n : s[i] = t2[((k + 1) - 1 - n) + i]
    BY <1>4, <2>1
  <2> QED
    BY <1>1, <1>3, <2>2 DEF IsRecent, n
<1> QED
  BY <1>6, <1>7 DEF s2, t2

LEMMA RecentEmpty ==
    ASSUME NEW told \in Seq(Parameters)
    PROVE  IsRecent(<<>>, told, 0)
<1>1. Len(<<>>) = 0 /\ Len(told) \in Nat
  BY LenProperties
<1> QED
  BY <1>1 DEF IsRecent

LEMMA ProcessEventRecent ==
    ASSUME NEW p \in Parameters, ProcessEvent(p), logic = "poll", state \in States,
           message \in Messages, heard \in Seq(Parameters), MessageFits, MessageIsRecent
    PROVE  MessageIsRecent'
<1>1. /\ heard' = Append(heard, p)
      /\ heard'[Len(heard')] = p
  <2>1. heard' = Append(heard, p)
    BY DEF ProcessEvent
  <2> QED
    BY <2>1, AppendProperties
<1>2. /\ Told \in Seq(Parameters)
      /\ p.type # "Command" => Told' = Append(Told, p)
      /\ p.type = "Command" => Told' = Told
  <2>1. p.type \in InputTypes
    BY EventFacts
  <2> QED
    BY <1>1, <2>1, HeardGrows DEF Told
<1>3. IsRecent(message.parameters, Told, 0)
  BY DEF MessageIsRecent, Latest
<1>4. message.parameters \in Seq(Parameters)
  BY MessageFields
<1>5. Told' \in Seq(Parameters)
  BY <1>2, AppendProperties
<1>6. CASE ~ \E t \in Transitions : t.state = state /\ t.event = Event(p)
  <2>1. UNCHANGED <<logic, message>>
    BY <1>6 DEF ProcessEvent
  <2>2. p.type = "Command"
    BY <1>6, EveryStateHearsAll, StatesAreNames, EventFacts
  <2> QED
    BY <1>2, <1>3, <2>1, <2>2 DEF MessageIsRecent, Latest
<1>7. CASE \E t \in Transitions : t.state = state /\ t.event = Event(p)
  <2>1. PICK t \in Transitions :
             /\ t.state = state
             /\ t.event = Event(p)
             /\ state' = t.next
             /\ message' = ActionResult(t.action, p)
             /\ logic' = IF t.action \in Sending THEN "send" ELSE "poll"
    BY <1>7 DEF ProcessEvent
  <2>2. \A T \in {"Enter", "Cancel", "PIN", "Card", "Plain"} : Event(p) = T => p.type = T
    BY EventFacts DEF CommandNames, NoEvent, InputTypes
  <2>3. t.action \in {"authenticate", "append", "appendAndSend", "send"} =>
           p.type # "Command" /\ Told' = Append(Told, p)
    BY <1>2, <2>1, <2>2, RowFacts DEF Row, Credentials
  <2>4. CASE t.action \in {"create", "warn", "cancel"}
    <3>1. logic' = "poll"
      BY <2>1, <2>4 DEF Sending
    <3>2. t.action = "create" => Event(p) \in Commands
      BY <2>1, RowFacts DEF Row, Commands, CommandEvents
    <3>3. message'.parameters = <<>>
      BY <2>1, <2>4, <3>2, ActionResults, CreateCommandFields, NoMessageFields
    <3>4. IsRecent(<<>>, Told', 0)
      BY <1>5, RecentEmpty
    <3> QED
      BY <3>1, <3>3, <3>4 DEF MessageIsRecent, Latest
  <2>5. CASE t.action = "authenticate"
    <3> DEFINE new == createCommand("AUTHENTICATE")
    <3>1. new \in Messages /\ new.parameters = <<>>
      BY CreateCommandFields DEF Commands
    <3>2. message' = appendParameter(new, p)
      BY <2>1, <2>5, ActionResults
    <3> HIDE DEF new
    <3>3. message'.parameters = Append(<<>>, p)
      BY <3>1, <3>2, AppendParameterFields
    <3>4. IsRecent(Append(<<>>, p), Append(Told, p), 0)
      BY <1>2, EmptySeq, RecentEmpty, RecentGrows
    <3>5. p.type # "Enter"
      BY <2>1, <2>2, <2>5, RowFacts DEF Row, Credentials
    <3>6. ~EnterEnded'
      BY <1>1, <3>5 DEF EnterEnded
    <3>7. logic' = "send"
      BY <2>1, <2>5 DEF Sending
    <3> QED
      BY <2>3, <2>5, <3>3, <3>4, <3>6, <3>7 DEF MessageIsRecent, Latest
  <2>6. CASE t.action = "append"
    <3>1. message'.parameters = Append(message.parameters, p)
      BY <2>1, <2>6, ActionResults, AppendParameterFields
    <3>2. IsRecent(Append(message.parameters, p), Append(Told, p), 0)
      BY <1>2, <1>3, <1>4, RecentGrows
    <3>3. logic' = "poll"
      BY <2>1, <2>6 DEF Sending
    <3> QED
      BY <2>3, <2>6, <3>1, <3>2, <3>3 DEF MessageIsRecent, Latest
  <2>7. CASE t.action = "appendAndSend"
    <3>1. /\ message'.parameters = Append(message.parameters, p)
          /\ message'.command = message.command
      BY <2>1, <2>7, ActionResults, AppendParameterFields
    <3>2. IsRecent(Append(message.parameters, p), Append(Told, p), 0)
      BY <1>2, <1>3, <1>4, RecentGrows
    <3>3. logic' = "send"
      BY <2>1, <2>7 DEF Sending
    <3>4. ~EnterEnded'
      <4>1. p.type = "Enter" => state = "Idle"
        BY <2>1, <2>2, <2>7, RowFacts DEF Row, Credentials
      <4>2. state = "Idle" => message.command = "NONE"
        BY NoMessageFields DEF MessageFits, Collected
      <4> QED
        BY <1>1, <3>1, <4>1, <4>2 DEF EnterEnded
    <3> QED
      BY <2>3, <2>7, <3>1, <3>2, <3>3, <3>4 DEF MessageIsRecent, Latest
  <2>8. CASE t.action = "send"
    <3>1. message' = message /\ logic' = "send"
      BY <2>1, <2>8, ActionResults DEF Sending
    <3>2. p.type = "Enter" /\ state = "AddParam2"
      BY <2>1, <2>2, <2>8, RowFacts DEF Row
    <3>3. message.command = "ADD"
      BY <3>2 DEF MessageFits, Collected
    <3>4. EnterEnded'
      BY <1>1, <3>1, <3>2, <3>3 DEF EnterEnded
    <3>5. IsRecent(message.parameters, Append(Told, p), 1)
      BY <1>2, <1>3, <1>4, RecentGrows
    <3> QED
      BY <2>3, <2>8, <3>1, <3>4, <3>5 DEF MessageIsRecent, Latest
  <2>9. t.action \in {"create", "authenticate", "append", "appendAndSend", "send",
                      "warn", "cancel"}
    BY RowFacts DEF Row
  <2> QED
    BY <2>4, <2>5, <2>6, <2>7, <2>8, <2>9
<1> QED
  BY <1>6, <1>7

(* What the property says of such a message.                               *)
LEMMA RecentIsSubSeq ==
    ASSUME NEW s \in Seq(Parameters), NEW told \in Seq(Parameters), NEW silent \in Nat,
           IsRecent(s, told, silent)
    PROVE  s = SubSeq(told, Len(told) - silent - Len(s) + 1, Len(told) - silent)
<1> DEFINE n == Len(s)
           k == Len(told)
           from == k - silent - n + 1
           to == k - silent
           r == SubSeq(told, from, to)
<1>1. /\ n \in Nat /\ k \in Nat /\ n + silent <= k
      /\ \A i \in 1 .. n : s[i] = told[(k - silent - n) + i]
  BY LenProperties DEF IsRecent
<1>2. \A i \in 1 .. k : told[i] \in Parameters
  BY ElementOfSeq
<1> HIDE DEF n, k
<1>3. from \in Int /\ to \in Int /\ from >= 1 /\ to <= k /\ (to - from) + 1 = n
  <2>1. n \in Nat /\ k \in Nat /\ silent \in Nat /\ n + silent <= k
    BY <1>1
  <2>2. from = ((k - silent) - n) + 1 /\ to = k - silent
    OBVIOUS
  <2> HIDE DEF from, to
  <2> QED
    BY <2>1, <2>2
<1>4. \A i \in 1 .. n : s[i] = told[from + i - 1]
  <2> SUFFICES ASSUME NEW i \in 1 .. n
               PROVE  s[i] = told[from + i - 1]
    OBVIOUS
  <2>1. (k - silent - n) + i = from + i - 1
    BY <1>1
  <2> QED
    BY <1>1, <2>1
<1> HIDE DEF from, to
<1>5. \A i \in from .. to : told[i] \in Parameters
  BY <1>1, <1>2, <1>3
<1>6. /\ r \in Seq(Parameters)
      /\ Len(r) = IF from <= to THEN to - from + 1 ELSE 0
      /\ \A i \in 1 .. to - from + 1 : r[i] = told[from + i - 1]
  BY <1>3, <1>5, SubSeqProperties
<1> HIDE DEF r
<1>7. Len(r) = n /\ \A i \in 1 .. n : r[i] = told[from + i - 1]
  BY <1>1, <1>3, <1>6
<1>8. s = r
  BY <1>4, <1>6, <1>7, SeqEqual DEF n
<1> QED
  BY <1>8 DEF r, from, to, n, k

-----------------------------------------------------------------------------
(* The invariant of the input path.                                        *)

SentFits == \A i \in DOMAIN sent : WellFormed(sent[i])

(* The characters of so many reads of the card pipe.                       *)
Times(n) == n * CardReadSize

(* The cards heard so far are the first that were shown, and the pipe      *)
(* holds the others one after the other: the i-th card of all begins       *)
(* Times(i - 1) characters after the first one did.                        *)
CardsInTurn ==
    OneReadEach =>
        LET cards == Heard({"Card"})
            n == Len(cards)
        IN
        /\ n <= Len(shown)
        /\ \A i \in 1 .. n : cards[i].data = shown[i]
        /\ Len(cardPipe) = Times(Len(shown)) - Times(n)
        /\ \A i \in n + 1 .. Len(shown), q \in 1 .. CardReadSize :
              cardPipe[(Times(i - 1) - Times(n)) + q] = shown[i][q]

InputInv ==
    /\ TypeOK
    /\ MessageFits
    /\ SentFits
    /\ MessageIsRecent
    /\ CardsInTurn

LEMMA TextsGrow ==
    ASSUME NEW s \in Texts, NEW t \in Texts
    PROVE  s \o t \in Texts
BY ConcatProperties DEF Texts

(* What is read from a pipe, and what is left in it.                       *)
LEMMA TextsSplit ==
    ASSUME NEW s \in Texts, s # <<>>, NEW n \in 1 .. Len(s)
    PROVE  /\ SubSeq(s, 1, n) \in Texts /\ SubSeq(s, 1, n) # <<>>
           /\ SubSeq(s, n + 1, Len(s)) \in Texts
           /\ n = Len(s) => SubSeq(s, 1, n) = s /\ SubSeq(s, n + 1, Len(s)) = <<>>
<1> DEFINE Letters == Characters \cup {EnterWord[i] : i \in DOMAIN EnterWord}
                      \cup {BackspaceWord[i] : i \in DOMAIN BackspaceWord}
<1>1. Texts = Seq(Letters)
  BY DEF Texts
<1> HIDE DEF Letters
<1>2. s \in Seq(Letters) /\ Len(s) \in Nat /\ \A i \in 1 .. Len(s) : s[i] \in Letters
  BY <1>1, LenProperties, ElementOfSeq
<1>3. /\ SubSeq(s, 1, n) \in Seq(Letters)
      /\ Len(SubSeq(s, 1, n)) = n
  BY <1>2, SubSeqProperties
<1>4. SubSeq(s, n + 1, Len(s)) \in Seq(Letters)
  BY <1>2, SubSeqProperties
<1>5. n = Len(s) => SubSeq(s, 1, n) = s
  BY <1>2, SubSeqFull
<1>6. n = Len(s) => SubSeq(s, n + 1, Len(s)) = <<>>
  BY <1>2, SubSeqEmpty
<1>7. SubSeq(s, 1, n) # <<>>
  BY <1>3, EmptySeq
<1> QED
  BY <1>1, <1>3, <1>4, <1>5, <1>6, <1>7

(* The length of what is read next from the keypad's pipe.                 *)
ReadLength == IF Len(keypadPipe) < ReadSize THEN Len(keypadPipe) ELSE ReadSize

LEMMA ReadKeypadPipeFacts ==
    ASSUME keypadPipe \in Texts, ReadKeypadPipe
    PROVE  LET text == SubSeq(keypadPipe, 1, ReadLength) IN
           /\ ReadLength \in 1 .. Len(keypadPipe)
           /\ text \in Texts /\ text # <<>>
           /\ KeypadParameter(text) \in Parameters
           /\ KeypadParameter(text).type # "Card"
           /\ ProcessEvent(KeypadParameter(text))
           /\ logic = "poll"
           /\ keypadPipe' = SubSeq(keypadPipe, ReadLength + 1, Len(keypadPipe))
           /\ keypadPipe' \in Texts
<1>1. /\ logic = "poll" /\ keypadPipe # <<>>
      /\ ProcessEvent(KeypadParameter(SubSeq(keypadPipe, 1, ReadLength)))
      /\ keypadPipe' = SubSeq(keypadPipe, ReadLength + 1, Len(keypadPipe))
  BY DEF ReadKeypadPipe, ReadLength
<1>2. Len(keypadPipe) \in Nat \ {0}
  BY <1>1, EmptySeq DEF Texts
<1>3. ReadLength \in 1 .. Len(keypadPipe)
  BY <1>2, TextFacts DEF ReadLength
<1> QED
  BY <1>1, <1>3, TextsSplit, KeypadParameterType

(* What one read takes from a stream of characters and what it leaves.     *)
LEMMA PieceFacts ==
    ASSUME NEW S, NEW text \in Seq(S), NEW size \in Nat
    PROVE  /\ Piece(text, size) \in Seq(S) /\ Rest(text, size) \in Seq(S)
           /\ size <= Len(text) =>
                 /\ Len(Piece(text, size)) = size
                 /\ \A q \in 1 .. size : Piece(text, size)[q] = text[q]
                 /\ Len(Rest(text, size)) = Len(text) - size
                 /\ \A q \in 1 .. Len(text) - size : Rest(text, size)[q] = text[size + q]
<1> DEFINE n == Len(text)
           k == IF n < size THEN n ELSE size
<1>1. n \in Nat /\ \A i \in 1 .. n : text[i] \in S
  BY LenProperties, ElementOfSeq
<1>2. k \in Nat /\ k <= n /\ (size <= n => k = size)
  BY <1>1
<1> HIDE DEF n, k
<1>3. /\ SubSeq(text, 1, k) \in Seq(S) /\ Len(SubSeq(text, 1, k)) = k
      /\ \A q \in 1 .. k : SubSeq(text, 1, k)[q] = text[q]
  <2>1. \A i \in 1 .. k : text[i] \in S
    BY <1>1, <1>2
  <2>2. /\ SubSeq(text, 1, k) \in Seq(S)
        /\ Len(SubSeq(text, 1, k)) = IF 1 <= k THEN k - 1 + 1 ELSE 0
        /\ \A q \in 1 .. k - 1 + 1 : SubSeq(text, 1, k)[q] = text[1 + q - 1]
    BY <1>2, <2>1, SubSeqProperties
  <2> QED
    BY <1>2, <2>2
<1>4. Piece(text, size) = SubSeq(text, 1, k)
  BY DEF Piece, k, n
<1>5. Rest(text, size) = SubSeq(text, k + 1, n)
  BY <1>3, <1>4 DEF Rest, n
<1>6. /\ SubSeq(text, k + 1, n) \in Seq(S)
      /\ Len(SubSeq(text, k + 1, n)) = n - k
      /\ \A q \in 1 .. n - k : SubSeq(text, k + 1, n)[q] = text[k + q]
  <2>1. \A i \in k + 1 .. n : text[i] \in S
    BY <1>1, <1>2
  <2>2. /\ SubSeq(text, k + 1, n) \in Seq(S)
        /\ Len(SubSeq(text, k + 1, n)) = IF k + 1 <= n THEN n - (k + 1) + 1 ELSE 0
        /\ \A q \in 1 .. n - (k + 1) + 1 : SubSeq(text, k + 1, n)[q] = text[(k + 1) + q - 1]
    BY <1>1, <1>2, <2>1, SubSeqProperties
  <2>3. \A q \in 1 .. n - k : (k + 1) + q - 1 = k + q /\ q \in 1 .. n - (k + 1) + 1
    BY <1>1, <1>2
  <2> QED
    BY <1>1, <1>2, <2>2, <2>3
<1> QED
  BY <1>2, <1>3, <1>4, <1>5, <1>6 DEF n

LEMMA ReadCardPipeFacts ==
    ASSUME cardPipe \in Seq(CardCharacters), ReadCardPipe
    PROVE  LET text == Piece(cardPipe, CardReadSize) IN
           /\ text \in Seq(CardCharacters)
           /\ ProcessEvent(CardParameter(text))
           /\ CardParameter(text) \in Parameters
           /\ logic = "poll" /\ cardPipe # <<>>
           /\ cardPipe' = Rest(cardPipe, CardReadSize)
           /\ cardPipe' \in Seq(CardCharacters)
<1>1. CardReadSize \in Nat
  BY InputAssumption DEF CardReadSize
<1>2. /\ ProcessEvent(CardParameter(Piece(cardPipe, CardReadSize)))
      /\ logic = "poll" /\ cardPipe # <<>> /\ cardPipe' = Rest(cardPipe, CardReadSize)
  BY DEF ReadCardPipe
<1>3. /\ Piece(cardPipe, CardReadSize) \in Seq(CardCharacters)
      /\ Rest(cardPipe, CardReadSize) \in Seq(CardCharacters)
  BY <1>1, PieceFacts
<1> QED
  BY <1>2, <1>3, CardParameterType

(* A card is a sequence of the characters of cards.                        *)
LEMMA CardFacts ==
    ASSUME NEW card \in Cards
    PROVE  card \in Seq(CardCharacters) /\ Len(card) \in Nat
BY InputAssumption, LenProperties

LEMMA InitTypeOK == Init => TypeOK
<1> SUFFICES ASSUME Init
             PROVE  TypeOK
  OBVIOUS
<1>1. "Idle" \in States /\ NoMessage \in Messages
  BY StatesAreNames, NoMessageFields DEF StateNames
<1>2. \A S : <<>> \in Seq(S) /\ Len(<<>>) = 0
  BY EmptySeq
<1>3. paced \in BOOLEAN /\ inputs \in 0 .. MaxInputs[paced]
  BY InputAssumption DEF Init
<1>4. <<>> \in Texts /\ BufferSize \in Nat
  BY <1>2, InputAssumption DEF Texts
<1> QED
  BY <1>1, <1>2, <1>3, <1>4 DEF Init, TypeOK

(* What a key leaves alone and what it takes.                              *)
LEMMA KeyFacts ==
    ASSUME TypeOK, NEW k, Key(k)
    PROVE  /\ Len(keypad) < BufferSize
           /\ typing # <<>> /\ Head(typing) = k
           /\ typing' = Tail(typing) /\ typing' \in Seq(Keys)
           /\ UNCHANGED <<typed, cardVars, cardPipe, logicVars, inputs, paced>>
BY HeadTailProperties DEF Key, TypeOK

LEMMA TypeOfKeypad ==
    ASSUME TypeOK, typing' \in Seq(Keys), keypad' \in Seq(Characters),
           Len(keypad') <= BufferSize, keypadPipe' \in Texts,
           UNCHANGED <<typed, cardVars, cardPipe, logicVars, inputs, paced>>
    PROVE  TypeOK'
BY DEF TypeOK, cardVars, logicVars

LEMMA NextTypeOK == TypeOK /\ [Next]_vars => TypeOK'
<1> SUFFICES ASSUME TypeOK, [Next]_vars
             PROVE  TypeOK'
  OBVIOUS
<1>1. /\ keypad \in Seq(Characters) /\ keypad \in Texts /\ keypadPipe \in Texts
      /\ Len(keypad) \in Nat /\ BufferSize \in Nat /\ Len(keypad) <= BufferSize
  BY TextFacts, InputAssumption, LenProperties DEF TypeOK
<1>2. <<>> \in Seq(Characters) /\ Len(<<>>) = 0
  BY EmptySeq
<1>3. ASSUME NEW line \in Lines, BeginLine(line)
      PROVE  TypeOK'
  <2>1. typing' \in Seq(Keys)
    BY <1>3, InputAssumption DEF BeginLine
  <2>2. typed' \in Seq(Lines)
    BY <1>3, AppendProperties DEF BeginLine, TypeOK
  <2>3. MaxInputs[paced] \in Nat
    BY InputAssumption DEF TypeOK
  <2>4. inputs' \in 0 .. MaxInputs[paced]
    BY <1>3, <2>3 DEF BeginLine, TypeOK
  <2> QED
    BY <1>3, <2>1, <2>2, <2>4 DEF BeginLine, TypeOK, cardVars, pipes, logicVars
<1>4. CASE checkBufferOverflow
  <2>1. /\ keypadPipe' = keypadPipe \o keypad /\ keypad' = <<>>
        /\ UNCHANGED <<typing, typed, cardVars, cardPipe, logicVars, inputs, paced>>
    BY <1>4 DEF checkBufferOverflow, flushBuffer
  <2>2. keypadPipe' \in Texts /\ typing' \in Seq(Keys)
    BY <1>1, <2>1, TextsGrow DEF TypeOK
  <2>3. keypad' \in Seq(Characters) /\ Len(keypad') <= BufferSize
    BY <1>1, <1>2, <2>1
  <2> QED
    BY <2>1, <2>2, <2>3, TypeOfKeypad
<1>5. CASE ReadCharacter
  <2>1. PICK k \in Characters : Key(k) /\ keypad' = Append(keypad, k)
    BY <1>5 DEF ReadCharacter
  <2>2. keypad' \in Seq(Characters) /\ Len(keypad') = Len(keypad) + 1
    BY <1>1, <2>1, AppendProperties
  <2>3. Len(keypad') <= BufferSize
    BY <1>1, <2>1, <2>2, KeyFacts
  <2>4. keypadPipe' \in Texts
    BY <1>1, <1>5 DEF ReadCharacter
  <2> QED
    BY <2>1, <2>2, <2>3, <2>4, KeyFacts, TypeOfKeypad
<1>6. CASE ReadEnter
  <2>1. keypadPipe' \in Texts
    BY <1>1, <1>6, TextsGrow, TextFacts DEF ReadEnter, flushBuffer
  <2>2. keypad' = <<>> \/ keypad' = keypad
    BY <1>6 DEF ReadEnter, flushBuffer
  <2>3. keypad' \in Seq(Characters) /\ Len(keypad') <= BufferSize
    <3>1. CASE keypad' = <<>>
      BY <1>1, <1>2, <3>1
    <3>2. CASE keypad' = keypad
      BY <1>1, <3>2
    <3> QED
      BY <2>2, <3>1, <3>2
  <2> QED
    BY <1>6, <2>1, <2>3, KeyFacts, TypeOfKeypad DEF ReadEnter
<1>7. CASE ReadBackspace
  <2>1. keypadPipe' \in Texts
    BY <1>1, <1>7, TextsGrow, TextFacts DEF ReadBackspace
  <2>2. keypad' = <<>> \/ keypad' = keypad
    BY <1>7 DEF ReadBackspace
  <2>3. keypad' \in Seq(Characters) /\ Len(keypad') <= BufferSize
    <3>1. CASE keypad' = <<>>
      BY <1>1, <1>2, <3>1
    <3>2. CASE keypad' = keypad
      BY <1>1, <3>2
    <3> QED
      BY <2>2, <3>1, <3>2
  <2> QED
    BY <1>7, <2>1, <2>3, KeyFacts, TypeOfKeypad DEF ReadBackspace
<1>8. ASSUME NEW card \in Cards, ReadCard(card)
      PROVE  TypeOK'
  <2>1. cardPipe' \in Seq(CardCharacters)
    BY <1>8, CardFacts, ConcatProperties DEF ReadCard, TypeOK
  <2>4. shown' \in Seq(Cards)
    BY <1>8, AppendProperties DEF ReadCard, TypeOK
  <2>2. MaxInputs[paced] \in Nat
    BY InputAssumption DEF TypeOK
  <2>3. inputs' \in 0 .. MaxInputs[paced]
    BY <1>8, <2>2 DEF ReadCard, TypeOK
  <2> QED
    BY <1>8, <2>1, <2>3, <2>4 DEF ReadCard, TypeOK, keypadVars, logicVars
<1>9. CASE TimerExpires
  BY <1>9 DEF TimerExpires, TypeOK, keypadVars, pipes, logicVars
<1>10. CASE ReadKeypadPipe
  <2>1. /\ state' \in States /\ message' \in Messages /\ logic' \in {"poll", "send"}
        /\ heard' \in Seq(Parameters) /\ sent' = sent /\ keypadPipe' \in Texts
    BY <1>10, ReadKeypadPipeFacts, ProcessEventType DEF TypeOK
  <2>2. UNCHANGED <<keypadVars, cardVars, cardPipe, inputs, paced>>
    BY <1>10 DEF ReadKeypadPipe
  <2> QED
    BY <2>1, <2>2 DEF TypeOK, keypadVars, cardVars
<1>11. CASE ReadCardPipe
  <2>1. /\ state' \in States /\ message' \in Messages /\ logic' \in {"poll", "send"}
        /\ heard' \in Seq(Parameters) /\ sent' = sent
        /\ cardPipe' \in Seq(CardCharacters)
    BY <1>11, ReadCardPipeFacts, ProcessEventType DEF TypeOK
  <2>2. UNCHANGED <<keypadVars, cardVars, keypadPipe, inputs, paced>>
    BY <1>11 DEF ReadCardPipe
  <2> QED
    BY <2>1, <2>2 DEF TypeOK, keypadVars, cardVars
<1>12. CASE doSend
  <2>1. sent' \in Seq(Messages)
    BY <1>12, AppendProperties DEF doSend, TypeOK
  <2> QED
    BY <1>12, <2>1, NoMessageFields DEF doSend, TypeOK, keypadVars, cardVars, pipes
<1>13. CASE UNCHANGED vars
  BY <1>13 DEF vars, keypadVars, cardVars, pipes, logicVars, TypeOK
<1> QED
  BY <1>3, <1>4, <1>5, <1>6, <1>7, <1>8, <1>9, <1>10, <1>11, <1>12, <1>13
     DEF Next, KeypadStep, ReadStep

(* The steps that leave the automaton and its message alone.               *)
LEMMA MessageStays ==
    ASSUME MessageFits, SentFits, MessageIsRecent, UNCHANGED logicVars
    PROVE  MessageFits' /\ SentFits' /\ MessageIsRecent'
BY DEF logicVars, MessageFits, Collected, Given, Credential, Plain, WellFormed, Types,
       SentFits, MessageIsRecent, Latest, Told, Heard, EnterEnded

LEMMA NextMessage ==
    ASSUME TypeOK, MessageFits, SentFits, MessageIsRecent, [Next]_vars
    PROVE  MessageFits' /\ SentFits' /\ MessageIsRecent'
<1>1. /\ state \in States /\ message \in Messages /\ heard \in Seq(Parameters)
      /\ keypadPipe \in Texts /\ cardPipe \in Seq(CardCharacters) /\ sent \in Seq(Messages)
  BY DEF TypeOK
<1>2. ASSUME NEW p \in Parameters, ProcessEvent(p), logic = "poll"
      PROVE  MessageFits' /\ SentFits' /\ MessageIsRecent'
  <2>1. MessageFits' /\ MessageIsRecent'
    BY <1>1, <1>2, ProcessEventFits, ProcessEventRecent
  <2>2. sent' = sent
    BY <1>2 DEF ProcessEvent
  <2> QED
    BY <2>1, <2>2 DEF SentFits, WellFormed, Types
<1>3. CASE ReadKeypadPipe
  BY <1>1, <1>2, <1>3, ReadKeypadPipeFacts
<1>4. CASE ReadCardPipe
  BY <1>1, <1>2, <1>4, ReadCardPipeFacts
<1>5. CASE doSend
  <2>1. /\ logic = "send" /\ logic' = "poll" /\ message' = NoMessage
        /\ sent' = Append(sent, message) /\ state' = state /\ heard' = heard
    BY <1>5 DEF doSend
  <2>2. state = "Idle" /\ WellFormed(message)
    BY <2>1 DEF MessageFits
  <2>3. MessageFits'
    BY <2>1, <2>2 DEF MessageFits, Collected
  <2>4. /\ DOMAIN sent' = 1 .. Len(sent) + 1
        /\ \A i \in 1 .. Len(sent) : sent'[i] = sent[i]
        /\ sent'[Len(sent) + 1] = message
        /\ DOMAIN sent = 1 .. Len(sent) /\ Len(sent) \in Nat
    BY <1>1, <2>1, AppendProperties, LenProperties
  <2>5. SentFits'
    <3> SUFFICES ASSUME NEW i \in 1 .. Len(sent) + 1
                 PROVE  WellFormed(sent'[i])
      BY <2>4 DEF SentFits, WellFormed, Types
    <3>1. i \in 1 .. Len(sent) \/ i = Len(sent) + 1
      BY <2>4
    <3> QED
      BY <3>1, <2>2, <2>4 DEF SentFits
  <2>6. Told \in Seq(Parameters) /\ Told' = Told
    BY <1>1, <2>1, HeardType DEF Told, Heard
  <2>7. MessageIsRecent'
    BY <2>1, <2>6, RecentEmpty, NoMessageFields DEF MessageIsRecent, Latest
  <2> QED
    BY <2>3, <2>5, <2>7
<1>6. CASE UNCHANGED logicVars
  BY <1>6, MessageStays
<1>7. \/ ReadKeypadPipe \/ ReadCardPipe \/ doSend
      \/ UNCHANGED logicVars
  BY DEF Next, vars, ReadStep, KeypadStep, BeginLine, checkBufferOverflow, ReadCharacter,
         ReadEnter, ReadBackspace, Key, ReadCard, TimerExpires
<1> QED
  BY <1>3, <1>4, <1>5, <1>6, <1>7

-----------------------------------------------------------------------------
(* The cards.                                                              *)

LEMMA CardSize == CardReadSize \in Nat /\ CardReadSize > 0
BY InputAssumption DEF CardReadSize

LEMMA TimesFacts ==
    /\ \A n \in Nat : Times(n) \in Nat /\ Times(n + 1) = Times(n) + CardReadSize
    /\ \A m, n \in Nat : m <= n => Times(m) <= Times(n)
<1> DEFINE c == CardReadSize
<1>1. c \in Nat
  BY CardSize
<1> HIDE DEF c
<1>2. \A n \in Nat : n * c \in Nat /\ (n + 1) * c = n * c + c
  BY <1>1
<1>3. \A m, n \in Nat : m <= n => m * c <= n * c
  <2> SUFFICES ASSUME NEW m \in Nat, NEW n \in Nat, m <= n
               PROVE  m * c <= n * c
    OBVIOUS
  <2>1. n * c = m * c + (n - m) * c
    BY <1>1
  <2>2. (n - m) * c \in Nat /\ m * c \in Nat
    <3>1. n - m \in Nat
      OBVIOUS
    <3> QED
      BY <1>1, <1>2, <3>1
  <2> QED
    BY <2>1, <2>2
<1> QED
  BY <1>2, <1>3 DEF Times, c

(* Later cards begin later.                                                *)
LEMMA TimesBetween ==
    ASSUME NEW n \in Nat, NEW k \in Nat, NEW i \in n + 1 .. k
    PROVE  /\ i - 1 \in Nat /\ Times(i) = Times(i - 1) + CardReadSize
           /\ Times(n) \in Nat /\ Times(i - 1) \in Nat /\ Times(i) \in Nat
           /\ Times(k) \in Nat
           /\ Times(n) <= Times(i - 1) /\ Times(i) <= Times(k)
<1>1. i \in Nat /\ i - 1 \in Nat /\ (i - 1) + 1 = i /\ n <= i - 1 /\ i <= k
  OBVIOUS
<1> QED
  BY <1>1, TimesFacts

(* A card is shown, or nothing is.                                         *)
LEMMA OneReadEachBefore ==
    ASSUME shown \in Seq(Cards), NEW card \in Cards, shown' = Append(shown, card), OneReadEach'
    PROVE  OneReadEach /\ Len(card) = CardReadSize
<1>1. /\ DOMAIN shown = 1 .. Len(shown) /\ Len(shown) \in Nat
      /\ DOMAIN shown' = 1 .. Len(shown) + 1
      /\ \A i \in 1 .. Len(shown) : shown'[i] = shown[i]
      /\ shown'[Len(shown) + 1] = card
  BY AppendProperties, LenProperties
<1>2. CardReadSize' = CardReadSize
  BY DEF CardReadSize
<1> QED
  BY <1>1, <1>2 DEF OneReadEach

LEMMA ShowKeepsCards ==
    ASSUME TypeOK, CardsInTurn, NEW card \in Cards, ReadCard(card)
    PROVE  CardsInTurn'
<1> DEFINE cards == Heard({"Card"})
           n == Len(cards)
           k == Len(shown)
           c == CardReadSize
           At(i, q) == (Times(i - 1) - Times(n)) + q
<1> SUFFICES ASSUME OneReadEach'
             PROVE  /\ n <= Len(shown')
                    /\ \A i \in 1 .. n : cards[i].data = shown'[i]
                    /\ Len(cardPipe') = Times(Len(shown')) - Times(n)
                    /\ \A i \in n + 1 .. Len(shown'), q \in 1 .. c :
                          cardPipe'[At(i, q)] = shown'[i][q]
  <2>1. heard' = heard
    BY DEF ReadCard, logicVars
  <2>2. cards' = cards
    BY <2>1 DEF Heard
  <2> QED
    BY <2>2 DEF CardsInTurn, Times, CardReadSize
<1>1. /\ heard \in Seq(Parameters) /\ shown \in Seq(Cards)
      /\ cardPipe \in Seq(CardCharacters)
  BY DEF TypeOK
<1>2. /\ shown' = Append(shown, card) /\ cardPipe' = cardPipe \o card
  BY DEF ReadCard
<1>3. OneReadEach /\ Len(card) = c
  BY <1>1, <1>2, OneReadEachBefore
<1>4. /\ n <= k
      /\ \A i \in 1 .. n : cards[i].data = shown[i]
      /\ Len(cardPipe) = Times(k) - Times(n)
      /\ \A i \in n + 1 .. k, q \in 1 .. c : cardPipe[At(i, q)] = shown[i][q]
  BY <1>3 DEF CardsInTurn
<1>5. n \in Nat /\ k \in Nat /\ c \in Nat
  BY <1>1, HeardType, LenProperties, CardSize
<1>6. /\ Len(shown') = k + 1
      /\ \A i \in 1 .. k : shown'[i] = shown[i]
      /\ shown'[k + 1] = card
  BY <1>1, <1>2, AppendProperties
<1>7. /\ Len(cardPipe') = Len(cardPipe) + c
      /\ \A x \in 1 .. Len(cardPipe) + c :
            cardPipe'[x] = IF x <= Len(cardPipe) THEN cardPipe[x]
                           ELSE card[x - Len(cardPipe)]
  BY <1>1, <1>2, <1>3, CardFacts, ConcatProperties
<1>8. /\ Times(k) \in Nat /\ Times(n) \in Nat /\ Times(n) <= Times(k)
      /\ Times(k + 1) = Times(k) + c
  BY <1>4, <1>5, TimesFacts
<1> HIDE DEF n, k, c, cards
<1>9. ASSUME NEW i \in n + 1 .. k, NEW q \in 1 .. c
      PROVE  cardPipe'[At(i, q)] = shown'[i][q]
  <2>1. /\ Times(n) <= Times(i - 1) /\ Times(i) <= Times(k)
        /\ Times(i) = Times(i - 1) + c /\ Times(i - 1) \in Nat
    BY <1>5, TimesBetween DEF c
  <2>2. At(i, q) \in 1 .. Len(cardPipe)
    BY <1>4, <1>5, <1>8, <2>1
  <2>3. i \in 1 .. k
    BY <1>5
  <2>4. cardPipe'[At(i, q)] = cardPipe[At(i, q)]
    <3> HIDE DEF At
    <3>1. Len(cardPipe) \in Nat
      BY <1>1, LenProperties
    <3> QED
      BY <1>5, <1>7, <2>2, <3>1
  <2> QED
    BY <1>4, <1>6, <2>3, <2>4
<1>10. ASSUME NEW q \in 1 .. c
       PROVE  cardPipe'[At(k + 1, q)] = shown'[k + 1][q]
  <2>1. At(k + 1, q) = Len(cardPipe) + q
    <3>1. (k + 1) - 1 = k
      BY <1>5
    <3> QED
      BY <1>4, <1>8, <3>1
  <2>2. Len(cardPipe) \in Nat
    BY <1>1, LenProperties
  <2>3. /\ Len(cardPipe) + q \in 1 .. Len(cardPipe) + c
        /\ ~(Len(cardPipe) + q <= Len(cardPipe))
        /\ (Len(cardPipe) + q) - Len(cardPipe) = q
    BY <1>5, <2>2
  <2> QED
    BY <1>6, <1>7, <2>1, <2>3
<1>11. \A i \in n + 1 .. k + 1 : i \in n + 1 .. k \/ i = k + 1
  BY <1>5
<1>12. \A i \in 1 .. n : i \in 1 .. k
  BY <1>4, <1>5
<1>13. Len(cardPipe') = Times(k + 1) - Times(n) /\ n <= k + 1
  BY <1>4, <1>5, <1>7, <1>8
<1> QED
  BY <1>4, <1>6, <1>9, <1>10, <1>11, <1>12, <1>13

LEMMA ReadKeepsCards ==
    ASSUME TypeOK, CardsInTurn, ReadCardPipe
    PROVE  CardsInTurn'
<1> DEFINE cards == Heard({"Card"})
           n == Len(cards)
           k == Len(shown)
           c == CardReadSize
           card == Piece(cardPipe, c)
           p == CardParameter(card)
           At(i, q) == (Times(i - 1) - Times(n)) + q
           AtNext(i, q) == (Times(i - 1) - Times(n + 1)) + q
<1>1. /\ heard \in Seq(Parameters) /\ shown \in Seq(Cards)
      /\ cardPipe \in Seq(CardCharacters)
  BY DEF TypeOK
<1>2. /\ card \in Seq(CardCharacters) /\ ProcessEvent(p) /\ p \in Parameters
      /\ cardPipe # <<>> /\ cardPipe' = Rest(cardPipe, c)
      /\ p.type = "Card" /\ p.data = card
  BY <1>1, ReadCardPipeFacts, CardParameterType
<1>3. cards \in Seq(Parameters) /\ cards' = Append(cards, p) /\ shown' = shown
  <2>1. heard' = Append(heard, p) /\ shown' = shown
    BY <1>2 DEF ProcessEvent, ReadCardPipe, cardVars
  <2> HIDE DEF p
  <2> QED
    BY <1>1, <1>2, <2>1, HeardGrows
<1>4. /\ Len(cards') = n + 1
      /\ \A i \in 1 .. n : cards'[i] = cards[i]
      /\ cards'[n + 1] = p
  <2> HIDE DEF cards, p
  <2> QED
    BY <1>2, <1>3, AppendProperties
<1> SUFFICES ASSUME OneReadEach
             PROVE  /\ n + 1 <= k
                    /\ \A i \in 1 .. n + 1 : cards'[i].data = shown[i]
                    /\ Len(cardPipe') = Times(k) - Times(n + 1)
                    /\ \A i \in (n + 1) + 1 .. k, q \in 1 .. c :
                          cardPipe'[AtNext(i, q)] = shown[i][q]
  <2>1. OneReadEach' => OneReadEach
    BY <1>3 DEF OneReadEach, CardReadSize
  <2> QED
    BY <1>3, <1>4, <2>1 DEF CardsInTurn, Times, CardReadSize
<1>5. /\ n <= k
      /\ \A i \in 1 .. n : cards[i].data = shown[i]
      /\ Len(cardPipe) = Times(k) - Times(n)
      /\ \A i \in n + 1 .. k, q \in 1 .. c : cardPipe[At(i, q)] = shown[i][q]
  BY DEF CardsInTurn
<1>6. n \in Nat /\ k \in Nat /\ c \in Nat /\ Len(cardPipe) \in Nat \ {0}
  BY <1>1, <1>2, <1>3, LenProperties, CardSize, EmptySeq
<1> HIDE DEF n, k, c, cards
<1>7. n < k
  BY <1>5, <1>6, TimesFacts
<1>8. /\ Times(n) \in Nat /\ Times(n + 1) = Times(n) + c /\ Times(k) \in Nat
      /\ Times(n + 1) <= Times(k)
  <2>1. n + 1 \in Nat /\ n + 1 <= k
    BY <1>6, <1>7
  <2> QED
    BY <1>6, <2>1, TimesFacts DEF c
<1>9. c <= Len(cardPipe)
  BY <1>5, <1>6, <1>8
<1>10. /\ Len(card) = c
       /\ \A q \in 1 .. c : card[q] = cardPipe[q]
       /\ Len(cardPipe') = Len(cardPipe) - c
       /\ \A q \in 1 .. Len(cardPipe) - c : cardPipe'[q] = cardPipe[c + q]
  <2>1. cardPipe' = Rest(cardPipe, c)
    BY <1>2
  <2>2. /\ Len(Piece(cardPipe, c)) = c
        /\ \A q \in 1 .. c : Piece(cardPipe, c)[q] = cardPipe[q]
        /\ Len(Rest(cardPipe, c)) = Len(cardPipe) - c
        /\ \A q \in 1 .. Len(cardPipe) - c : Rest(cardPipe, c)[q] = cardPipe[c + q]
    BY <1>1, <1>6, <1>9, PieceFacts
  <2> QED
    BY <2>1, <2>2
<1> HIDE DEF card
<1>11. card = shown[n + 1]
  <2>1. n + 1 \in 1 .. k /\ n + 1 \in n + 1 .. k
    BY <1>6, <1>7
  <2>2. shown[n + 1] \in Seq(CardCharacters) /\ Len(shown[n + 1]) = c
    <3>1. shown[n + 1] \in Cards /\ DOMAIN shown = 1 .. k
      BY <1>1, <2>1, ElementOfSeq, LenProperties DEF k
    <3> QED
      BY <2>1, <3>1, CardFacts DEF OneReadEach, c
  <2>3. ASSUME NEW q \in 1 .. c
        PROVE  card[q] = shown[n + 1][q]
    <3>1. At(n + 1, q) = q
      <4>1. (n + 1) - 1 = n
        BY <1>6
      <4> QED
        BY <1>6, <1>8, <4>1
    <3>2. cardPipe[At(n + 1, q)] = shown[n + 1][q]
      BY <1>5, <2>1
    <3> QED
      BY <1>10, <3>1, <3>2
  <2> QED
    BY <1>2, <1>10, <2>2, <2>3, SeqEqual
<1>12. \A i \in 1 .. n + 1 : cards'[i].data = shown[i]
  <2>1. \A i \in 1 .. n + 1 : i \in 1 .. n \/ i = n + 1
    BY <1>6
  <2> QED
    BY <1>2, <1>4, <1>5, <1>11, <2>1
<1>13. ASSUME NEW i \in (n + 1) + 1 .. k, NEW q \in 1 .. c
       PROVE  cardPipe'[AtNext(i, q)] = shown[i][q]
  <2>1. /\ n + 1 \in Nat /\ i \in n + 1 .. k
    BY <1>6
  <2>2. /\ Times(n + 1) <= Times(i - 1) /\ Times(i) <= Times(k)
        /\ Times(i) = Times(i - 1) + c /\ Times(i - 1) \in Nat
    BY <1>6, <2>1, TimesBetween DEF c
  <2>3. AtNext(i, q) \in 1 .. Len(cardPipe) - c /\ c + AtNext(i, q) = At(i, q)
    <3> DEFINE before == Times(i - 1)
               heardBefore == Times(n)
               total == Times(k)
    <3>1. /\ before \in Nat /\ heardBefore \in Nat /\ total \in Nat /\ c \in Nat
          /\ heardBefore + c <= before /\ before + c <= total
          /\ Len(cardPipe) = total - heardBefore
      BY <1>5, <1>6, <1>8, <2>2
    <3>2. AtNext(i, q) = (before - (heardBefore + c)) + q /\ At(i, q) = (before - heardBefore) + q
      BY <1>8
    <3> HIDE DEF before, heardBefore, total, At, AtNext
    <3>3. q \in Nat /\ 1 <= q /\ q <= c
      BY <3>1
    <3> QED
      BY <3>1, <3>2, <3>3
  <2> HIDE DEF AtNext, At
  <2>4. cardPipe'[AtNext(i, q)] = cardPipe[At(i, q)]
    BY <1>10, <2>3
  <2> QED
    BY <1>5, <2>1, <2>4
<1>14. Len(cardPipe') = Times(k) - Times(n + 1) /\ n + 1 <= k
  BY <1>5, <1>6, <1>7, <1>8, <1>10
<1> QED
  BY <1>12, <1>13, <1>14

LEMMA NextCards ==
    ASSUME TypeOK, CardsInTurn, [Next]_vars
    PROVE  CardsInTurn'
<1> DEFINE cards == Heard({"Card"})
<1>1. heard \in Seq(Parameters) /\ keypadPipe \in Texts
  BY DEF TypeOK
<1>2. cards' = cards /\ UNCHANGED <<shown, cardPipe>> => CardsInTurn'
  BY DEF CardsInTurn, OneReadEach, Times, CardReadSize
<1>3. CASE ReadKeypadPipe
  <2>1. PICK p \in Parameters : ProcessEvent(p) /\ p.type # "Card"
    BY <1>1, <1>3, ReadKeypadPipeFacts
  <2>2. heard' = Append(heard, p)
    BY <2>1 DEF ProcessEvent
  <2>3. cards' = cards
    BY <1>1, <2>1, <2>2, HeardGrows
  <2>4. shown' = shown /\ cardPipe' = cardPipe
    BY <1>3 DEF ReadKeypadPipe, cardVars
  <2> QED
    BY <1>2, <2>3, <2>4
<1>4. CASE UNCHANGED <<shown, heard, cardPipe>>
  <2>1. cards' = cards
    BY <1>4 DEF Heard
  <2> QED
    BY <1>2, <1>4, <2>1
<1>5. \/ \E card \in Cards : ReadCard(card)
      \/ ReadKeypadPipe
      \/ ReadCardPipe
      \/ UNCHANGED <<shown, heard, cardPipe>>
  BY DEF Next, vars, ReadStep, KeypadStep, BeginLine, checkBufferOverflow, ReadCharacter,
         ReadEnter, ReadBackspace, Key, TimerExpires, doSend, cardVars, logicVars, pipes
<1> QED
  BY <1>3, <1>4, <1>5, ShowKeepsCards, ReadKeepsCards

-----------------------------------------------------------------------------
(* The invariant holds.                                                    *)

LEMMA InitInputInv == Init => InputInv
<1> SUFFICES ASSUME Init
             PROVE  InputInv
  OBVIOUS
<1>1. TypeOK
  BY InitTypeOK
<1>2. logic = "poll" /\ state = "Idle" /\ message = NoMessage
  BY DEF Init
<1>3. MessageFits
  BY <1>2 DEF MessageFits, Collected
<1>4. sent = <<>> /\ heard = <<>> /\ shown = <<>> /\ cardPipe = <<>>
  BY DEF Init
<1>5. SentFits
  BY <1>4 DEF SentFits
<1>6. \A types : Heard(types) = <<>>
  BY <1>4, NothingHeard
<1>7. <<>> \in Seq(Parameters)
  BY EmptySeq
<1>8. MessageIsRecent
  BY <1>2, <1>6, <1>7, RecentEmpty, NoMessageFields DEF MessageIsRecent, Latest, Told
<1>9. CardsInTurn
  <2>1. Len(Heard({"Card"})) = 0 /\ Len(shown) = 0 /\ Len(cardPipe) = 0
    BY <1>4, <1>6, EmptySeq
  <2>2. Times(0) \in Nat
    BY TimesFacts
  <2> QED
    BY <2>1, <2>2 DEF CardsInTurn
<1> QED
  BY <1>1, <1>3, <1>5, <1>8, <1>9 DEF InputInv

(* The inductive invariant of the input path, for every set of lines and   *)
(* cards, every size of the buffers and every interleaving of the threads. *)
THEOREM InputInvariant == Spec => []InputInv
<1>1. InputInv /\ [Next]_vars => InputInv'
  BY NextTypeOK, NextMessage, NextCards DEF InputInv
<1> QED
  BY <1>1, InitInputInv, PTL DEF Spec

(* Type correctness: whatever the threads do, the keypad's buffer holds no *)
(* more than it was made for (checkBufferOverflow of keypad.cpp).          *)
THEOREM InputTypeCorrect == Spec => []TypeOK
<1>1. InputInv => TypeOK
  BY DEF InputInv
<1> QED
  BY <1>1, InputInvariant, PTL

(* Every message the hardware daemon sends has a form its receiver accepts.*)
THEOREM SentAlwaysWellFormed == Spec => []SentWellFormed
<1>1. InputInv => SentWellFormed
  BY DEF InputInv, MessageFits, SentFits, SentWellFormed
<1> QED
  BY <1>1, InputInvariant, PTL

(* The parameters of a message are the inputs that were heard last.        *)
THEOREM SentAlwaysRecent == Spec => []SentIsRecent
<1>1. InputInv => SentIsRecent
  <2> SUFFICES ASSUME InputInv, logic = "send"
               PROVE  message.parameters =
                        LET silent == IF EnterEnded THEN 1 ELSE 0 IN
                        SubSeq(Told, Len(Told) - silent - Len(message.parameters) + 1,
                               Len(Told) - silent)
    BY DEF SentIsRecent, Told, EnterEnded
  <2>1. message.parameters \in Seq(Parameters)
    BY MessageFields DEF InputInv, TypeOK
  <2>2. Told \in Seq(Parameters)
    BY HeardType DEF InputInv, TypeOK, Told
  <2>3. IsRecent(message.parameters, Told, IF EnterEnded THEN 1 ELSE 0)
    BY DEF InputInv, MessageIsRecent, Latest
  <2>4. (IF EnterEnded THEN 1 ELSE 0) \in Nat
    OBVIOUS
  <2> QED
    BY <2>1, <2>2, <2>3, <2>4, RecentIsSubSeq
<1> QED
  BY <1>1, InputInvariant, PTL

(* As long as all cards that were shown have the length of one read, each  *)
(* one the reader has accepted is heard once, whole and in its turn.       *)
THEOREM CardsAlwaysArriveWhole == Spec => []CardsArriveWhole
<1>1. InputInv => CardsArriveWhole
  <2> DEFINE cards == Heard({"Card"})
             n == Len(cards)
             k == Len(shown)
  <2> SUFFICES ASSUME InputInv, OneReadEach
               PROVE  /\ n <= k
                      /\ \A i \in DOMAIN cards : cards[i].data = shown[i]
                      /\ cardPipe = <<>> => n = k
    BY DEF CardsArriveWhole
  <2>1. /\ heard \in Seq(Parameters) /\ shown \in Seq(Cards)
        /\ CardsInTurn
    BY DEF InputInv, TypeOK
  <2>2. /\ n \in Nat /\ k \in Nat /\ DOMAIN cards = 1 .. n
    BY <2>1, HeardType, LenProperties
  <2>3. /\ n <= k
        /\ \A i \in 1 .. n : cards[i].data = shown[i]
        /\ Len(cardPipe) = Times(k) - Times(n)
    BY <2>1 DEF CardsInTurn
  <2> HIDE DEF n, k
  <2>4. CASE n < k
    <3>1. n + 1 \in n + 1 .. k
      BY <2>2, <2>4
    <3>2. /\ Times(n + 1) = Times(n) + CardReadSize /\ Times(n + 1) <= Times(k)
          /\ Times(n) \in Nat /\ Times(k) \in Nat
      <4>1. n + 1 \in Nat /\ n + 1 <= k
        BY <2>2, <2>4
      <4> QED
        BY <2>2, <4>1, TimesFacts
    <3>3. Len(cardPipe) # 0
      BY <2>3, <3>2, CardSize
    <3> QED
      BY <2>2, <2>3, <3>3, EmptySeq
  <2>5. CASE n = k
    BY <2>2, <2>3, <2>5
  <2> QED
    BY <2>2, <2>3, <2>4, <2>5
<1> QED
  BY <1>1, InputInvariant, PTL

-----------------------------------------------------------------------------
(* The lines.                                                              *)

(* The last backspace among some keys is where it is found.                *)
LEMMA LastBackspaceFound ==
    ASSUME NEW line \in Seq(Keys), NEW n \in 0 .. Len(line), NEW b \in 0 .. n,
           ErasedUpTo(line, n, b)
    PROVE  /\ LastBackspace(SubSeq(line, 1, n)) = b
           /\ Pending(line, n) = n - b
<1> DEFINE s == SubSeq(line, 1, n)
           Last(i) == /\ i # 0 => s[i] = Backspace
                      /\ \A j \in i + 1 .. Len(s) : s[j] # Backspace
<1>1. n \in Nat /\ b \in Nat /\ Len(line) \in Nat
  BY LenProperties
<1>2. Len(s) = n /\ \A i \in 1 .. n : s[i] = line[i]
  <2>1. \A i \in 1 .. n : line[i] \in Keys
    BY <1>1, ElementOfSeq
  <2>2. /\ Len(SubSeq(line, 1, n)) = IF 1 <= n THEN n - 1 + 1 ELSE 0
        /\ \A i \in 1 .. n - 1 + 1 : SubSeq(line, 1, n)[i] = line[1 + i - 1]
    BY <1>1, <2>1, SubSeqProperties
  <2>3. n - 1 + 1 = n /\ \A i \in 1 .. n : 1 + i - 1 = i
    BY <1>1
  <2> QED
    BY <1>1, <2>2, <2>3
<1> HIDE DEF s
<1>3. b \in 0 .. Len(s) /\ Last(b)
  <2>1. \A j \in b + 1 .. n : j \in 1 .. n
    BY <1>1
  <2> QED
    BY <1>1, <1>2, <2>1 DEF ErasedUpTo
<1>4. ASSUME NEW i \in 0 .. Len(s), Last(i)
      PROVE  i = b
  <2>1. i \in Nat /\ i <= n
    BY <1>1, <1>2
  <2>2. ~(i < b)
    <3> SUFFICES ASSUME i < b
                 PROVE  FALSE
      OBVIOUS
    <3>1. b \in i + 1 .. Len(s) /\ b # 0
      BY <1>1, <1>2, <2>1
    <3> QED
      BY <1>3, <1>4, <3>1
  <2>3. ~(b < i)
    <3> SUFFICES ASSUME b < i
                 PROVE  FALSE
      OBVIOUS
    <3>1. i \in b + 1 .. Len(s) /\ i # 0
      BY <1>1, <1>2, <2>1
    <3> QED
      BY <1>3, <1>4, <3>1
  <2> QED
    BY <1>1, <2>1, <2>2, <2>3
<1>5. LastBackspace(s) = CHOOSE i \in 0 .. Len(s) : Last(i)
  BY DEF LastBackspace
<1> HIDE DEF Last
<1>6. LastBackspace(s) = b
  BY <1>3, <1>4, <1>5
<1> QED
  BY <1>6 DEF Pending, s

(* The whole line.                                                         *)
LEMMA LastBackspaceOfLine ==
    ASSUME NEW line \in Seq(Keys), NEW b \in 0 .. Len(line), ErasedUpTo(line, Len(line), b)
    PROVE  LastBackspace(line) = b
<1>1. Len(line) \in 0 .. Len(line)
  BY LenProperties
<1>2. SubSeq(line, 1, Len(line)) = line
  BY SubSeqFull
<1> QED
  BY <1>1, <1>2, LastBackspaceFound

(* One key further.                                                        *)
LEMMA OneKeyFurther ==
    ASSUME NEW line \in Seq(Keys), NEW p \in Nat, p < Len(line), NEW b \in 0 .. p,
           ErasedUpTo(line, p, b)
    PROVE  /\ line[p + 1] = Backspace => ErasedUpTo(line, p + 1, p + 1)
           /\ line[p + 1] # Backspace => ErasedUpTo(line, p + 1, b)
<1>1. ASSUME line[p + 1] # Backspace, NEW j \in b + 1 .. p + 1
      PROVE  line[j] # Backspace
  <2>1. j \in b + 1 .. p \/ j = p + 1
    OBVIOUS
  <2> QED
    BY <1>1, <2>1 DEF ErasedUpTo
<1>2. p + 1 \in 0 .. p + 1 /\ b \in 0 .. p + 1 /\ \A j : j \notin p + 1 + 1 .. p + 1
  OBVIOUS
<1> QED
  BY <1>1, <1>2 DEF ErasedUpTo

(* What the keypad holds grows by a character.                             *)
LEMMA PieceGrows ==
    ASSUME NEW line \in Seq(Keys), NEW p \in Nat, p < Len(line), NEW b \in 0 .. p
    PROVE  /\ SubSeq(line, b + 1, p + 1) = Append(SubSeq(line, b + 1, p), line[p + 1])
           /\ Len(SubSeq(line, b + 1, p)) = p - b
           /\ SubSeq(line, b + 1, p) \in Seq(Keys)
<1>1. Len(line) \in Nat /\ \A i \in 1 .. Len(line) : line[i] \in Keys
  BY LenProperties, ElementOfSeq
<1>2. \A i \in b + 1 .. p : line[i] \in Keys
  BY <1>1
<1>3. /\ SubSeq(line, b + 1, p) \in Seq(Keys)
      /\ Len(SubSeq(line, b + 1, p)) = IF b + 1 <= p THEN p - (b + 1) + 1 ELSE 0
  BY <1>2, SubSeqProperties
<1>4. Len(SubSeq(line, b + 1, p)) = p - b
  BY <1>3
<1>5. b + 1 \in 1 .. Len(line) /\ p + 1 \in b + 1 .. Len(line) /\ (p + 1) - 1 = p
  BY <1>1
<1>6. SubSeq(line, b + 1, p + 1) = SubSeq(line, b + 1, p) \o <<line[p + 1]>>
  BY <1>5, SubSeqRecursiveSecond
<1>7. line[p + 1] \in Keys
  BY <1>1, <1>5
<1>8. Append(SubSeq(line, b + 1, p), line[p + 1]) = SubSeq(line, b + 1, p) \o <<line[p + 1]>>
  BY <1>3, <1>7, AppendIsConcat
<1> QED
  BY <1>3, <1>4, <1>6, <1>8

(* The keys still to come shrink.                                          *)
LEMMA RestShrinks ==
    ASSUME NEW line \in Seq(Keys), NEW p \in Nat, p < Len(line)
    PROVE  /\ SubSeq(line, p + 1, Len(line)) # <<>>
           /\ Head(SubSeq(line, p + 1, Len(line))) = line[p + 1]
           /\ Tail(SubSeq(line, p + 1, Len(line))) = SubSeq(line, p + 1 + 1, Len(line))
<1>1. Len(line) \in Nat /\ \A i \in 1 .. Len(line) : line[i] \in Keys
  BY LenProperties, ElementOfSeq
<1>2. p + 1 \in 1 .. Len(line) /\ Len(line) \in p + 1 .. Len(line)
  BY <1>1
<1>3. \A i \in p + 1 .. Len(line) : line[i] \in Keys
  BY <1>1
<1>4. Len(SubSeq(line, p + 1, Len(line))) = Len(line) - (p + 1) + 1
  BY <1>2, <1>3, SubSeqProperties
<1>5. Len(SubSeq(line, p + 1, Len(line))) # 0
  BY <1>1, <1>4
<1>6. SubSeq(line, p + 1, Len(line)) # <<>>
  BY <1>5, EmptySeq
<1> QED
  BY <1>2, <1>6, HeadTailOfSubSeq

(* What a line means is never nothing.                                     *)
LEMMA MeaningOfLine ==
    ASSUME NEW line
    PROVE  /\ Meaning(line) # <<>>
           /\ line = <<Backspace>> => Meaning(line) = BackspaceWord
           /\ line # <<Backspace>> =>
                 LET text == SubSeq(line, LastBackspace(line) + 1, Len(line) - 1) IN
                 /\ text = <<>> => Meaning(line) = EnterWord
                 /\ text # <<>> => Meaning(line) = text
<1>1. BackspaceWord # <<>> /\ EnterWord # <<>>
  <2>1. Len(BackspaceWord) # 0 /\ Len(EnterWord) # 0 /\ Len(<<>>) = 0
    BY TextFacts, EmptySeq
  <2> QED
    BY <2>1
<1> QED
  BY <1>1 DEF Meaning

LEMMA KeyedType ==
    ASSUME TypeOK
    PROVE  Keyed \in Seq(Parameters) /\ Len(Keyed) \in Nat /\ Len(typed) \in Nat
<1>1. Keyed \in Seq(Parameters) /\ typed \in Seq(Lines)
  BY HeardType DEF TypeOK, Keyed
<1> QED
  BY <1>1, LenProperties

(* The line that is under way.                                             *)
LEMMA CurrentLine ==
    ASSUME LinesAreSimple, TypeOK, AllFit, Len(Keyed) + 1 = Len(typed)
    PROVE  /\ Current \in Lines /\ Current \in Seq(Keys)
           /\ Fits(Current) /\ MakesOneInput(Current)
           /\ Len(typed) \in 1 .. Len(typed)
<1>1. typed \in Seq(Lines) /\ Len(typed) \in 1 .. Len(typed)
  BY KeyedType DEF TypeOK
<1>2. Current \in Lines /\ DOMAIN typed = 1 .. Len(typed)
  BY <1>1, ElementOfSeq, LenProperties DEF Current
<1>3. Fits(Current)
  BY <1>1, <1>2 DEF AllFit, Current
<1> QED
  BY <1>1, <1>2, <1>3, InputAssumption DEF LinesAreSimple

LEMMA LineBeingTyped ==
    ASSUME LinesAreSimple, TypeOK, AllFit,
           NEW p \in 0 .. Len(Current) - 1, NEW b \in 0 .. Len(Current), BeingTyped(p, b)
    PROVE  /\ Current \in Seq(Keys) /\ MakesOneInput(Current)
           /\ p \in Nat /\ p < Len(Current) /\ b \in 0 .. p /\ Len(Current) \in Nat
           /\ typing # <<>> /\ Head(typing) = Current[p + 1]
           /\ Tail(typing) = SubSeq(Current, p + 1 + 1, Len(Current))
           /\ Len(keypad) = p - b
           /\ Current # <<Backspace>> => Len(keypad) = Pending(Current, p)
           /\ Len(keypad) < BufferSize
<1>1. Current \in Seq(Keys) /\ MakesOneInput(Current)
  BY CurrentLine DEF BeingTyped
<1>2. /\ p \in Nat /\ p < Len(Current) /\ Len(Current) \in Nat
      /\ b \in 0 .. p /\ ErasedUpTo(Current, p, b)
  BY <1>1, LenProperties DEF BeingTyped, ErasedUpTo
<1>3. typing = SubSeq(Current, p + 1, Len(Current)) /\ keypad = SubSeq(Current, b + 1, p)
  BY DEF BeingTyped
<1>4. /\ typing # <<>> /\ Head(typing) = Current[p + 1]
      /\ Tail(typing) = SubSeq(Current, p + 1 + 1, Len(Current))
  BY <1>1, <1>2, <1>3, RestShrinks
<1>5. Len(keypad) = p - b
  BY <1>1, <1>2, <1>3, PieceGrows
<1>6. Pending(Current, p) = p - b
  BY <1>1, <1>2, LastBackspaceFound
<1>7. BufferSize \in Nat /\ ReadSize = BufferSize - 1 /\ ReadSize >= 6
  BY TextFacts, InputAssumption DEF ReadSize
<1>8. CASE Current = <<Backspace>>
  <2>1. Len(Current) = 1
    BY <1>8
  <2>2. p = 0 /\ b = 0
    BY <1>2, <2>1
  <2>3. Len(keypad) < BufferSize
    BY <1>5, <1>7, <2>2
  <2> QED
    BY <1>1, <1>2, <1>4, <1>5, <1>6, <2>3
<1>9. CASE Current # <<Backspace>>
  <2>1. Pending(Current, p) <= ReadSize
    BY <1>1, <1>9 DEF MakesOneInput
  <2>2. Len(keypad) < BufferSize
    BY <1>2, <1>5, <1>6, <1>7, <2>1
  <2> QED
    BY <1>1, <1>2, <1>4, <1>5, <1>6, <2>2
<1> QED
  BY <1>8, <1>9

(* A key comes only while a line is being typed.                           *)
LEMMA WhereKeysComeFrom ==
    ASSUME LineIsSomewhere, typing # <<>>
    PROVE  \E p \in 0 .. Len(Current) - 1, b \in 0 .. Len(Current) : BeingTyped(p, b)
BY DEF LineIsSomewhere, AtRest, InThePipe

(* The keypad's steps leave what was begun and what was heard.             *)
LEMMA LinesOfKeypad ==
    ASSUME UNCHANGED <<typed, logicVars>>
    PROVE  /\ Current' = Current /\ Keyed' = Keyed
           /\ AllFit' => AllFit
           /\ HeardAsMeant => HeardAsMeant'
BY DEF logicVars, Current, Keyed, Heard, AllFit, HeardAsMeant

LEMMA CharacterKeepsLine ==
    ASSUME LinesAreSimple, TypeOK, AllFit, LineIsSomewhere, ReadCharacter
    PROVE  LineIsSomewhere'
<1>1. PICK k \in Characters : Key(k) /\ keypad' = Append(keypad, k)
  BY DEF ReadCharacter
<1>2. /\ typing # <<>> /\ Head(typing) = k /\ typing' = Tail(typing)
      /\ UNCHANGED <<typed, logicVars>> /\ keypadPipe' = keypadPipe
  BY <1>1 DEF Key, ReadCharacter
<1>3. PICK p \in 0 .. Len(Current) - 1, b \in 0 .. Len(Current) : BeingTyped(p, b)
  BY <1>2, WhereKeysComeFrom
<1> DEFINE line == Current
<1>4. /\ line \in Seq(Keys) /\ MakesOneInput(line)
      /\ p \in Nat /\ p < Len(line) /\ b \in 0 .. p /\ Len(line) \in Nat
      /\ k = line[p + 1] /\ typing' = SubSeq(line, p + 1 + 1, Len(line))
  BY <1>2, <1>3, LineBeingTyped
<1>5. k # Enter /\ k # Backspace
  BY DEF Characters, Enter, Backspace
<1>6. line = Current' /\ Keyed' = Keyed /\ typed' = typed
  BY <1>2, LinesOfKeypad
<1>7. /\ ErasedUpTo(line, p, b) /\ keypad = SubSeq(line, b + 1, p)
      /\ keypadPipe = <<>> /\ Len(Keyed) + 1 = Len(typed)
  BY <1>3 DEF BeingTyped
<1> HIDE DEF line
<1>8. ErasedUpTo(line, p + 1, b)
  BY <1>4, <1>5, <1>7, OneKeyFurther
<1>9. keypad' = SubSeq(line, b + 1, p + 1)
  BY <1>1, <1>4, <1>7, PieceGrows
<1>10. p + 1 # Len(line)
  <2>1. line # <<Backspace>>
    BY <1>4, <1>5
  <2>2. line[Len(line)] = Enter
    BY <1>4, <2>1 DEF MakesOneInput
  <2> QED
    BY <1>4, <1>5, <2>2
<1>11. p + 1 \in 0 .. Len(line) - 1 /\ b \in 0 .. Len(line)
  BY <1>4, <1>10
<1>12. BeingTyped(p + 1, b)'
  BY <1>2, <1>4, <1>6, <1>7, <1>8, <1>9 DEF BeingTyped
<1> QED
  BY <1>6, <1>11, <1>12 DEF LineIsSomewhere

LEMMA EnterKeepsLine ==
    ASSUME LinesAreSimple, TypeOK, AllFit, LineIsSomewhere, ReadEnter
    PROVE  LineIsSomewhere'
<1>1. /\ typing # <<>> /\ Head(typing) = Enter /\ typing' = Tail(typing)
      /\ UNCHANGED <<typed, logicVars>>
  BY DEF Key, ReadEnter
<1>2. PICK p \in 0 .. Len(Current) - 1, b \in 0 .. Len(Current) : BeingTyped(p, b)
  BY <1>1, WhereKeysComeFrom
<1> DEFINE line == Current
<1>3. /\ line \in Seq(Keys) /\ MakesOneInput(line)
      /\ p \in Nat /\ p < Len(line) /\ b \in 0 .. p /\ Len(line) \in Nat
      /\ line[p + 1] = Enter /\ typing' = SubSeq(line, p + 1 + 1, Len(line))
  BY <1>1, <1>2, LineBeingTyped
<1>4. line = Current' /\ Keyed' = Keyed /\ typed' = typed
  BY <1>1, LinesOfKeypad
<1>5. /\ ErasedUpTo(line, p, b) /\ keypad = SubSeq(line, b + 1, p)
      /\ keypadPipe = <<>> /\ Len(Keyed) + 1 = Len(typed)
  BY <1>2 DEF BeingTyped
<1> HIDE DEF line
<1>6. line # <<Backspace>>
  <2> SUFFICES ASSUME line = <<Backspace>>
               PROVE  FALSE
    OBVIOUS
  <2>1. Len(line) = 1 /\ line[1] = Backspace
    OBVIOUS
  <2>2. p + 1 = 1
    BY <1>3, <2>1
  <2> QED
    BY <1>3, <2>1, <2>2 DEF Enter, Backspace
<1>7. p + 1 = Len(line)
  <2>1. \A q \in 1 .. Len(line) - 1 : line[q] # Enter
    BY <1>3, <1>6 DEF MakesOneInput
  <2> QED
    BY <1>3, <2>1
<1>8. typing' = <<>>
  BY <1>3, <1>7, SubSeqEmpty
<1>9. LastBackspace(line) = b
  <2>1. Enter # Backspace
    BY DEF Enter, Backspace
  <2>2. ErasedUpTo(line, Len(line), b)
    BY <1>3, <1>5, <1>7, <2>1, OneKeyFurther
  <2> QED
    BY <1>3, <2>2, LastBackspaceOfLine
<1>10. keypad = SubSeq(line, LastBackspace(line) + 1, Len(line) - 1)
  <2>1. Len(line) - 1 = p
    BY <1>3, <1>7
  <2> QED
    BY <1>5, <1>9, <2>1
<1>11. /\ keypad = <<>> => Meaning(line) = EnterWord
       /\ keypad # <<>> => Meaning(line) = keypad
  BY <1>6, <1>10, MeaningOfLine
<1>12. keypad' = <<>>
  BY DEF ReadEnter, flushBuffer
<1>13. keypadPipe' = Meaning(line)
  <2>1. CASE keypad # <<>>
    <3>1. keypadPipe' = <<>> \o keypad
      BY <2>1, <1>5 DEF ReadEnter, flushBuffer
    <3>2. <<>> \o keypad = keypad
      BY ConcatEmptySeq DEF TypeOK
    <3> QED
      BY <2>1, <3>1, <3>2, <1>11
  <2>2. CASE keypad = <<>>
    <3>1. keypadPipe' = <<>> \o EnterWord
      BY <2>2, <1>5 DEF ReadEnter
    <3>2. <<>> \o EnterWord = EnterWord
      BY ConcatEmptySeq, TextFacts DEF Texts
    <3> QED
      BY <2>2, <3>1, <3>2, <1>11
  <2> QED
    BY <2>1, <2>2
<1>14. InThePipe'
  BY <1>4, <1>5, <1>8, <1>12, <1>13 DEF InThePipe
<1> QED
  BY <1>14 DEF LineIsSomewhere

LEMMA BackspaceKeepsLine ==
    ASSUME LinesAreSimple, TypeOK, AllFit, LineIsSomewhere, ReadBackspace
    PROVE  LineIsSomewhere'
<1>1. /\ typing # <<>> /\ Head(typing) = Backspace /\ typing' = Tail(typing)
      /\ UNCHANGED <<typed, logicVars>>
  BY DEF Key, ReadBackspace
<1>2. PICK p \in 0 .. Len(Current) - 1, b \in 0 .. Len(Current) : BeingTyped(p, b)
  BY <1>1, WhereKeysComeFrom
<1> DEFINE line == Current
<1>3. /\ line \in Seq(Keys) /\ MakesOneInput(line)
      /\ p \in Nat /\ p < Len(line) /\ b \in 0 .. p /\ Len(line) \in Nat
      /\ line[p + 1] = Backspace /\ typing' = SubSeq(line, p + 1 + 1, Len(line))
      /\ Len(keypad) = p - b
      /\ line # <<Backspace>> => Len(keypad) = Pending(line, p)
  BY <1>1, <1>2, LineBeingTyped
<1>4. line = Current' /\ Keyed' = Keyed /\ typed' = typed
  BY <1>1, LinesOfKeypad
<1>5. /\ ErasedUpTo(line, p, b) /\ keypadPipe = <<>> /\ Len(Keyed) + 1 = Len(typed)
  BY <1>2 DEF BeingTyped
<1>6. Len(<<>>) = 0 /\ (Len(keypad) = 0 => keypad = <<>>)
  BY EmptySeq DEF TypeOK
<1> HIDE DEF line
<1>7. CASE line = <<Backspace>>
  <2>1. Len(line) = 1
    BY <1>7
  <2>2. p = 0 /\ b = 0
    BY <1>3, <2>1
  <2>3. typing' = <<>>
    BY <1>3, <2>1, <2>2, SubSeqEmpty
  <2>4. keypad = <<>>
    BY <1>3, <1>6, <2>2
  <2>5. keypad' = <<>> /\ keypadPipe' = <<>> \o BackspaceWord
    BY <1>5, <2>4 DEF ReadBackspace
  <2>6. <<>> \o BackspaceWord = BackspaceWord
    BY ConcatEmptySeq, TextFacts DEF Texts
  <2>7. InThePipe'
    BY <1>4, <1>5, <1>7, <2>3, <2>5, <2>6, MeaningOfLine DEF InThePipe
  <2> QED
    BY <2>7 DEF LineIsSomewhere
<1>8. CASE line # <<Backspace>>
  <2>1. Pending(line, p) # 0 /\ line[Len(line)] = Enter
    BY <1>3, <1>8 DEF MakesOneInput
  <2>2. keypad # <<>>
    BY <1>3, <1>6, <1>8, <2>1
  <2>3. keypad' = <<>> /\ keypadPipe' = keypadPipe
    BY <2>2 DEF ReadBackspace
  <2>4. ErasedUpTo(line, p + 1, p + 1)
    BY <1>3, <1>5, OneKeyFurther
  <2>5. SubSeq(line, p + 1 + 1, p + 1) = <<>>
    BY <1>3, SubSeqEmpty
  <2>6. p + 1 # Len(line)
    BY <1>3, <2>1 DEF Enter, Backspace
  <2>7. p + 1 \in 0 .. Len(line) - 1 /\ p + 1 \in 0 .. Len(line)
    BY <1>3, <2>6
  <2>8. BeingTyped(p + 1, p + 1)'
    BY <1>3, <1>4, <1>5, <2>3, <2>4, <2>5 DEF BeingTyped
  <2> QED
    BY <1>4, <2>7, <2>8 DEF LineIsSomewhere
<1> QED
  BY <1>7, <1>8

(* The buffer never gets full on the way.                                  *)
LEMMA BufferNeverFull ==
    ASSUME LinesAreSimple, TypeOK, AllFit, LineIsSomewhere
    PROVE  ~checkBufferOverflow
<1>1. BufferSize \in Nat /\ BufferSize > 0
  BY TextFacts, InputAssumption DEF ReadSize
<1>2. CASE keypad = <<>>
  <2>1. Len(keypad) = 0
    BY <1>2, EmptySeq
  <2> QED
    BY <1>1, <2>1 DEF checkBufferOverflow
<1>3. CASE \E p \in 0 .. Len(Current) - 1, b \in 0 .. Len(Current) : BeingTyped(p, b)
  <2>1. Len(keypad) < BufferSize /\ Len(keypad) \in Nat
    BY <1>3, LineBeingTyped, LenProperties DEF TypeOK
  <2> QED
    BY <1>1, <2>1 DEF checkBufferOverflow
<1> QED
  BY <1>2, <1>3 DEF LineIsSomewhere, AtRest, InThePipe

LEMMA BeginKeepsLine ==
    ASSUME LinesAreSimple, TypeOK, paced, AllFit', AllFit => LineIsSomewhere /\ HeardAsMeant,
           NEW line \in Lines, BeginLine(line)
    PROVE  LineIsSomewhere' /\ HeardAsMeant'
<1> DEFINE n == Len(typed)
<1>1. /\ typing = <<>> /\ keypadPipe = <<>> /\ typing' = line /\ typed' = Append(typed, line)
      /\ keypad' = keypad /\ keypadPipe' = keypadPipe /\ heard' = heard
  BY DEF BeginLine, pipes, logicVars
<1>2. Keyed' = Keyed /\ Keyed \in Seq(Parameters) /\ Len(Keyed) \in Nat /\ n \in Nat
  BY <1>1, KeyedType DEF Keyed, Heard
<1>3. /\ DOMAIN typed = 1 .. n /\ DOMAIN typed' = 1 .. n + 1 /\ Len(typed') = n + 1
      /\ \A i \in 1 .. n : typed'[i] = typed[i]
      /\ typed'[n + 1] = line
  BY <1>1, AppendProperties, LenProperties DEF TypeOK
<1> HIDE DEF n
<1>4. AllFit /\ Fits(line)
  <2>1. \A i \in 1 .. n + 1 : Fits(typed'[i])
    BY <1>3 DEF AllFit, Fits
  <2>2. \A i \in 1 .. n : i \in 1 .. n + 1
    BY <1>2
  <2>3. n + 1 \in 1 .. n + 1
    BY <1>2
  <2> QED
    BY <1>3, <2>1, <2>2, <2>3 DEF AllFit
<1>5. LineIsSomewhere /\ HeardAsMeant
  BY <1>4
<1>6. AtRest
  <2>1. ~InThePipe
    BY <1>1, MeaningOfLine DEF InThePipe
  <2>2. \A p \in 0 .. Len(Current) - 1, b \in 0 .. Len(Current) : ~BeingTyped(p, b)
    BY <1>1, <1>4, LineBeingTyped
  <2> QED
    BY <1>5, <2>1, <2>2 DEF LineIsSomewhere
<1>7. keypad = <<>> /\ Len(Keyed) = n
  BY <1>6 DEF AtRest, n
<1>8. line \in Seq(Keys) /\ MakesOneInput(line)
  BY <1>4, InputAssumption DEF LinesAreSimple
<1>9. Len(line) \in Nat \ {0}
  <2>1. line # <<>>
    <3>1. CASE line = <<Backspace>>
      <4>1. Len(line) = 1 /\ Len(<<>>) = 0
        BY <3>1
      <4> QED
        BY <4>1
    <3> QED
      BY <1>8, <3>1 DEF MakesOneInput
  <2> QED
    BY <1>8, <2>1, EmptySeq
<1>10. Current' = line
  BY <1>3 DEF Current
<1>11. BeingTyped(0, 0)'
  <2>1. SubSeq(line, 0 + 1, Len(line)) = line
    BY <1>8, SubSeqFull
  <2>2. SubSeq(line, 0 + 1, 0) = <<>>
    BY SubSeqEmpty
  <2>3. ErasedUpTo(line, 0, 0)
    BY DEF ErasedUpTo
  <2>4. Len(Keyed') + 1 = Len(typed')
    BY <1>2, <1>3, <1>7
  <2> QED
    BY <1>1, <1>7, <1>10, <2>1, <2>2, <2>3, <2>4 DEF BeingTyped
<1>12. LineIsSomewhere'
  <2>1. 0 \in 0 .. Len(line) - 1 /\ 0 \in 0 .. Len(line)
    BY <1>9
  <2> QED
    BY <1>10, <1>11, <2>1 DEF LineIsSomewhere
<1>13. HeardAsMeant'
  BY <1>2, <1>3, <1>5, <1>7 DEF HeardAsMeant
<1> QED
  BY <1>12, <1>13

LEMMA ReadKeepsLine ==
    ASSUME LinesAreSimple, TypeOK, AllFit, LineIsSomewhere, HeardAsMeant, ReadKeypadPipe
    PROVE  LineIsSomewhere' /\ HeardAsMeant'
<1> DEFINE text == SubSeq(keypadPipe, 1, ReadLength)
           p == KeypadParameter(text)
<1>1. /\ keypadPipe # <<>> /\ keypadPipe \in Texts
      /\ UNCHANGED <<typing, typed, keypad>>
  BY DEF ReadKeypadPipe, keypadVars, TypeOK
<1>2. InThePipe
  BY <1>1 DEF LineIsSomewhere, AtRest, BeingTyped
<1>3. /\ typing = <<>> /\ keypad = <<>> /\ keypadPipe = Meaning(Current)
      /\ Len(Keyed) + 1 = Len(typed) /\ Fits(Current)
  BY <1>2, CurrentLine DEF InThePipe
<1>4. ReadLength = Len(keypadPipe)
  <2>1. Len(keypadPipe) <= ReadSize
    BY <1>3 DEF Fits
  <2>2. Len(keypadPipe) \in Nat /\ ReadSize \in Nat
    BY <1>1, LenProperties, TextFacts DEF Texts
  <2> QED
    BY <2>1, <2>2 DEF ReadLength
<1>5. /\ ReadLength \in 1 .. Len(keypadPipe)
      /\ p \in Parameters /\ p.type # "Card" /\ ProcessEvent(p)
      /\ keypadPipe' = SubSeq(keypadPipe, ReadLength + 1, Len(keypadPipe))
  BY <1>1, ReadKeypadPipeFacts
<1>6. text = keypadPipe /\ keypadPipe' = <<>>
  BY <1>1, <1>4, <1>5, TextsSplit
<1>7. p = KeypadParameter(Meaning(Current))
  BY <1>3, <1>6
<1>8. Keyed \in Seq(Parameters) /\ Len(Keyed) \in Nat
  BY KeyedType
<1> HIDE DEF p
<1>9. Keyed' = Append(Keyed, p)
  <2>1. heard \in Seq(Parameters) /\ heard' = Append(heard, p)
    BY <1>5 DEF TypeOK, ProcessEvent
  <2>2. p.type \in InputTypes \ {"Card"}
    BY <1>5, EventFacts
  <2> QED
    BY <1>5, <2>1, <2>2, HeardGrows DEF Keyed
<1>10. /\ Len(Keyed') = Len(Keyed) + 1
       /\ \A i \in 1 .. Len(Keyed) : Keyed'[i] = Keyed[i]
       /\ Keyed'[Len(Keyed) + 1] = p
  BY <1>5, <1>8, <1>9, AppendProperties
<1>11. AtRest'
  BY <1>1, <1>3, <1>6, <1>10 DEF AtRest
<1>12. HeardAsMeant'
  <2> SUFFICES ASSUME NEW i \in 1 .. Len(Keyed) + 1
               PROVE  Keyed'[i] = KeypadParameter(Meaning(typed[i]))
    BY <1>1, <1>10 DEF HeardAsMeant
  <2>1. CASE i \in 1 .. Len(Keyed)
    BY <1>10, <2>1 DEF HeardAsMeant
  <2>2. CASE i = Len(Keyed) + 1
    BY <1>3, <1>7, <1>10, <2>2 DEF Current
  <2> QED
    BY <1>8, <2>1, <2>2
<1> QED
  BY <1>11, <1>12 DEF LineIsSomewhere

(* What the line is not about.                                             *)
LEMMA OthersKeepLine ==
    ASSUME UNCHANGED <<typing, typed, keypad, keypadPipe>>, Keyed' = Keyed
    PROVE  /\ LineIsSomewhere => LineIsSomewhere'
           /\ HeardAsMeant => HeardAsMeant'
           /\ AllFit' => AllFit
<1>1. Current' = Current
  BY DEF Current
<1>2. \A p, b : BeingTyped(p, b) => BeingTyped(p, b)'
  BY <1>1 DEF BeingTyped
<1>3. (AtRest => AtRest') /\ (InThePipe => InThePipe')
  BY <1>1 DEF AtRest, InThePipe
<1>4. LineIsSomewhere => LineIsSomewhere'
  BY <1>1, <1>2, <1>3 DEF LineIsSomewhere
<1> QED
  BY <1>4 DEF HeardAsMeant, AllFit

LEMMA NextLinesInv ==
    ASSUME LinesAreSimple, TypeOK, LinesInv, [Next]_vars
    PROVE  LinesInv'
<1> SUFFICES ASSUME paced', AllFit'
             PROVE  LineIsSomewhere' /\ HeardAsMeant'
  BY DEF LinesInv
<1>1. paced
  BY DEF Next, vars, ReadStep, KeypadStep, BeginLine, checkBufferOverflow, ReadCharacter,
         ReadEnter, ReadBackspace, Key, ReadCard, TimerExpires, ReadKeypadPipe, ReadCardPipe,
         doSend
<1>2. AllFit => LineIsSomewhere /\ HeardAsMeant
  BY <1>1 DEF LinesInv
<1>3. ASSUME NEW line \in Lines, BeginLine(line)
      PROVE  LineIsSomewhere' /\ HeardAsMeant'
  BY <1>1, <1>2, <1>3, BeginKeepsLine
<1>4. CASE KeypadStep
  <2>1. UNCHANGED <<typed, logicVars>>
    BY <1>4 DEF KeypadStep, checkBufferOverflow, ReadCharacter, ReadEnter, ReadBackspace, Key
  <2>2. AllFit /\ LineIsSomewhere /\ HeardAsMeant'
    BY <1>2, <2>1, LinesOfKeypad
  <2>3. ReadCharacter \/ ReadEnter \/ ReadBackspace
    BY <1>4, <2>2, BufferNeverFull DEF KeypadStep
  <2> QED
    BY <2>2, <2>3, CharacterKeepsLine, EnterKeepsLine, BackspaceKeepsLine
<1>5. CASE ReadKeypadPipe
  <2>1. typed' = typed
    BY <1>5 DEF ReadKeypadPipe, keypadVars
  <2>2. AllFit
    BY <2>1 DEF AllFit
  <2> QED
    BY <1>2, <1>5, <2>2, ReadKeepsLine
<1>6. CASE ReadCardPipe
  <2>1. UNCHANGED <<typing, typed, keypad, keypadPipe>>
    BY <1>6 DEF ReadCardPipe, keypadVars
  <2> DEFINE p == CardParameter(Piece(cardPipe, CardReadSize))
  <2>2. /\ heard \in Seq(Parameters) /\ heard' = Append(heard, p)
        /\ p \in Parameters /\ p.type = "Card"
    BY <1>6, ReadCardPipeFacts, CardParameterType DEF TypeOK, ProcessEvent
  <2> HIDE DEF p
  <2>3. Keyed' = Keyed
    BY <2>2, HeardGrows DEF Keyed
  <2> QED
    BY <1>2, <2>1, <2>3, OthersKeepLine
<1>7. CASE UNCHANGED <<typing, typed, keypad, keypadPipe, heard>>
  <2>1. Keyed' = Keyed
    BY <1>7 DEF Keyed, Heard
  <2> QED
    BY <1>2, <1>7, <2>1, OthersKeepLine
<1>8. \/ \E line \in Lines : BeginLine(line)
      \/ KeypadStep
      \/ ReadKeypadPipe
      \/ ReadCardPipe
      \/ UNCHANGED <<typing, typed, keypad, keypadPipe, heard>>
  BY DEF Next, vars, ReadStep, ReadCard, TimerExpires, doSend, keypadVars, logicVars, pipes
<1> QED
  BY <1>3, <1>4, <1>5, <1>6, <1>7, <1>8

LEMMA InitLinesInv == Init => LinesInv
<1> SUFFICES ASSUME Init
             PROVE  LinesInv
  OBVIOUS
<1>1. Keyed = <<>>
  BY NothingHeard DEF Init, Keyed
<1>2. Len(<<>>) = 0 /\ \A i : i \notin 1 .. 0
  BY EmptySeq
<1>3. AtRest
  BY <1>1, <1>2 DEF Init, AtRest
<1> QED
  BY <1>1, <1>2, <1>3 DEF LinesInv, LineIsSomewhere, HeardAsMeant

(* When each line is only begun after the last one was dealt with, every   *)
(* line that fits into the reader's buffer is heard as one input, as it    *)
(* was meant: for all lines that the keypad makes one input of.            *)
THEOREM LinesAlwaysArriveWhole == LinesAreSimple => (Spec => []LinesArriveWhole)
<1> SUFFICES ASSUME LinesAreSimple
             PROVE  Spec => []LinesArriveWhole
  OBVIOUS
<1>1. TypeOK /\ LinesInv /\ [Next]_vars => LinesInv'
  BY NextLinesInv
<1>2. TypeOK /\ LinesInv => LinesArriveWhole
  <2> SUFFICES ASSUME TypeOK, LinesInv, paced, AllFit
               PROVE  Len(Keyed) <= Len(typed) /\ HeardAsMeant
    <3>1. DOMAIN Keyed = 1 .. Len(Keyed) \/ ~TypeOK
      BY KeyedType, LenProperties
    <3> QED
      BY <3>1 DEF LinesArriveWhole, Keyed, AllFit, Fits, HeardAsMeant
  <2>1. LineIsSomewhere /\ HeardAsMeant
    BY DEF LinesInv
  <2>2. Len(Keyed) \in Nat /\ Len(typed) \in Nat
    BY KeyedType
  <2>3. Len(Keyed) = Len(typed) \/ Len(Keyed) + 1 = Len(typed)
    BY <2>1 DEF LineIsSomewhere, AtRest, BeingTyped, InThePipe
  <2> QED
    BY <2>1, <2>2, <2>3
<1> QED
  BY <1>1, <1>2, InitLinesInv, InputTypeCorrect, PTL DEF Spec
=============================================================================
