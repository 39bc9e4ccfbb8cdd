-------------------------- MODULE HandshakeProofs --------------------------
(***************************************************************************)
(* Theorems about the handshakes of send(), for every topology of links,   *)
(* every queue size and every interruption by signals.                     *)
(*                                                                         *)
(* The invariant counts. A handshake of m with d is a token that is in one *)
(* of four places: requested (the RTS is on its way, or m is in the        *)
(* waiting list of d), cleared (the CTS is on its way), the message is on  *)
(* its way, or its acknowledgement is. A sane mailbox has at most one      *)
(* token and its automaton says where; a mailbox whose automaton has       *)
(* rejected something may leave its token behind. A receiver that waits    *)
(* for the message of m has no other token of m, so what it gets is the    *)
(* message m is in send() with; and an acknowledgement is only on its way  *)
(* from somebody who has the message.                                      *)
(*                                                                         *)
(* The counts are cardinalities of sets of positions; the first part is    *)
(* about what appending to and taking from a queue does to them.           *)
(***************************************************************************)
EXTENDS MailboxProofs, FiniteSetTheorems

(* The places of a sequence that hold a member of P, and how many they     *)
(* are.                                                                    *)
Places(s, P) == {i \in DOMAIN s : s[i] \in P}

Number(s, P) == Cardinality(Places(s, P))

(* The messages of a type and a source.                                    *)
Kind(type, src) == {x \in Message : x.type = type /\ x.src = src}

(* The messages of a type from s to r that are queued at r, that s is      *)
(* about to queue (mq_send blocks on a full queue), and both together.     *)
Queued(s, type, r) == Number(queue[r], Kind(type, s))

Posted(s, type, r) == IF InOutbox(s, type, r) THEN 1 ELSE 0

InTransit(s, type, r) == Posted(s, type, r) + Queued(s, type, r)

(* How often d has noted m in its waiting list.                            *)
Held(m, d) == Number(waitingList[d], {m})

(* The four places of a handshake of m with d: requested, cleared, the     *)
(* message on its way, the acknowledgement on its way.                     *)
Asked(m, d) == InTransit(m, "RTS", d) + Held(m, d)
Cleared(m, d) == InTransit(d, "CTS", m)
Letters(m, d) == InTransit(m, "MESSAGE", d)
Answers(m, d) == InTransit(d, "ACK", m)

(* The process lives and its automaton has rejected nothing.               *)
Sane(m) == call[m] # "exited" /\ errorStatus[m] = "AUT_OK"

(* Where the sender m of a handshake with d is, and where the receiver d   *)
(* is once it has cleared m.                                               *)
SendingTo(m, d) == call[m] = "send" /\ buffer[m].dst = d

Asking(m, d) == SendingTo(m, d) /\ state[m] \in {"RTS_Sent", "HoldState"}
Transferring(m, d) == SendingTo(m, d) /\ state[m] = "WaitingACK"

Expecting(d, m) == state[d] = "WaitingMSG" /\ buffer[d].dst = m

(* The messages that travel between mailboxes.                             *)
WireTypes == Signals \cup DataTypes

Wire(x) == x.type \in WireTypes /\ x.src \in Mailboxes /\ x.dst \in Mailboxes

(* Every message is where its addresses say, and only names of mailboxes   *)
(* are put on hold.                                                        *)
Addressed(m) ==
    /\ outbox[m] = EmptyMessage \/ (Wire(outbox[m]) /\ outbox[m].src = m)
    /\ \A i \in DOMAIN queue[m] : Wire(queue[m][i]) /\ queue[m][i].dst = m
    /\ \A i \in DOMAIN waitingList[m] : waitingList[m][i] \in Mailboxes

(* At most one token for the handshake of m with d, and while m lives and  *)
(* has rejected nothing only in a place that its automaton accounts for.   *)
TokenOK(m, d) ==
    /\ Sane(m) => /\ Asked(m, d) + Cleared(m, d) <= IF Asking(m, d) THEN 1 ELSE 0
                  /\ Letters(m, d) + Answers(m, d) <= IF Transferring(m, d) THEN 1 ELSE 0
    /\ Asked(m, d) + Cleared(m, d) + Letters(m, d) + Answers(m, d) <= 1

(* A receiver that waits for the message of m has no request of m left,    *)
(* and the clearance or the message of a sane m is on its way.             *)
ExpectOK(d) ==
    Sane(d) /\ state[d] = "WaitingMSG" =>
       LET m == buffer[d].dst IN
       /\ m \in Mailboxes
       /\ Asked(m, d) = 0
       /\ Sane(m) => Cleared(m, d) + Letters(m, d) = 1

(* Delivered, with the buffer of a receiver only: that of a sender holds a *)
(* message of its own.                                                     *)
Taken(d, msg) ==
    \/ \E i \in DOMAIN received[d] : received[d][i] = msg
    \/ finished[d] /\ call[d] \in {"receive", "exited"} /\ buffer[d] = msg

(* What is on its way from m is the message its send() was called with.    *)
LettersOK(m) ==
    Sane(m) =>
       /\ call[m] = "send" => /\ buffer[m].type = "MESSAGE" /\ buffer[m].id # 0
                             /\ buffer[m].src = m /\ buffer[m].dst \in Mailboxes
       /\ outbox[m].type = "MESSAGE" => outbox[m] = buffer[m]
       /\ \A d \in Mailboxes : \A i \in DOMAIN queue[d] :
             queue[d][i].type = "MESSAGE" /\ queue[d][i].src = m => queue[d][i] = buffer[m]

(* Nobody acknowledges what it does not have.                              *)
AnsweredOK(m) ==
    Sane(m) =>
       /\ \A d \in Mailboxes : Answers(m, d) >= 1 => Taken(d, buffer[m])
       /\ call[m] = "send" /\ finished[m] => Taken(buffer[m].dst, buffer[m])

(* The invariant of the handshakes. It is inductive with IInv.             *)
TInv == \A m \in Mailboxes :
         /\ Addressed(m) /\ ExpectOK(m) /\ LettersOK(m) /\ AnsweredOK(m)
         /\ \A d \in Mailboxes : TokenOK(m, d)

-----------------------------------------------------------------------------
(* Counting places: the empty count, one more at the end, one less at the  *)
(* front.                                                                  *)
LEMMA NumberIsNat ==
    ASSUME NEW X, NEW s \in Seq(X), NEW P
    PROVE  /\ IsFiniteSet(Places(s, P)) /\ Number(s, P) \in Nat
           /\ Number(s, P) = 0 <=> Places(s, P) = {}
<1>1. IsFiniteSet(1 .. Len(s))
  BY FS_Interval
<1>2. Places(s, P) \in SUBSET (1 .. Len(s))
  BY DEF Places
<1>3. IsFiniteSet(Places(s, P))
  BY <1>1, <1>2, FS_Subset
<1> QED  BY <1>3, FS_CardinalityType, FS_EmptySet DEF Number

LEMMA NumberOfAppend ==
    ASSUME NEW X, NEW s \in Seq(X), NEW x \in X, NEW P
    PROVE  Number(Append(s, x), P) = Number(s, P) + (IF x \in P THEN 1 ELSE 0)
<1>1. IsFiniteSet(Places(s, P)) /\ Number(s, P) \in Nat
  BY NumberIsNat
<1>2. Len(s) + 1 \notin Places(s, P)
  BY DEF Places
<1>3. /\ x \in P => Places(Append(s, x), P) = Places(s, P) \cup {Len(s) + 1}
      /\ x \notin P => Places(Append(s, x), P) = Places(s, P)
  <2>1. /\ DOMAIN Append(s, x) = 1 .. Len(s) + 1 /\ DOMAIN s = 1 .. Len(s) /\ Len(s) \in Nat
        /\ \A i \in 1 .. Len(s) : Append(s, x)[i] = s[i]
        /\ Append(s, x)[Len(s) + 1] = x
    OBVIOUS
  <2>2. \A i : i \in Places(Append(s, x), P)
                <=> i \in Places(s, P) \/ (i = Len(s) + 1 /\ x \in P)
    BY <2>1 DEF Places
  <2> QED  BY <2>2
<1> QED  BY <1>1, <1>2, <1>3, FS_AddElement DEF Number

LEMMA NumberOfTail ==
    ASSUME NEW X, NEW s \in Seq(X), s # <<>>, NEW P
    PROVE  Number(Tail(s), P) = Number(s, P) - (IF Head(s) \in P THEN 1 ELSE 0)
<1> DEFINE later == Places(s, P) \ {1}
           f == [i \in later |-> i - 1]
<1>1. IsFiniteSet(Places(s, P)) /\ Number(s, P) \in Nat
  BY NumberIsNat
<1>2. IsFiniteSet(later) /\ Cardinality(later) = Number(s, P) - (IF 1 \in Places(s, P) THEN 1 ELSE 0)
  BY <1>1, FS_RemoveElement DEF Number
<1>3. 1 \in Places(s, P) <=> Head(s) \in P
  BY DEF Places
<1>4. Places(Tail(s), P) = {i - 1 : i \in later}
  <2>1. ASSUME NEW i \in Places(Tail(s), P) PROVE i + 1 \in later /\ i = (i + 1) - 1
    BY <2>1 DEF Places
  <2>2. ASSUME NEW i \in later PROVE i - 1 \in Places(Tail(s), P)
    BY <2>2 DEF Places
  <2> QED  BY <2>1, <2>2
<1>5. f \in Bijection(later, Places(Tail(s), P))
  <2>1. later \subseteq Nat
    BY DEF Places
  <2>2. f \in [later -> Places(Tail(s), P)]
    BY <1>4
  <2>3. \A i, j \in later : f[i] = f[j] => i = j
    BY <2>1
  <2>4. \A k \in Places(Tail(s), P) : \E i \in later : f[i] = k
    BY <1>4
  <2> HIDE DEF f, later
  <2> QED  BY <2>2, <2>3, <2>4 DEF Bijection, Injection, Surjection, IsInjective
<1>6. Cardinality(Places(Tail(s), P)) = Cardinality(later)
  BY <1>2, <1>5, FS_Bijection DEF ExistsBijection
<1> QED  BY <1>2, <1>3, <1>6 DEF Number

-----------------------------------------------------------------------------
(* Every count is a natural number.                                        *)
LEMMA CountsAreNat ==
    TypeOK => /\ \A s, r \in Mailboxes, t \in WireTypes :
                    /\ Posted(s, t, r) \in Nat /\ Queued(s, t, r) \in Nat
                    /\ InTransit(s, t, r) \in Nat
              /\ \A m, d \in Mailboxes : Held(m, d) \in Nat
<1> SUFFICES ASSUME TypeOK
             PROVE  /\ \A s, r \in Mailboxes, t \in WireTypes :
                          Posted(s, t, r) \in Nat /\ Queued(s, t, r) \in Nat
                    /\ \A m, d \in Mailboxes : Held(m, d) \in Nat
  BY DEF InTransit
<1>1. \A r \in Mailboxes : queue[r] \in Seq(Message)
  BY DEF TypeOK
<1>2. \A d \in Mailboxes : waitingList[d] \in Seq(Mailboxes \cup {NoName})
  BY DEF TypeOK
<1>3. ASSUME NEW s \in Mailboxes, NEW r \in Mailboxes, NEW t PROVE Queued(s, t, r) \in Nat
  BY <1>1, NumberIsNat DEF Queued
<1>4. ASSUME NEW m \in Mailboxes, NEW d \in Mailboxes PROVE Held(m, d) \in Nat
  BY <1>2, NumberIsNat DEF Held
<1> QED  BY <1>3, <1>4 DEF Posted

HeldTyped == \A m, d \in Mailboxes : Held(m, d) \in Nat

LEMMA HeldIsNat == TypeOK => HeldTyped
BY CountsAreNat DEF HeldTyped

(* The counts of a pair, as natural numbers.                               *)
TokensTyped ==
    \A m, d \in Mailboxes :
       /\ Asked(m, d) \in Nat /\ Cleared(m, d) \in Nat
       /\ Letters(m, d) \in Nat /\ Answers(m, d) \in Nat

LEMMA TokensAreNat == TypeOK => TokensTyped
BY CountsAreNat DEF TokensTyped, Asked, Cleared, Letters, Answers, WireTypes, Signals, DataTypes

(* A message counts for its type, its source and its destination.          *)
Is(x, s, type, r) == IF x.type = type /\ x.src = s /\ x.dst = r THEN 1 ELSE 0

(* What mq_receive and mq_send do to the counts.                           *)
LEMMA QueuedAfterTake ==
    ASSUME TypeOK, NEW m \in Mailboxes, queue[m] # <<>>,
           \A i \in DOMAIN queue[m] : queue[m][i].dst = m,
           queue' = [queue EXCEPT ![m] = Tail(@)],
           NEW s \in Mailboxes, NEW type, NEW r \in Mailboxes
    PROVE  Queued(s, type, r)' = Queued(s, type, r) - Is(Head(queue[m]), s, type, r)
<1>1. /\ queue[m] \in Seq(Message) /\ queue[r] \in Seq(Message) /\ queue[m] # <<>>
      /\ Head(queue[m]) \in Message /\ Head(queue[m]).dst = m
      /\ queue'[r] = IF r = m THEN Tail(queue[m]) ELSE queue[r]
  BY DEF TypeOK
<1>2. Head(queue[m]) \in Kind(type, s) <=> Head(queue[m]).type = type /\ Head(queue[m]).src = s
  BY <1>1 DEF Kind
<1>3. Queued(s, type, r) \in Nat
  BY <1>1, NumberIsNat DEF Queued
<1>4. Queued(s, type, r)' = Number(queue'[r], Kind(type, s))
  BY DEF Queued
<1>5. CASE r = m
  <2>1. Number(Tail(queue[m]), Kind(type, s))
          = Number(queue[m], Kind(type, s)) - (IF Head(queue[m]) \in Kind(type, s) THEN 1 ELSE 0)
    BY <1>1, NumberOfTail
  <2> QED  BY <1>1, <1>2, <1>4, <1>5, <2>1 DEF Queued, Is
<1>6. CASE r # m
  BY <1>1, <1>3, <1>4, <1>6 DEF Queued, Is
<1> QED  BY <1>5, <1>6

LEMMA QueuedAfterPut ==
    ASSUME TypeOK, NEW x \in Message, x.dst \in Mailboxes,
           queue' = [queue EXCEPT ![x.dst] = Append(@, x)],
           NEW s \in Mailboxes, NEW type, NEW r \in Mailboxes
    PROVE  Queued(s, type, r)' = Queued(s, type, r) + Is(x, s, type, r)
<1>1. /\ queue[r] \in Seq(Message)
      /\ queue'[r] = IF r = x.dst THEN Append(queue[r], x) ELSE queue[r]
  BY DEF TypeOK
<1>2. x \in Kind(type, s) <=> x.type = type /\ x.src = s
  BY <1>1 DEF Kind
<1>3. Queued(s, type, r) \in Nat
  BY <1>1, NumberIsNat DEF Queued
<1>4. Queued(s, type, r)' = Number(queue'[r], Kind(type, s))
  BY DEF Queued
<1>5. CASE r = x.dst
  <2>1. Number(Append(queue[r], x), Kind(type, s))
          = Number(queue[r], Kind(type, s)) + (IF x \in Kind(type, s) THEN 1 ELSE 0)
    BY <1>1, NumberOfAppend
  <2> QED  BY <1>1, <1>2, <1>4, <1>5, <2>1 DEF Queued, Is
<1>6. CASE r # x.dst
  BY <1>1, <1>3, <1>4, <1>6 DEF Queued, Is
<1> QED  BY <1>5, <1>6

(* What a hold and its release do to the waiting list.                     *)
LEMMA HeldAfterAppend ==
    ASSUME TypeOK, NEW m \in Mailboxes, NEW s \in Mailboxes,
           waitingList' = [waitingList EXCEPT ![m] = Append(@, s)],
           NEW n \in Mailboxes, NEW d \in Mailboxes
    PROVE  Held(n, d)' = Held(n, d) + (IF d = m /\ n = s THEN 1 ELSE 0)
<1>1. /\ waitingList[d] \in Seq(Mailboxes \cup {NoName})
      /\ waitingList'[d] = IF d = m THEN Append(waitingList[d], s) ELSE waitingList[d]
  BY DEF TypeOK
<1>2. Held(n, d)' = Number(waitingList'[d], {n}) /\ Held(n, d) \in Nat
  BY <1>1, NumberIsNat DEF Held
<1>3. CASE d = m
  <2>1. Number(Append(waitingList[d], s), {n})
          = Number(waitingList[d], {n}) + (IF s \in {n} THEN 1 ELSE 0)
    BY <1>1, NumberOfAppend
  <2> QED  BY <1>1, <1>2, <1>3, <2>1 DEF Held
<1>4. CASE d # m
  BY <1>1, <1>2, <1>4 DEF Held
<1> QED  BY <1>3, <1>4

LEMMA HeldAfterPop ==
    ASSUME TypeOK, NEW m \in Mailboxes, waitingList[m] # <<>>,
           waitingList' = [waitingList EXCEPT ![m] = Tail(@)],
           NEW n \in Mailboxes, NEW d \in Mailboxes
    PROVE  Held(n, d)' = Held(n, d) - (IF d = m /\ n = Head(waitingList[m]) THEN 1 ELSE 0)
<1>1. /\ waitingList[d] \in Seq(Mailboxes \cup {NoName})
      /\ waitingList'[d] = IF d = m THEN Tail(waitingList[d]) ELSE waitingList[d]
  BY DEF TypeOK
<1>2. Held(n, d)' = Number(waitingList'[d], {n}) /\ Held(n, d) \in Nat
  BY <1>1, NumberIsNat DEF Held
<1>3. CASE d = m
  <2>1. Number(Tail(waitingList[d]), {n})
          = Number(waitingList[d], {n}) - (IF Head(waitingList[d]) \in {n} THEN 1 ELSE 0)
    BY <1>1, <1>3, NumberOfTail
  <2> QED  BY <1>1, <1>2, <1>3, <2>1 DEF Held
<1>4. CASE d # m
  BY <1>1, <1>2, <1>4 DEF Held
<1> QED  BY <1>3, <1>4

-----------------------------------------------------------------------------
(* What a step of m leaves alone: all that belongs to the other mailboxes. *)
OthersStay(m) ==
    \A n \in Mailboxes \ {m} :
       /\ state'[n] = state[n] /\ errorStatus'[n] = errorStatus[n]
       /\ finished'[n] = finished[n] /\ buffer'[n] = buffer[n]
       /\ waitingList'[n] = waitingList[n] /\ outbox'[n] = outbox[n]
       /\ call'[n] = call[n] /\ received'[n] = received[n]

(* m, with nothing to send, takes x out of its queue (or x never was in    *)
(* one) and has y to send (or nothing).                                    *)
Exchange(m, x, y) ==
    /\ outbox[m] = EmptyMessage
    /\ outbox'[m] = y
    /\ y = EmptyMessage \/ (Wire(y) /\ y.src = m)
    /\ \/ x.type \notin WireTypes /\ queue' = queue
       \/ queue[m] # <<>> /\ x = Head(queue[m]) /\ queue' = [queue EXCEPT ![m] = Tail(@)]
    /\ OthersStay(m)

(* The parts of the invariant, each for all mailboxes.                     *)
AllAddressed == \A m \in Mailboxes : Addressed(m)

LEMMA EmptyIsNoLetter == EmptyMessage.type \notin WireTypes
BY DEF EmptyMessage, WireTypes, Signals, DataTypes

(* The counts after m took x and has y to send: x is gone, y has come.     *)
LEMMA ExchangeTransit ==
    ASSUME TypeOK, AllAddressed, NEW m \in Mailboxes, NEW x, NEW y, Exchange(m, x, y)
    PROVE  \A s, r \in Mailboxes, t \in WireTypes :
              InTransit(s, t, r)' = InTransit(s, t, r) - Is(x, s, t, r) + Is(y, s, t, r)
<1> SUFFICES ASSUME NEW s \in Mailboxes, NEW r \in Mailboxes, NEW t \in WireTypes
             PROVE  InTransit(s, t, r)' = InTransit(s, t, r) - Is(x, s, t, r) + Is(y, s, t, r)
  OBVIOUS
<1>1. Posted(s, t, r)' = Posted(s, t, r) + Is(y, s, t, r)
  BY EmptyIsNoLetter DEF Exchange, OthersStay, Posted, InOutbox, Is, AllAddressed, Addressed, Wire
<1>2. Queued(s, t, r)' = Queued(s, t, r) - Is(x, s, t, r)
  <2>1. CASE x.type \notin WireTypes /\ queue' = queue
    <3>1. Is(x, s, t, r) = 0 /\ Queued(s, t, r) \in Nat
      BY <2>1, EmptyIsNoLetter, CountsAreNat DEF Is
    <3>2. Queued(s, t, r)' = Queued(s, t, r)
      BY <2>1 DEF Queued
    <3> QED  BY <3>1, <3>2
  <2>2. CASE queue[m] # <<>> /\ x = Head(queue[m]) /\ queue' = [queue EXCEPT ![m] = Tail(@)]
    <3>1. \A i \in DOMAIN queue[m] : queue[m][i].dst = m
      BY DEF AllAddressed, Addressed
    <3>2. Queued(s, t, r)' = Queued(s, t, r) - Is(Head(queue[m]), s, t, r)
      BY <2>2, <3>1, QueuedAfterTake
    <3> QED  BY <2>2, <3>2
  <2> QED  BY <2>1, <2>2 DEF Exchange
<1>3. /\ Posted(s, t, r) \in Nat /\ Queued(s, t, r) \in Nat
      /\ Is(x, s, t, r) \in {0, 1} /\ Is(y, s, t, r) \in {0, 1}
  BY CountsAreNat DEF Is
<1>4. InTransit(s, t, r)' = Posted(s, t, r)' + Queued(s, t, r)'
  BY DEF InTransit
<1> QED  BY <1>1, <1>2, <1>3, <1>4 DEF InTransit

(* The message that was taken was counted.                                 *)
LEMMA TakenWasCounted ==
    ASSUME TypeOK, AllAddressed, NEW m \in Mailboxes, queue[m] # <<>>
    PROVE  LET x == Head(queue[m]) IN
           /\ Wire(x) /\ x.dst = m /\ x \in Message
           /\ Queued(x.src, x.type, m) >= 1
           /\ InTransit(x.src, x.type, m) >= 1
<1> DEFINE x == Head(queue[m])
<1>1. /\ queue[m] \in Seq(Message) /\ x \in Message /\ x = queue[m][1] /\ 1 \in DOMAIN queue[m]
  BY DEF TypeOK
<1>2. Wire(x) /\ x.dst = m
  BY <1>1 DEF AllAddressed, Addressed
<1>3. 1 \in Places(queue[m], Kind(x.type, x.src))
  BY <1>1 DEF Places, Kind
<1>4. Queued(x.src, x.type, m) \in Nat /\ Queued(x.src, x.type, m) # 0
  BY <1>1, <1>3, NumberIsNat DEF Queued
<1>5. Posted(x.src, x.type, m) \in Nat
  BY DEF Posted
<1> HIDE DEF x
<1>6. Queued(x.src, x.type, m) >= 1 /\ InTransit(x.src, x.type, m) >= 1
  BY <1>4, <1>5 DEF InTransit
<1> QED  BY <1>1, <1>2, <1>6 DEF x

(* Nothing new gets into a queue when a message is taken out of one.       *)
LEMMA ExchangeQueues ==
    ASSUME TypeOK, NEW m \in Mailboxes, NEW x, NEW y, Exchange(m, x, y)
    PROVE  \A d \in Mailboxes : \A i \in DOMAIN queue'[d] :
              \E j \in DOMAIN queue[d] : queue'[d][i] = queue[d][j]
<1> SUFFICES ASSUME NEW d \in Mailboxes, NEW i \in DOMAIN queue'[d]
             PROVE  \E j \in DOMAIN queue[d] : queue'[d][i] = queue[d][j]
  OBVIOUS
<1>1. CASE queue'[d] = queue[d]
  BY <1>1
<1>2. CASE d = m /\ queue[m] # <<>> /\ queue'[d] = Tail(queue[d])
  <2>1. queue[d] \in Seq(Message) /\ queue[d] # <<>>
    BY <1>2 DEF TypeOK
  <2>2. i + 1 \in DOMAIN queue[d] /\ queue'[d][i] = queue[d][i + 1]
    BY <1>2, <2>1
  <2> QED  BY <2>2
<1> QED  BY <1>1, <1>2 DEF Exchange, TypeOK

(* The addresses stay right.                                               *)
LEMMA ExchangeAddressed ==
    ASSUME TypeOK, AllAddressed, NEW m \in Mailboxes, NEW x, NEW y, Exchange(m, x, y),
           \A i \in DOMAIN waitingList'[m] : waitingList'[m][i] \in Mailboxes
    PROVE  AllAddressed'
<1> SUFFICES ASSUME NEW n \in Mailboxes PROVE Addressed(n)'
  BY DEF AllAddressed
<1>1. \A i \in DOMAIN queue'[n] : Wire(queue'[n][i]) /\ queue'[n][i].dst = n
  BY ExchangeQueues DEF AllAddressed, Addressed
<1>2. outbox'[n] = EmptyMessage \/ (Wire(outbox'[n]) /\ outbox'[n].src = n)
  BY DEF Exchange, OthersStay, AllAddressed, Addressed
<1>3. \A i \in DOMAIN waitingList'[n] : waitingList'[n][i] \in Mailboxes
  BY DEF Exchange, OthersStay, AllAddressed, Addressed
<1>4. \A z : Wire(z)' <=> Wire(z)
  BY DEF Wire
<1> QED  BY <1>1, <1>2, <1>3 DEF Addressed, Wire

(* The same for the four places of a handshake.                            *)
LEMMA ExchangeTokens ==
    ASSUME TypeOK, AllAddressed, NEW m \in Mailboxes, NEW x, NEW y, Exchange(m, x, y),
           TypeOK'
    PROVE  \A n, d \in Mailboxes :
              /\ Asked(n, d)' = Asked(n, d) - Is(x, n, "RTS", d) + Is(y, n, "RTS", d)
                                - Held(n, d) + Held(n, d)'
              /\ Cleared(n, d)' = Cleared(n, d) - Is(x, d, "CTS", n) + Is(y, d, "CTS", n)
              /\ Letters(n, d)' = Letters(n, d) - Is(x, n, "MESSAGE", d) + Is(y, n, "MESSAGE", d)
              /\ Answers(n, d)' = Answers(n, d) - Is(x, d, "ACK", n) + Is(y, d, "ACK", n)
<1> SUFFICES ASSUME NEW n \in Mailboxes, NEW d \in Mailboxes
             PROVE  /\ Asked(n, d)' = Asked(n, d) - Is(x, n, "RTS", d) + Is(y, n, "RTS", d)
                                      - Held(n, d) + Held(n, d)'
                    /\ Cleared(n, d)' = Cleared(n, d) - Is(x, d, "CTS", n) + Is(y, d, "CTS", n)
                    /\ Letters(n, d)' = Letters(n, d) - Is(x, n, "MESSAGE", d) + Is(y, n, "MESSAGE", d)
                    /\ Answers(n, d)' = Answers(n, d) - Is(x, d, "ACK", n) + Is(y, d, "ACK", n)
  OBVIOUS
<1>1. {"RTS", "CTS", "MESSAGE", "ACK"} \subseteq WireTypes
  BY DEF WireTypes, Signals, DataTypes
<1>2. \A t \in {"RTS", "CTS", "MESSAGE", "ACK"} :
         /\ InTransit(n, t, d)' = InTransit(n, t, d) - Is(x, n, t, d) + Is(y, n, t, d)
         /\ InTransit(d, t, n)' = InTransit(d, t, n) - Is(x, d, t, n) + Is(y, d, t, n)
  BY <1>1, ExchangeTransit
<1>a. HeldTyped'
  BY HeldIsNat, PTL
<1>3. /\ InTransit(n, "RTS", d) \in Nat /\ Held(n, d) \in Nat
      /\ Held(n, d)' \in Nat
      /\ Is(x, n, "RTS", d) \in Nat /\ Is(y, n, "RTS", d) \in Nat
  BY <1>1, <1>a, CountsAreNat DEF Is, HeldTyped
<1>4. /\ Asked(n, d)' = InTransit(n, "RTS", d)' + Held(n, d)'
      /\ Asked(n, d) = InTransit(n, "RTS", d) + Held(n, d)
  BY DEF Asked
<1> QED  BY <1>2, <1>3, <1>4 DEF Cleared, Letters, Answers

(* A count of nothing leaves nothing in the queue.                         *)
LEMMA NoLetterQueued ==
    ASSUME TypeOK, NEW m \in Mailboxes, NEW d \in Mailboxes, Letters(m, d) = 0
    PROVE  /\ \A i \in DOMAIN queue[d] : ~(queue[d][i].type = "MESSAGE" /\ queue[d][i].src = m)
           /\ ~InOutbox(m, "MESSAGE", d)
<1>1. Posted(m, "MESSAGE", d) = 0 /\ Queued(m, "MESSAGE", d) = 0
  BY CountsAreNat DEF Letters, InTransit, WireTypes, DataTypes, Posted
<1>2. queue[d] \in Seq(Message)
  BY DEF TypeOK
<1>3. Places(queue[d], Kind("MESSAGE", m)) = {}
  BY <1>1, <1>2, NumberIsNat DEF Queued
<1> QED  BY <1>1, <1>2, <1>3 DEF Places, Kind, Posted

AllTokens == \A m, d \in Mailboxes : TokenOK(m, d)
AllExpect == \A m \in Mailboxes : ExpectOK(m)
AllLetters == \A m \in Mailboxes : LettersOK(m)
AllAnswered == \A m \in Mailboxes : AnsweredOK(m)

(* The invariant, part by part.                                            *)
LEMMA TInvParts ==
    TInv <=> AllAddressed /\ AllTokens /\ AllExpect /\ AllLetters /\ AllAnswered
BY DEF TInv, AllAddressed, AllTokens, AllExpect, AllLetters, AllAnswered

(* What the receiver m has taken from its senders stays taken.             *)
TakenGrows(m) == \A msg : msg.id # 0 /\ Taken(m, msg) => Taken(m, msg)'

(* What is on its way from m stays the message of its send().              *)
LEMMA LettersStay ==
    ASSUME TypeOK, AllLetters, NEW m \in Mailboxes, NEW x, NEW y, Exchange(m, x, y),
           Sane(m)' =>
             /\ Sane(m)
             /\ buffer'[m] = buffer[m] \/ \A d \in Mailboxes : Letters(m, d) = 0
             /\ y.type = "MESSAGE" => y = buffer'[m]
             /\ call'[m] = "send" => /\ buffer'[m].type = "MESSAGE" /\ buffer'[m].id # 0
                                     /\ buffer'[m].src = m /\ buffer'[m].dst \in Mailboxes
    PROVE  AllLetters'
<1> SUFFICES ASSUME NEW n \in Mailboxes, Sane(n)' PROVE LettersOK(n)'
  BY DEF AllLetters, LettersOK
<1>1. ASSUME NEW d \in Mailboxes, NEW i \in DOMAIN queue'[d],
             queue'[d][i].type = "MESSAGE", queue'[d][i].src = n
      PROVE  queue'[d][i] = buffer'[n]
  <2>1. PICK j \in DOMAIN queue[d] : queue'[d][i] = queue[d][j]
    BY ExchangeQueues
  <2>2. Sane(n)
    BY DEF Exchange, OthersStay, Sane
  <2>3. queue[d][j] = buffer[n] /\ Letters(n, d) # 0
    BY <1>1, <2>1, <2>2, NoLetterQueued DEF AllLetters, LettersOK
  <2> QED  BY <2>1, <2>3 DEF Exchange, OthersStay
<1>2. outbox'[n].type = "MESSAGE" => outbox'[n] = buffer'[n]
  BY DEF Exchange, OthersStay, AllLetters, LettersOK, Sane
<1>3. call'[n] = "send" => /\ buffer'[n].type = "MESSAGE" /\ buffer'[n].id # 0
                           /\ buffer'[n].src = n /\ buffer'[n].dst \in Mailboxes
  BY DEF Exchange, OthersStay, AllLetters, LettersOK, Sane
<1> QED  BY <1>1, <1>2, <1>3 DEF LettersOK

(* No acknowledgement comes before its message.                            *)
LEMMA AnswersStay ==
    ASSUME TypeOK, AllTokens, AllLetters, AllAnswered,
           NEW m \in Mailboxes, OthersStay(m), TakenGrows(m),
           \A n \in Mailboxes \ {m}, d \in Mailboxes :
              Answers(n, d)' >= 1 =>
                 \/ Answers(n, d) >= 1
                 \/ d = m /\ (Sane(n) => Taken(m, buffer[n])'),
           Sane(m)' =>
             /\ Sane(m)
             /\ \A d \in Mailboxes : Answers(m, d)' >= 1 =>
                   Answers(m, d) >= 1 /\ buffer'[m] = buffer[m]
             /\ call'[m] = "send" /\ finished'[m] =>
                   /\ buffer'[m] = buffer[m] /\ call[m] = "send"
                   /\ finished[m] \/ Answers(m, buffer[m].dst) >= 1
    PROVE  AllAnswered'
<1> SUFFICES ASSUME NEW n \in Mailboxes, Sane(n)' PROVE AnsweredOK(n)'
  BY DEF AllAnswered, AnsweredOK
<1>1. Sane(n) /\ AnsweredOK(n) /\ LettersOK(n)
  BY DEF OthersStay, Sane, AllAnswered, AllLetters
<1>2. ASSUME NEW d \in Mailboxes, NEW msg, msg.id # 0, Taken(d, msg)
      PROVE  Taken(d, msg)'
  <2>1. CASE d = m
    BY <1>2, <2>1 DEF TakenGrows
  <2>2. CASE d # m
    BY <1>2, <2>2 DEF OthersStay, Taken
  <2> QED  BY <2>1, <2>2
<1>3. ASSUME NEW d \in Mailboxes, Taken(d, buffer[n]), buffer[n].id # 0, buffer'[n] = buffer[n]
      PROVE  Taken(d, buffer[n])'
  <2>1. \A msg : msg = buffer[n] => Taken(d, msg)'
    BY <1>2, <1>3
  <2> QED  BY <1>3, <2>1 DEF Taken
<1>4. ASSUME NEW d \in Mailboxes, Answers(n, d) >= 1
      PROVE  Taken(d, buffer[n]) /\ buffer[n].id # 0
  <2>1. Transferring(n, d)
    BY <1>1, <1>4, TokensAreNat DEF TokensTyped, AllTokens, TokenOK
  <2> QED  BY <1>1, <1>4, <2>1 DEF Transferring, SendingTo, LettersOK, AnsweredOK
<1>5. /\ \A d \in Mailboxes : Answers(n, d)' >= 1 => Taken(d, buffer[n])'
  <2> SUFFICES ASSUME NEW d \in Mailboxes, Answers(n, d)' >= 1 PROVE Taken(d, buffer[n])'
    OBVIOUS
  <2>1. CASE n = m
    BY <1>3, <1>4, <2>1
  <2>2. CASE n # m
    BY <1>1, <1>3, <1>4, <2>2 DEF OthersStay
  <2> QED  BY <2>1, <2>2
<1>6. ASSUME call'[n] = "send" /\ finished'[n]
      PROVE  Taken(buffer[n].dst, buffer[n])'
  <2>1. buffer'[n] = buffer[n] /\ call[n] = "send"
    BY <1>6 DEF OthersStay
  <2>2. buffer[n].dst \in Mailboxes /\ buffer[n].id # 0
    BY <1>1, <2>1 DEF LettersOK
  <2>3. Taken(buffer[n].dst, buffer[n])
    <3>1. finished[n] \/ Answers(n, buffer[n].dst) >= 1
      BY <1>6 DEF OthersStay
    <3> QED  BY <1>1, <1>4, <2>1, <2>2, <3>1 DEF AnsweredOK
  <2>4. \A d \in Mailboxes : d = buffer[n].dst => Taken(d, buffer[n])'
    BY <1>3, <2>1, <2>2, <2>3
  <2> QED  BY <2>1, <2>2, <2>4 DEF Taken
<1> QED  BY <1>5, <1>6 DEF AnsweredOK

-----------------------------------------------------------------------------
(* The tokens when a step of m changes their counts by so much.            *)

(* The moves of a token. A step moves the token of one handshake from one  *)
(* place to the next, or none.                                             *)
Unit(n, d, s, m) == IF n = s /\ d = m THEN 1 ELSE 0

SameCounts(n, d) ==
    /\ Asked(n, d)' = Asked(n, d) /\ Cleared(n, d)' = Cleared(n, d)
    /\ Letters(n, d)' = Letters(n, d) /\ Answers(n, d)' = Answers(n, d)

(* The request of s to m becomes a clearance, the clearance a message, the *)
(* message an acknowledgement; a request is made, an acknowledgement used. *)
Unmoved == \A n, d \in Mailboxes : SameCounts(n, d)

Granted(s, m) ==
    \A n, d \in Mailboxes :
       /\ Asked(n, d)' = Asked(n, d) - Unit(n, d, s, m)
       /\ Cleared(n, d)' = Cleared(n, d) + Unit(n, d, s, m)
       /\ Letters(n, d)' = Letters(n, d) /\ Answers(n, d)' = Answers(n, d)

Transferred(s, m) ==
    \A n, d \in Mailboxes :
       /\ Asked(n, d)' = Asked(n, d)
       /\ Cleared(n, d)' = Cleared(n, d) - Unit(n, d, s, m)
       /\ Letters(n, d)' = Letters(n, d) + Unit(n, d, s, m)
       /\ Answers(n, d)' = Answers(n, d)

Accepted(s, m) ==
    \A n, d \in Mailboxes :
       /\ Asked(n, d)' = Asked(n, d) /\ Cleared(n, d)' = Cleared(n, d)
       /\ Letters(n, d)' = Letters(n, d) - Unit(n, d, s, m)
       /\ Answers(n, d)' = Answers(n, d) + Unit(n, d, s, m)

Answered(s, m) ==
    \A n, d \in Mailboxes :
       /\ Asked(n, d)' = Asked(n, d) /\ Cleared(n, d)' = Cleared(n, d)
       /\ Letters(n, d)' = Letters(n, d)
       /\ Answers(n, d)' = Answers(n, d) - Unit(n, d, s, m)

Requested(s, m) ==
    \A n, d \in Mailboxes :
       /\ Asked(n, d)' = Asked(n, d) + Unit(n, d, s, m)
       /\ Cleared(n, d)' = Cleared(n, d)
       /\ Letters(n, d)' = Letters(n, d) /\ Answers(n, d)' = Answers(n, d)

(* No token moves, and m stays what it was to its peers.                   *)
LEMMA QuietTokens ==
    ASSUME TypeOK, AllTokens, AllExpect, NEW m \in Mailboxes, OthersStay(m),
           Unmoved,
           Sane(m)' => Sane(m),
           \A d \in Mailboxes : /\ Asking(m, d) => Asking(m, d)'
                                /\ Transferring(m, d) => Transferring(m, d)',
           Sane(m)' /\ state'[m] = "WaitingMSG" =>
              state[m] = "WaitingMSG" /\ buffer'[m].dst = buffer[m].dst
    PROVE  AllTokens' /\ AllExpect'
<1> USE DEF Unmoved, SameCounts
<1>1. ASSUME NEW n \in Mailboxes, NEW d \in Mailboxes PROVE TokenOK(n, d)'
  <2>1. TokenOK(n, d)
    BY DEF AllTokens
  <2>2. /\ Sane(n)' => Sane(n)
        /\ Asking(n, d) => Asking(n, d)'
        /\ Transferring(n, d) => Transferring(n, d)'
    BY DEF OthersStay, Sane, Asking, Transferring, SendingTo
  <2> QED  BY <2>1, <2>2, TokensAreNat DEF TokenOK, TokensTyped
<1>2. ASSUME NEW d \in Mailboxes PROVE ExpectOK(d)'
  <2>1. ExpectOK(d)
    BY DEF AllExpect
  <2>2. /\ Sane(d)' => Sane(d)
        /\ Sane(d)' /\ state'[d] = "WaitingMSG"
              => state[d] = "WaitingMSG" /\ buffer'[d].dst = buffer[d].dst
        /\ \A n \in Mailboxes : Sane(n)' => Sane(n)
    BY DEF OthersStay, Sane
  <2> QED  BY <2>1, <2>2 DEF ExpectOK
<1> QED  BY <1>1, <1>2 DEF AllTokens, AllExpect

(* m is out of order, and what is lost was between m and another mailbox.  *)
LEMMA LostTokens ==
    ASSUME TypeOK, TypeOK', AllTokens, AllExpect, NEW m \in Mailboxes, OthersStay(m),
           ~Sane(m)',
           \A n, d \in Mailboxes :
              /\ Asked(n, d)' <= Asked(n, d) /\ Cleared(n, d)' <= Cleared(n, d)
              /\ Letters(n, d)' <= Letters(n, d) /\ Answers(n, d)' <= Answers(n, d)
              /\ n # m /\ d # m => SameCounts(n, d)
    PROVE  AllTokens' /\ AllExpect'
<1>a. TokensTyped /\ TokensTyped'
  BY TokensAreNat, PTL
<1>1. ASSUME NEW n \in Mailboxes, NEW d \in Mailboxes PROVE TokenOK(n, d)'
  <2>1. TokenOK(n, d)
    BY DEF AllTokens
  <2>2. /\ Sane(n)' => Sane(n)
        /\ n # m => Asking(n, d) = Asking(n, d)'
        /\ n # m => Transferring(n, d) = Transferring(n, d)'
        /\ Sane(n)' => n # m
    BY DEF OthersStay, Sane, Asking, Transferring, SendingTo
  <2>3. /\ Asked(n, d) \in Nat /\ Cleared(n, d) \in Nat
        /\ Letters(n, d) \in Nat /\ Answers(n, d) \in Nat
        /\ Asked(n, d)' \in Int /\ Cleared(n, d)' \in Int
        /\ Letters(n, d)' \in Int /\ Answers(n, d)' \in Int
    BY <1>a DEF TokensTyped
  <2> QED  BY <2>1, <2>2, <2>3 DEF TokenOK
<1>2. ASSUME NEW d \in Mailboxes PROVE ExpectOK(d)'
  <2>1. ExpectOK(d)
    BY DEF AllExpect
  <2>2. /\ Sane(d)' => Sane(d) /\ d # m
        /\ d # m => state'[d] = state[d] /\ buffer'[d].dst = buffer[d].dst
        /\ \A n \in Mailboxes : Sane(n)' => Sane(n) /\ n # m
    BY DEF OthersStay, Sane
  <2>3. ASSUME NEW p \in Mailboxes, d # m, Asked(p, d) = 0,
               Sane(p) => Cleared(p, d) + Letters(p, d) = 1
        PROVE  Asked(p, d)' = 0 /\ (Sane(p)' => Cleared(p, d)' + Letters(p, d)' = 1)
    <3>1. Asked(p, d)' \in Nat
      BY <1>a DEF TokensTyped
    <3> QED  BY <2>2, <2>3, <3>1 DEF SameCounts
  <2> QED  BY <2>1, <2>2, <2>3 DEF ExpectOK
<1> QED  BY <1>1, <1>2 DEF AllTokens, AllExpect

(* m clears the sender s, whose request was on its way or on hold.         *)
LEMMA GrantedTokens ==
    ASSUME TypeOK, TypeOK', AllTokens, AllExpect,
           NEW m \in Mailboxes, NEW s \in Mailboxes, OthersStay(m),
           call[m] # "send", call'[m] # "send", Sane(m), Sane(m)',
           state'[m] = "WaitingMSG", buffer'[m].dst = s, Asked(s, m) >= 1,
           Granted(s, m)
    PROVE  AllTokens' /\ AllExpect'
<1> USE DEF Granted
<1>a. TokensTyped /\ TokensTyped'
  BY TokensAreNat, PTL
<1>1. ASSUME NEW n \in Mailboxes, NEW d \in Mailboxes PROVE TokenOK(n, d)'
  <2>1. TokenOK(n, d)
    BY DEF AllTokens
  <2>2. /\ Sane(n)' => Sane(n)
        /\ Asking(n, d) => Asking(n, d)'
        /\ Transferring(n, d) => Transferring(n, d)'
    BY DEF OthersStay, Sane, Asking, Transferring, SendingTo
  <2> QED  BY <1>a, <2>1, <2>2 DEF TokenOK, TokensTyped, Unit
<1>2. /\ s \in Mailboxes /\ Asked(s, m)' = 0
      /\ Sane(s)' => Cleared(s, m)' + Letters(s, m)' = 1
  <2>1. TokenOK(s, m)
    BY DEF AllTokens
  <2>2. Sane(s)' => Sane(s)
    BY DEF OthersStay, Sane
  <2>3. ~(Asking(s, m) /\ Transferring(s, m))
    BY DEF Asking, Transferring
  <2> QED  BY <1>a, <2>1, <2>2, <2>3 DEF TokenOK, TokensTyped, Unit
<1>3. ASSUME NEW d \in Mailboxes PROVE ExpectOK(d)'
  <2>1. CASE d = m
    BY <1>2, <2>1 DEF ExpectOK
  <2>2. CASE d # m
    <3>1. ExpectOK(d)
      BY DEF AllExpect
    <3>2. /\ Sane(d)' => Sane(d)
          /\ state'[d] = state[d] /\ buffer'[d].dst = buffer[d].dst
          /\ \A n \in Mailboxes : Sane(n)' => Sane(n)
      BY <2>2 DEF OthersStay, Sane
    <3>3. \A n \in Mailboxes : /\ Asked(n, d)' = Asked(n, d) /\ Cleared(n, d)' = Cleared(n, d)
                               /\ Letters(n, d)' = Letters(n, d)
      BY <1>a, <2>2 DEF Unit, TokensTyped
    <3> QED  BY <3>1, <3>2, <3>3 DEF ExpectOK
  <2> QED  BY <2>1, <2>2
<1> QED  BY <1>1, <1>3 DEF AllTokens, AllExpect

(* m takes the clearance of s and has its message to send.                 *)
LEMMA TransferredTokens ==
    ASSUME TypeOK, TypeOK', AllTokens, AllExpect,
           NEW m \in Mailboxes, NEW s \in Mailboxes, OthersStay(m),
           Sane(m), Sane(m)', Cleared(m, s) >= 1,
           Transferring(m, s)',
           Transferred(m, s)
    PROVE  AllTokens' /\ AllExpect'
<1> USE DEF Transferred
<1>a. TokensTyped /\ TokensTyped'
  BY TokensAreNat, PTL
<1>b. state'[m] = "WaitingACK" /\ Asking(m, s)
  BY <1>a DEF Transferring, AllTokens, TokenOK, TokensTyped
<1>1. ASSUME NEW n \in Mailboxes, NEW d \in Mailboxes PROVE TokenOK(n, d)'
  <2>1. TokenOK(n, d) /\ TokenOK(m, s)
    BY DEF AllTokens
  <2>2. CASE n # m
    <3>1. /\ Sane(n)' => Sane(n)
          /\ Asking(n, d) => Asking(n, d)'
          /\ Transferring(n, d) => Transferring(n, d)'
      BY <2>2 DEF OthersStay, Sane, Asking, Transferring, SendingTo
    <3> QED  BY <1>a, <2>1, <2>2, <3>1 DEF TokenOK, TokensTyped, Unit
  <2>3. CASE n = m /\ d = s
    <3>1. ~Transferring(m, s)
      BY <1>b DEF Asking, Transferring
    <3> QED  BY <1>a, <2>1, <2>3, <3>1 DEF TokenOK, TokensTyped, Unit
  <2>4. CASE n = m /\ d # s
    <3>1. ~Asking(m, d) /\ ~Transferring(m, d)
      BY <1>b, <2>4 DEF Asking, Transferring, SendingTo
    <3> QED  BY <1>a, <2>1, <2>4, <3>1 DEF TokenOK, TokensTyped, Unit
  <2> QED  BY <2>2, <2>3, <2>4
<1>2. ASSUME NEW d \in Mailboxes PROVE ExpectOK(d)'
  <2>1. ExpectOK(d)
    BY DEF AllExpect
  <2>2. /\ Sane(d)' => Sane(d)
        /\ state'[d] = "WaitingMSG" => state[d] = "WaitingMSG" /\ buffer'[d].dst = buffer[d].dst
        /\ \A n \in Mailboxes : Sane(n)' => Sane(n)
    BY <1>b DEF OthersStay, Sane
  <2>3. \A n \in Mailboxes : /\ Asked(n, d)' = Asked(n, d)
                             /\ Cleared(n, d)' + Letters(n, d)' = Cleared(n, d) + Letters(n, d)
    BY <1>a DEF TokensTyped, Unit
  <2> QED  BY <2>1, <2>2, <2>3 DEF ExpectOK
<1> QED  BY <1>1, <1>2 DEF AllTokens, AllExpect

(* m takes the message of s and has the acknowledgement to send.           *)
LEMMA AcceptedTokens ==
    ASSUME TypeOK, TypeOK', AllTokens, AllExpect,
           NEW m \in Mailboxes, NEW s \in Mailboxes, OthersStay(m),
           Sane(m), Sane(m)', call[m] # "send", call'[m] # "send",
           state'[m] # "WaitingMSG",
           Accepted(s, m)
    PROVE  AllTokens' /\ AllExpect'
<1> USE DEF Accepted
<1>a. TokensTyped /\ TokensTyped'
  BY TokensAreNat, PTL
<1>1. ASSUME NEW n \in Mailboxes, NEW d \in Mailboxes PROVE TokenOK(n, d)'
  <2>1. TokenOK(n, d)
    BY DEF AllTokens
  <2>2. /\ Sane(n)' => Sane(n)
        /\ Asking(n, d) => Asking(n, d)'
        /\ Transferring(n, d) => Transferring(n, d)'
    BY DEF OthersStay, Sane, Asking, Transferring, SendingTo
  <2> QED  BY <1>a, <2>1, <2>2 DEF TokenOK, TokensTyped, Unit
<1>2. ASSUME NEW d \in Mailboxes PROVE ExpectOK(d)'
  <2>1. CASE d = m
    BY <2>1 DEF ExpectOK
  <2>2. CASE d # m
    <3>1. ExpectOK(d)
      BY DEF AllExpect
    <3>2. /\ Sane(d)' => Sane(d)
          /\ state'[d] = state[d] /\ buffer'[d].dst = buffer[d].dst
          /\ \A n \in Mailboxes : Sane(n)' => Sane(n)
      BY <2>2 DEF OthersStay, Sane
    <3>3. \A n \in Mailboxes : /\ Asked(n, d)' = Asked(n, d) /\ Cleared(n, d)' = Cleared(n, d)
                               /\ Letters(n, d)' = Letters(n, d)
      BY <1>a, <2>2 DEF Unit, TokensTyped
    <3> QED  BY <3>1, <3>2, <3>3 DEF ExpectOK
  <2> QED  BY <2>1, <2>2
<1> QED  BY <1>1, <1>2 DEF AllTokens, AllExpect

(* m takes the acknowledgement of s.                                       *)
LEMMA FinishedTokens ==
    ASSUME TypeOK, TypeOK', AllTokens, AllExpect,
           NEW m \in Mailboxes, NEW s \in Mailboxes, OthersStay(m),
           Sane(m), Sane(m)', Answers(m, s) >= 1, state'[m] # "WaitingMSG",
           Answered(m, s)
    PROVE  AllTokens' /\ AllExpect'
<1> USE DEF Answered
<1>a. TokensTyped /\ TokensTyped'
  BY TokensAreNat, PTL
<1>b. Transferring(m, s)
  BY <1>a DEF AllTokens, TokenOK, TokensTyped
<1>1. ASSUME NEW n \in Mailboxes, NEW d \in Mailboxes PROVE TokenOK(n, d)'
  <2>1. TokenOK(n, d) /\ TokenOK(m, s)
    BY DEF AllTokens
  <2>2. CASE n # m
    <3>1. /\ Sane(n)' => Sane(n)
          /\ Asking(n, d) => Asking(n, d)'
          /\ Transferring(n, d) => Transferring(n, d)'
      BY <2>2 DEF OthersStay, Sane, Asking, Transferring, SendingTo
    <3> QED  BY <1>a, <2>1, <2>2, <3>1 DEF TokenOK, TokensTyped, Unit
  <2>3. CASE n = m
    <3>1. ~Asking(m, d) /\ (Transferring(m, d) => d = s)
      BY <1>b DEF Asking, Transferring, SendingTo
    <3> QED  BY <1>a, <2>1, <2>3, <3>1 DEF TokenOK, TokensTyped, Unit
  <2> QED  BY <2>2, <2>3
<1>2. ASSUME NEW d \in Mailboxes PROVE ExpectOK(d)'
  <2>1. ExpectOK(d)
    BY DEF AllExpect
  <2>2. /\ Sane(d)' => Sane(d)
        /\ state'[d] = "WaitingMSG" => state[d] = "WaitingMSG" /\ buffer'[d].dst = buffer[d].dst
        /\ \A n \in Mailboxes : Sane(n)' => Sane(n)
    BY DEF OthersStay, Sane
  <2> QED  BY <2>1, <2>2 DEF ExpectOK
<1> QED  BY <1>1, <1>2 DEF AllTokens, AllExpect

(* m, which had no handshake, has a request for s to send.                 *)
LEMMA RequestedTokens ==
    ASSUME TypeOK, TypeOK', AllTokens, AllExpect,
           NEW m \in Mailboxes, NEW s \in Mailboxes, OthersStay(m),
           Sane(m), Sane(m)', call[m] # "send", Asking(m, s)',
           Requested(m, s)
    PROVE  AllTokens' /\ AllExpect'
<1> USE DEF Requested
<1>a. TokensTyped /\ TokensTyped'
  BY TokensAreNat, PTL
<1>b. \A d \in Mailboxes : /\ Asked(m, d) = 0 /\ Cleared(m, d) = 0
                           /\ Letters(m, d) = 0 /\ Answers(m, d) = 0
  <2> SUFFICES ASSUME NEW d \in Mailboxes
               PROVE  /\ Asked(m, d) = 0 /\ Cleared(m, d) = 0
                      /\ Letters(m, d) = 0 /\ Answers(m, d) = 0
    OBVIOUS
  <2>1. TokenOK(m, d)
    BY DEF AllTokens
  <2>2. ~Asking(m, d) /\ ~Transferring(m, d)
    BY DEF Asking, Transferring, SendingTo
  <2> QED  BY <1>a, <2>1, <2>2 DEF TokenOK, TokensTyped
<1>1. ASSUME NEW n \in Mailboxes, NEW d \in Mailboxes PROVE TokenOK(n, d)'
  <2>1. TokenOK(n, d)
    BY DEF AllTokens
  <2>2. CASE n # m
    <3>1. /\ Sane(n)' => Sane(n)
          /\ Asking(n, d) => Asking(n, d)'
          /\ Transferring(n, d) => Transferring(n, d)'
      BY <2>2 DEF OthersStay, Sane, Asking, Transferring, SendingTo
    <3> QED  BY <1>a, <2>1, <2>2, <3>1 DEF TokenOK, TokensTyped, Unit
  <2>3. CASE n = m
    BY <1>a, <1>b, <2>3 DEF TokenOK, Unit
  <2> QED  BY <2>2, <2>3
<1>2. ASSUME NEW d \in Mailboxes PROVE ExpectOK(d)'
  <2>1. ExpectOK(d)
    BY DEF AllExpect
  <2>2. /\ Sane(d)' => Sane(d)
        /\ state'[d] = "WaitingMSG" => state[d] = "WaitingMSG" /\ buffer'[d].dst = buffer[d].dst
        /\ \A n \in Mailboxes : Sane(n)' => Sane(n)
    BY DEF OthersStay, Sane, Asking
  <2>3. Sane(d) /\ state[d] = "WaitingMSG" => buffer[d].dst # m
    BY <1>b, <2>1 DEF ExpectOK
  <2>4. \A n \in Mailboxes : /\ n # m => Asked(n, d)' = Asked(n, d)
                             /\ Cleared(n, d)' + Letters(n, d)' = Cleared(n, d) + Letters(n, d)
    BY <1>a DEF TokensTyped, Unit
  <2> QED  BY <2>1, <2>2, <2>3, <2>4 DEF ExpectOK
<1> QED  BY <1>1, <1>2 DEF AllTokens, AllExpect

-----------------------------------------------------------------------------
(* Rounds of the loops of send() and receive().                            *)

(* An event of m changes nothing of the automaton of another mailbox.      *)
LEMMA PerformOthers ==
    ASSUME AutomatonTypeOK, NEW m \in Mailboxes, NEW action, NEW msg, NEW b,
           Perform(action, m, msg, b)
    PROVE  \A n \in Mailboxes \ {m} :
              /\ buffer'[n] = buffer[n] /\ outbox'[n] = outbox[n]
              /\ waitingList'[n] = waitingList[n] /\ finished'[n] = finished[n]
<1> USE DEF AutomatonTypeOK
<1>a. CASE action = "Void" /\ DoVoid(m, b)
  BY <1>a DEF DoVoid
<1>b. CASE action = "ClearFinishedFlag" /\ DoClearFinishedFlag(m)
  BY <1>b DEF DoClearFinishedFlag
<1>c. CASE action = "SetFinishedFlag" /\ DoSetFinishedFlag(m, b)
  BY <1>c DEF DoSetFinishedFlag
<1>d. CASE action = "EnqueueAndHold" /\ DoEnqueueAndHold(m, msg, b)
  BY <1>d DEF DoEnqueueAndHold
<1>e. CASE action = "SendRTS" /\ DoSendRTS(m, msg)
  BY <1>e DEF DoSendRTS
<1>f. CASE action = "DequeueAndCTS" /\ DoDequeueAndCTS(m, b)
  BY <1>f DEF DoDequeueAndCTS
<1>g. CASE action = "SendMsg" /\ DoSendMsg(m, b)
  BY <1>g DEF DoSendMsg
<1>h. CASE action = "SendCTS" /\ DoSendCTS(m, msg, b)
  BY <1>h DEF DoSendCTS
<1>i. CASE action = "SendACK" /\ DoSendACK(m, msg)
  BY <1>i DEF DoSendACK
<1>j. CASE action = "SaveMessage" /\ DoSaveMessage(m, msg)
  BY <1>j DEF DoSaveMessage
<1> QED
  BY <1>a, <1>b, <1>c, <1>d, <1>e, <1>f, <1>g, <1>h, <1>i, <1>j DEF Perform

(* processEvent and the owner of m touch what belongs to m only.           *)
LEMMA EventOthers ==
    ASSUME AutomatonTypeOK, NEW m \in Mailboxes, NEW event, NEW msg, NEW b,
           Accept(m, event, msg, b) \/ Reject(m, event, b),
           \A n \in Mailboxes \ {m} : call'[n] = call[n] /\ received'[n] = received[n]
    PROVE  OthersStay(m)
<1>1. CASE Accept(m, event, msg, b)
  <2>1. PICK row \in Rows(m, event) :
           /\ state' = [state EXCEPT ![m] = row[3]]
           /\ errorStatus' = [errorStatus EXCEPT ![m] = "AUT_OK"]
           /\ Perform(row[4], m, msg, b)
    BY <1>1 DEF Accept
  <2>2. \A n \in Mailboxes \ {m} : state'[n] = state[n] /\ errorStatus'[n] = errorStatus[n]
    BY <2>1 DEF AutomatonTypeOK
  <2> QED  BY <2>1, <2>2, PerformOthers DEF OthersStay
<1>2. CASE Reject(m, event, b)
  BY <1>2 DEF Reject, AutomatonTypeOK, OthersStay
<1> QED  BY <1>1, <1>2

(* m waits in a loop, and x has come out of its queue or is made up.       *)
Round(m, x) ==
    /\ TypeOK /\ TypeOK' /\ TInv /\ Coherent(m)
    /\ Waiting(m) /\ x \in Message
    /\ \/ x.type \notin WireTypes /\ queue' = queue
       \/ queue[m] # <<>> /\ x = Head(queue[m]) /\ queue' = [queue EXCEPT ![m] = Tail(@)]
    /\ call' = call /\ received' = received
    /\ OthersStay(m)

(* What is known when a round starts.                                      *)
LEMMA RoundStart ==
    ASSUME NEW m \in Mailboxes, NEW x, Round(m, x)
    PROVE  /\ AllAddressed /\ AllTokens /\ AllExpect /\ AllLetters /\ AllAnswered
           /\ Sane(m) /\ call[m] \in {"send", "receive"} /\ outbox[m] = EmptyMessage
           /\ ~finished[m] /\ TokensTyped /\ TokensTyped'
           /\ call[m] = "send" => state[m] \in {"RTS_Sent", "HoldState", "WaitingACK"}
           /\ call[m] = "receive" => state[m] \in {"WaitingRTS", "WaitingMSG"}
           /\ call[m] = "send" => /\ buffer[m].type = "MESSAGE" /\ buffer[m].id # 0
                                  /\ buffer[m].src = m /\ buffer[m].dst \in Mailboxes
           /\ TakenGrows(m)
<1>1. AllAddressed /\ AllTokens /\ AllExpect /\ AllLetters /\ AllAnswered
  BY TInvParts DEF Round
<1>2. /\ Sane(m) /\ call[m] \in {"send", "receive"} /\ outbox[m] = EmptyMessage /\ ~finished[m]
  BY DEF Round, Waiting, TaskCompleted, Sane
<1>3. /\ call[m] = "send" => state[m] \in {"RTS_Sent", "HoldState", "WaitingACK"}
      /\ call[m] = "receive" => state[m] \in {"WaitingRTS", "WaitingMSG"}
  BY <1>2 DEF Round, Coherent, Sane, SendStates, ReceiveStates
<1>4. TypeOK /\ TypeOK'
  BY DEF Round
<1>5. TokensTyped /\ TokensTyped'
  BY <1>4, TokensAreNat, PTL
<1>6. TakenGrows(m)
  BY <1>2 DEF Round, TakenGrows, Taken
<1>7. call[m] = "send" => /\ buffer[m].type = "MESSAGE" /\ buffer[m].id # 0
                          /\ buffer[m].src = m /\ buffer[m].dst \in Mailboxes
  BY <1>1, <1>2 DEF AllLetters, LettersOK
<1> QED  BY <1>1, <1>2, <1>3, <1>5, <1>6, <1>7

(* What a round takes from the queue and has to send.                      *)
LEMMA RoundExchange ==
    ASSUME NEW m \in Mailboxes, NEW x, Round(m, x), NEW y, outbox'[m] = y,
           y = EmptyMessage \/ (Wire(y) /\ y.src = m)
    PROVE  Exchange(m, x, y)
BY DEF Round, Waiting, Exchange

LEMMA RoundCame ==
    ASSUME NEW m \in Mailboxes, NEW x, Round(m, x), x.type \in WireTypes
    PROVE  /\ x.src \in Mailboxes /\ x.dst = m
           /\ InTransit(x.src, x.type, m) >= 1
           /\ \E i \in DOMAIN queue[m] : x = queue[m][i]
<1>1. queue[m] # <<>> /\ x = Head(queue[m]) /\ TypeOK /\ AllAddressed
  BY RoundStart DEF Round
<1>2. queue[m] \in Seq(Message) /\ 1 \in DOMAIN queue[m] /\ x = queue[m][1]
  BY <1>1 DEF TypeOK
<1> QED  BY <1>1, <1>2, TakenWasCounted DEF Wire

(* The rest of the invariant follows where the tokens are in order.        *)
LEMMA RoundKeeps ==
    ASSUME NEW m \in Mailboxes, NEW x, Round(m, x), NEW y, Exchange(m, x, y),
           AllTokens' /\ AllExpect',
           \A i \in DOMAIN waitingList'[m] : waitingList'[m][i] \in Mailboxes,
           buffer'[m] = buffer[m] \/ call[m] = "receive",
           y.type = "MESSAGE" => y = buffer'[m],
           \A n \in Mailboxes \ {m}, d \in Mailboxes :
              Answers(n, d)' >= 1 =>
                 \/ Answers(n, d) >= 1
                 \/ d = m /\ (Sane(n) => Taken(m, buffer[n])'),
           \A d \in Mailboxes : Answers(m, d)' >= 1 => Answers(m, d) >= 1,
           call[m] = "send" /\ finished'[m] => Answers(m, buffer[m].dst) >= 1
    PROVE  TInv'
<1>1. TypeOK /\ TypeOK' /\ OthersStay(m) /\ call' = call
  BY DEF Round
<1>2. /\ AllAddressed /\ AllTokens /\ AllExpect /\ AllLetters /\ AllAnswered
      /\ Sane(m) /\ TokensTyped /\ TakenGrows(m) /\ call[m] \in {"send", "receive"}
  BY RoundStart
<1>3. call[m] = "receive" =>
         \A d \in Mailboxes : Letters(m, d) = 0 /\ Answers(m, d) = 0
  <2> SUFFICES ASSUME call[m] = "receive", NEW d \in Mailboxes
               PROVE  Letters(m, d) = 0 /\ Answers(m, d) = 0
    OBVIOUS
  <2>1. TokenOK(m, d) /\ ~Transferring(m, d)
    BY <1>2 DEF AllTokens, Transferring, SendingTo
  <2> QED  BY <1>2, <2>1 DEF TokenOK, TokensTyped
<1>4. AllAddressed'
  BY <1>1, <1>2, ExchangeAddressed
<1>5. AllLetters'
  <2>1. call'[m] = "send" => /\ buffer'[m].type = "MESSAGE" /\ buffer'[m].id # 0
                             /\ buffer'[m].src = m /\ buffer'[m].dst \in Mailboxes
    BY <1>1, RoundStart
  <2> QED  BY <1>1, <1>2, <1>3, <2>1, LettersStay
<1>6. AllAnswered'
  <2>1. \A d \in Mailboxes : Answers(m, d)' >= 1 =>
           Answers(m, d) >= 1 /\ buffer'[m] = buffer[m]
    BY <1>2, <1>3
  <2>2. call'[m] = "send" /\ finished'[m] =>
           /\ buffer'[m] = buffer[m] /\ call[m] = "send"
           /\ finished[m] \/ Answers(m, buffer[m].dst) >= 1
    BY <1>1
  <2> QED  BY <1>1, <1>2, <2>1, <2>2, AnswersStay
<1>7. (AllAddressed /\ AllTokens /\ AllExpect /\ AllLetters /\ AllAnswered)'
  BY <1>4, <1>5, <1>6
<1> QED  BY <1>7, TInvParts, PTL

(* What m does with x when its automaton has a row for it.                 *)
HoldStep(m, x) ==
    /\ x.type = "RTS" /\ x.src # buffer[m].dst
    /\ state[m] # "WaitingRTS" /\ state'[m] = state[m]
    /\ DoEnqueueAndHold(m, x, buffer[m])

(* A request that is cleared at once.                                      *)
GrantStep(m, x) ==
    /\ x.type = "RTS" /\ x.src # buffer[m].dst
    /\ state[m] = "WaitingRTS" /\ state'[m] = "WaitingMSG"
    /\ DoSendCTS(m, x, buffer[m])

(* The clearance comes and the message is sent.                            *)
TransferStep(m, x) ==
    /\ x.type = "CTS" /\ x.src = buffer[m].dst
    /\ state[m] \in {"RTS_Sent", "HoldState"} /\ state'[m] = "WaitingACK"
    /\ DoSendMsg(m, buffer[m])

(* The acknowledgement comes.                                              *)
FinishStep(m, x) ==
    /\ x.type = "ACK" /\ x.src = buffer[m].dst
    /\ state[m] = "WaitingACK" /\ state'[m] = "ActionSuccessfulyEnded"
    /\ DoSetFinishedFlag(m, buffer[m])

(* The message comes and is acknowledged.                                  *)
AcceptStep(m, x) ==
    /\ x.type \in {"RTS", "MESSAGE", "SYSCALL_INTERRUPTED"} /\ x.src = buffer[m].dst
    /\ state[m] = "WaitingMSG" /\ state'[m] = "ActionSuccessfulyEnded"
    /\ DoSendACK(m, x)

(* The sender is told to wait.                                             *)
HeldStep(m, x) ==
    /\ x.type = "HOLD" /\ x.src = buffer[m].dst
    /\ state[m] = "RTS_Sent" /\ state'[m] = "HoldState"
    /\ DoVoid(m, buffer[m])

(* A notice, or the end of the time limit, that changes nothing.           *)
IgnoreStep(m, x) ==
    /\ \/ x.type = "MESSAGE_CONNECTIONLESS"
       \/ x.type \in {"TIMED_OUT", "EMPTY"} /\ state[m] = "WaitingMSG"
    /\ state[m] # "WaitingRTS" /\ state'[m] = state[m]
    /\ DoVoid(m, buffer[m])

(* A notice, or the end of the time limit, that ends a receive().          *)
SaveStep(m, x) ==
    /\ x.type \in {"MESSAGE_CONNECTIONLESS", "TIMED_OUT", "EMPTY"}
    /\ state[m] = "WaitingRTS" /\ state'[m] = "ActionSuccessfulyEnded"
    /\ DoSaveMessage(m, x)

(* A request is put on hold.                                               *)
LEMMA HoldFacts ==
    ASSUME NEW m \in Mailboxes, NEW x, Round(m, x), HoldStep(m, x)
    PROVE  LET y == Signal(m, x.src, "HOLD") IN
           /\ x.src \in Mailboxes /\ x.dst = m
           /\ Exchange(m, x, y)
           /\ Wire(y) /\ y.src = m /\ y.type = "HOLD" /\ y.dst = x.src
           /\ buffer'[m] = buffer[m] /\ finished'[m] = finished[m] /\ call'[m] = call[m]
           /\ \A i \in DOMAIN waitingList'[m] : waitingList'[m][i] \in Mailboxes
           /\ Unmoved
<1> DEFINE y == Signal(m, x.src, "HOLD")
<1>1. TypeOK /\ TypeOK' /\ OthersStay(m) /\ x.src \in Mailboxes /\ x.dst = m /\ x.type = "RTS"
  BY RoundCame DEF Round, WireTypes, Signals, HoldStep
<1>2. /\ outbox'[m] = y /\ buffer'[m] = buffer[m] /\ finished'[m] = finished[m]
      /\ waitingList' = [waitingList EXCEPT ![m] = Append(@, x.src)] /\ call'[m] = call[m]
  BY <1>1 DEF HoldStep, DoEnqueueAndHold, TypeOK, Round
<1>3. /\ Wire(y) /\ y.src = m /\ y.type = "HOLD" /\ y.dst = x.src
  BY <1>1 DEF Wire, Signal, WireTypes, Signals
<1> HIDE DEF y
<1>4. Exchange(m, x, y)
  BY <1>2, <1>3, RoundExchange
<1>5. \A n, d \in Mailboxes : Held(n, d)' = Held(n, d) + (IF d = m /\ n = x.src THEN 1 ELSE 0)
  <2>1. PICK s \in Mailboxes : s = x.src
    BY <1>1
  <2>2. waitingList' = [waitingList EXCEPT ![m] = Append(@, s)]
    BY <1>2, <2>1
  <2> QED  BY <1>1, <2>1, <2>2, HeldAfterAppend
<1>6. ASSUME NEW n \in Mailboxes, NEW d \in Mailboxes PROVE SameCounts(n, d)
  <2>1. /\ Is(x, n, "RTS", d) = (IF d = m /\ n = x.src THEN 1 ELSE 0)
        /\ Is(x, d, "CTS", n) = 0 /\ Is(x, n, "MESSAGE", d) = 0 /\ Is(x, d, "ACK", n) = 0
        /\ Is(y, n, "RTS", d) = 0
        /\ Is(y, d, "CTS", n) = 0 /\ Is(y, n, "MESSAGE", d) = 0 /\ Is(y, d, "ACK", n) = 0
    BY <1>1, <1>3 DEF Is
  <2>2. /\ Held(n, d) \in Nat
        /\ Asked(n, d) \in Nat /\ Cleared(n, d) \in Nat
        /\ Letters(n, d) \in Nat /\ Answers(n, d) \in Nat
    BY <1>1, RoundStart, HeldIsNat DEF HeldTyped, TokensTyped
  <2> QED  BY <1>1, <1>4, <1>5, <2>1, <2>2, RoundStart, ExchangeTokens DEF SameCounts
<1>7. \A i \in DOMAIN waitingList'[m] : waitingList'[m][i] \in Mailboxes
  <2>1. /\ waitingList[m] \in Seq(Mailboxes \cup {NoName})
        /\ waitingList'[m] = Append(waitingList[m], x.src)
        /\ \A i \in DOMAIN waitingList[m] : waitingList[m][i] \in Mailboxes
    BY <1>1, <1>2, RoundStart DEF TypeOK, AllAddressed, Addressed
  <2> QED  BY <1>1, <2>1
<1>8. Unmoved
  BY <1>6 DEF Unmoved
<1> QED  BY <1>1, <1>2, <1>3, <1>4, <1>7, <1>8 DEF y

LEMMA HoldRound ==
    ASSUME NEW m \in Mailboxes, NEW x, Round(m, x), errorStatus'[m] = "AUT_OK", HoldStep(m, x)
    PROVE  TInv'
<1> DEFINE y == Signal(m, x.src, "HOLD")
<1>1. /\ Exchange(m, x, y) /\ y.type # "MESSAGE"
      /\ buffer'[m] = buffer[m] /\ finished'[m] = finished[m] /\ call'[m] = call[m]
      /\ \A i \in DOMAIN waitingList'[m] : waitingList'[m][i] \in Mailboxes
      /\ Unmoved
  BY HoldFacts
<1>2. TypeOK /\ OthersStay(m) /\ state'[m] = state[m]
  BY DEF Round, HoldStep
<1> HIDE DEF y
<1>3. AllTokens' /\ AllExpect'
  <2>1. \A d \in Mailboxes : /\ Asking(m, d) => Asking(m, d)'
                             /\ Transferring(m, d) => Transferring(m, d)'
    BY <1>1, <1>2 DEF Asking, Transferring, SendingTo
  <2> QED  BY <1>1, <1>2, <2>1, RoundStart, QuietTokens
<1>4. \A n, d \in Mailboxes : Answers(n, d)' >= 1 => Answers(n, d) >= 1
  BY <1>1 DEF Unmoved, SameCounts
<1>5. ~finished'[m]
  BY <1>1, RoundStart
<1> QED  BY <1>1, <1>3, <1>4, <1>5, RoundKeeps

(* A round in which no token moves: a notice, a hold, a time limit.        *)
LEMMA QuietFacts ==
    ASSUME NEW m \in Mailboxes, NEW x, Round(m, x),
           HeldStep(m, x) \/ IgnoreStep(m, x) \/ SaveStep(m, x)
    PROVE  /\ Exchange(m, x, EmptyMessage) /\ Unmoved
           /\ x.type \notin {"RTS", "CTS", "MESSAGE", "ACK"}
           /\ waitingList'[m] = waitingList[m] /\ call'[m] = call[m]
           /\ \/ /\ finished'[m] = finished[m] /\ buffer'[m] = buffer[m]
                 /\ \/ state'[m] = state[m]
                    \/ state[m] = "RTS_Sent" /\ state'[m] = "HoldState"
              \/ call[m] = "receive" /\ state'[m] = "ActionSuccessfulyEnded"
<1>1. /\ TypeOK /\ OthersStay(m) /\ call'[m] = call[m] /\ outbox[m] = EmptyMessage
  BY DEF Round, Waiting
<1>2. x.type \notin {"RTS", "CTS", "MESSAGE", "ACK"}
  BY DEF HeldStep, IgnoreStep, SaveStep
<1>3. outbox'[m] = EmptyMessage /\ waitingList'[m] = waitingList[m]
  BY <1>1 DEF HeldStep, IgnoreStep, SaveStep, DoVoid, DoSaveMessage
<1>4. Exchange(m, x, EmptyMessage)
  BY <1>3, RoundExchange
<1>5. ASSUME NEW n \in Mailboxes, NEW d \in Mailboxes PROVE SameCounts(n, d)
  <2>1. /\ Is(x, n, "RTS", d) = 0
        /\ Is(x, d, "CTS", n) = 0 /\ Is(x, n, "MESSAGE", d) = 0 /\ Is(x, d, "ACK", n) = 0
        /\ Is(EmptyMessage, n, "RTS", d) = 0 /\ Is(EmptyMessage, d, "CTS", n) = 0
        /\ Is(EmptyMessage, n, "MESSAGE", d) = 0 /\ Is(EmptyMessage, d, "ACK", n) = 0
    BY <1>2 DEF Is, EmptyMessage
  <2>2. Held(n, d)' = Held(n, d)
    BY <1>1, <1>3 DEF Held, OthersStay
  <2>3. /\ Held(n, d) \in Nat
        /\ Asked(n, d) \in Nat /\ Cleared(n, d) \in Nat
        /\ Letters(n, d) \in Nat /\ Answers(n, d) \in Nat
    BY <1>1, RoundStart, HeldIsNat DEF HeldTyped, TokensTyped
  <2>4. TypeOK'
    BY DEF Round
  <2> QED  BY <1>1, <1>4, <2>1, <2>2, <2>3, <2>4, RoundStart, ExchangeTokens DEF SameCounts
<1>6. \/ /\ finished'[m] = finished[m] /\ buffer'[m] = buffer[m]
         /\ \/ state'[m] = state[m]
            \/ state[m] = "RTS_Sent" /\ state'[m] = "HoldState"
      \/ call[m] = "receive" /\ state'[m] = "ActionSuccessfulyEnded"
  <2>1. CASE HeldStep(m, x)
    BY <1>1, <2>1 DEF HeldStep, DoVoid, TypeOK
  <2>2. CASE IgnoreStep(m, x)
    BY <1>1, <2>2 DEF IgnoreStep, DoVoid, TypeOK
  <2>3. CASE SaveStep(m, x)
    BY <2>3, RoundStart DEF SaveStep
  <2> QED  BY <2>1, <2>2, <2>3
<1>7. Unmoved
  BY <1>5 DEF Unmoved
<1> QED  BY <1>1, <1>2, <1>3, <1>4, <1>6, <1>7

LEMMA QuietRound ==
    ASSUME NEW m \in Mailboxes, NEW x, Round(m, x), errorStatus'[m] = "AUT_OK",
           HeldStep(m, x) \/ IgnoreStep(m, x) \/ SaveStep(m, x)
    PROVE  TInv'
<1>1. /\ Exchange(m, x, EmptyMessage) /\ Unmoved
      /\ waitingList'[m] = waitingList[m] /\ call'[m] = call[m]
      /\ \/ /\ finished'[m] = finished[m] /\ buffer'[m] = buffer[m]
            /\ \/ state'[m] = state[m]
               \/ state[m] = "RTS_Sent" /\ state'[m] = "HoldState"
         \/ call[m] = "receive" /\ state'[m] = "ActionSuccessfulyEnded"
  BY QuietFacts
<1>2. TypeOK /\ OthersStay(m)
  BY DEF Round
<1>3. AllTokens' /\ AllExpect'
  <2>1. \A d \in Mailboxes : /\ Asking(m, d) => Asking(m, d)'
                             /\ Transferring(m, d) => Transferring(m, d)'
    BY <1>1, RoundStart DEF Asking, Transferring, SendingTo
  <2>2. state'[m] = "WaitingMSG" =>
           state[m] = "WaitingMSG" /\ buffer'[m].dst = buffer[m].dst
    BY <1>1
  <2> QED  BY <1>1, <1>2, <2>1, <2>2, RoundStart, QuietTokens
<1>4. \A i \in DOMAIN waitingList'[m] : waitingList'[m][i] \in Mailboxes
  BY <1>1, RoundStart DEF AllAddressed, Addressed
<1>5. \A n, d \in Mailboxes : Answers(n, d)' >= 1 => Answers(n, d) >= 1
  BY <1>1 DEF Unmoved, SameCounts
<1>6. /\ buffer'[m] = buffer[m] \/ call[m] = "receive"
      /\ call[m] = "send" => ~finished'[m]
      /\ EmptyMessage.type # "MESSAGE"
  BY <1>1, RoundStart DEF EmptyMessage
<1> QED  BY <1>1, <1>3, <1>4, <1>5, <1>6, RoundKeeps

(* A request is cleared.                                                   *)
LEMMA GrantFacts ==
    ASSUME NEW m \in Mailboxes, NEW x, Round(m, x), GrantStep(m, x)
    PROVE  LET y == Signal(m, x.src, "CTS") IN
           /\ x.src \in Mailboxes /\ x.dst = m /\ Asked(x.src, m) >= 1
           /\ Exchange(m, x, y)
           /\ Wire(y) /\ y.src = m /\ y.type = "CTS" /\ y.dst = x.src
           /\ buffer'[m].dst = x.src /\ finished'[m] = finished[m]
           /\ buffer'[m].type = buffer[m].type /\ buffer'[m].src = buffer[m].src
           /\ buffer'[m].id = buffer[m].id
           /\ waitingList'[m] = waitingList[m] /\ call'[m] = call[m]
           /\ Granted(x.src, m)
<1> DEFINE y == Signal(m, x.src, "CTS")
<1>0. x.type = "RTS" /\ DoSendCTS(m, x, buffer[m])
  BY DEF GrantStep
<1>1. /\ TypeOK /\ TypeOK' /\ OthersStay(m) /\ x.src \in Mailboxes /\ x.dst = m
      /\ InTransit(x.src, "RTS", m) >= 1 /\ buffer[m] \in Message
  BY <1>0, RoundCame DEF Round, WireTypes, Signals, TypeOK
<1>2. /\ outbox'[m] = y /\ buffer'[m] = [buffer[m] EXCEPT !.dst = x.src]
      /\ finished'[m] = finished[m]
      /\ waitingList'[m] = waitingList[m] /\ call'[m] = call[m]
  BY <1>0, <1>1 DEF DoSendCTS, TypeOK, Round
<1>3. /\ Wire(y) /\ y.src = m /\ y.type = "CTS" /\ y.dst = x.src
  BY <1>1 DEF Wire, Signal, WireTypes, Signals
<1> HIDE DEF y
<1>4. Exchange(m, x, y)
  BY <1>2, <1>3, RoundExchange
<1>5. TokensTyped /\ AllAddressed
  BY RoundStart
<1>6. Granted(x.src, m)
  <2> SUFFICES ASSUME NEW n \in Mailboxes, NEW d \in Mailboxes
               PROVE  /\ Asked(n, d)' = Asked(n, d) - Unit(n, d, x.src, m)
                      /\ Cleared(n, d)' = Cleared(n, d) + Unit(n, d, x.src, m)
                      /\ Letters(n, d)' = Letters(n, d) /\ Answers(n, d)' = Answers(n, d)
    BY DEF Granted
  <2>1. /\ Is(x, n, "RTS", d) = Unit(n, d, x.src, m)
        /\ Is(x, d, "CTS", n) = 0 /\ Is(x, n, "MESSAGE", d) = 0 /\ Is(x, d, "ACK", n) = 0
        /\ Is(y, n, "RTS", d) = 0 /\ Is(y, d, "CTS", n) = Unit(n, d, x.src, m)
        /\ Is(y, n, "MESSAGE", d) = 0 /\ Is(y, d, "ACK", n) = 0
        /\ Unit(n, d, x.src, m) \in Nat
    BY <1>0, <1>1, <1>3 DEF Is, Unit
  <2>2. Held(n, d)' = Held(n, d) /\ Held(n, d) \in Nat
    BY <1>1, <1>2, HeldIsNat DEF Held, OthersStay, HeldTyped
  <2>3. /\ Asked(n, d) \in Nat /\ Cleared(n, d) \in Nat
        /\ Letters(n, d) \in Nat /\ Answers(n, d) \in Nat
    BY <1>5 DEF TokensTyped
  <2> QED  BY <1>1, <1>4, <1>5, <2>1, <2>2, <2>3, ExchangeTokens
<1>7. Asked(x.src, m) >= 1
  BY <1>1, CountsAreNat DEF Asked, WireTypes, Signals
<1>8. /\ buffer'[m].dst = x.src /\ buffer'[m].type = buffer[m].type
      /\ buffer'[m].src = buffer[m].src /\ buffer'[m].id = buffer[m].id
  BY <1>1, <1>2 DEF Message
<1> QED  BY <1>1, <1>2, <1>3, <1>4, <1>6, <1>7, <1>8 DEF y

LEMMA GrantRound ==
    ASSUME NEW m \in Mailboxes, NEW x, Round(m, x), errorStatus'[m] = "AUT_OK", GrantStep(m, x)
    PROVE  TInv'
<1> DEFINE y == Signal(m, x.src, "CTS")
<1>1. /\ x.src \in Mailboxes /\ Asked(x.src, m) >= 1
      /\ Exchange(m, x, y) /\ y.type \notin {"MESSAGE"}
      /\ buffer'[m].dst = x.src /\ finished'[m] = finished[m]
      /\ waitingList'[m] = waitingList[m] /\ call'[m] = call[m]
      /\ Granted(x.src, m)
  BY GrantFacts
<1>2. TypeOK /\ TypeOK' /\ OthersStay(m) /\ state[m] = "WaitingRTS" /\ state'[m] = "WaitingMSG"
  BY DEF Round, GrantStep
<1> HIDE DEF y
<1>3. /\ AllTokens /\ AllExpect /\ Sane(m) /\ AllAddressed /\ TokensTyped
      /\ call[m] = "receive" /\ ~finished[m]
  BY <1>2, RoundStart
<1>4. AllTokens' /\ AllExpect'
  <2>1. Sane(m)' /\ call'[m] # "send"
    BY <1>1, <1>3 DEF Sane
  <2> QED  BY <1>1, <1>2, <1>3, <2>1, GrantedTokens
<1>5. \A i \in DOMAIN waitingList'[m] : waitingList'[m][i] \in Mailboxes
  BY <1>1, <1>3 DEF AllAddressed, Addressed
<1>6. \A n, d \in Mailboxes : Answers(n, d)' >= 1 => Answers(n, d) >= 1
  BY <1>1 DEF Granted
<1> QED  BY <1>1, <1>3, <1>4, <1>5, <1>6, RoundKeeps

(* The clearance comes, and the message is sent.                           *)
LEMMA TransferFacts ==
    ASSUME NEW m \in Mailboxes, NEW x, Round(m, x), TransferStep(m, x)
    PROVE  /\ x.src \in Mailboxes /\ x.dst = m /\ Cleared(m, x.src) >= 1
           /\ call[m] = "send" /\ buffer[m].type = "MESSAGE" /\ buffer[m].src = m
           /\ buffer[m].dst = x.src
           /\ Exchange(m, x, buffer[m])
           /\ buffer'[m] = buffer[m] /\ finished'[m] = finished[m]
           /\ waitingList'[m] = waitingList[m] /\ call'[m] = call[m]
           /\ Transferred(m, x.src)
<1>0. /\ x.type = "CTS" /\ x.src = buffer[m].dst /\ state[m] \in {"RTS_Sent", "HoldState"}
      /\ DoSendMsg(m, buffer[m])
  BY DEF TransferStep
<1>1. /\ TypeOK /\ TypeOK' /\ OthersStay(m) /\ x.src \in Mailboxes /\ x.dst = m
      /\ Cleared(m, x.src) >= 1
  BY <1>0, RoundCame DEF Round, WireTypes, Signals, Cleared
<1>2. /\ outbox'[m] = buffer[m] /\ buffer'[m] = buffer[m] /\ finished'[m] = finished[m]
      /\ waitingList'[m] = waitingList[m] /\ call'[m] = call[m]
  BY <1>0, <1>1 DEF DoSendMsg, TypeOK, Round
<1>3. /\ TokensTyped /\ AllAddressed
      /\ call[m] = "send" /\ buffer[m].type = "MESSAGE" /\ buffer[m].src = m
  BY <1>0, RoundStart
<1>4. Exchange(m, x, buffer[m])
  <2>1. Wire(buffer[m])
    BY <1>0, <1>1, <1>3 DEF Wire, WireTypes, DataTypes
  <2> QED  BY <1>2, <1>3, <2>1, RoundExchange
<1>5. Transferred(m, x.src)
  <2> SUFFICES ASSUME NEW n \in Mailboxes, NEW d \in Mailboxes
               PROVE  /\ Asked(n, d)' = Asked(n, d)
                      /\ Cleared(n, d)' = Cleared(n, d) - Unit(n, d, m, x.src)
                      /\ Letters(n, d)' = Letters(n, d) + Unit(n, d, m, x.src)
                      /\ Answers(n, d)' = Answers(n, d)
    BY DEF Transferred
  <2>1. /\ Is(x, n, "RTS", d) = 0 /\ Is(x, d, "CTS", n) = Unit(n, d, m, x.src)
        /\ Is(x, n, "MESSAGE", d) = 0 /\ Is(x, d, "ACK", n) = 0
        /\ Is(buffer[m], n, "RTS", d) = 0 /\ Is(buffer[m], d, "CTS", n) = 0
        /\ Is(buffer[m], n, "MESSAGE", d) = Unit(n, d, m, x.src)
        /\ Is(buffer[m], d, "ACK", n) = 0 /\ Unit(n, d, m, x.src) \in Nat
    BY <1>0, <1>1, <1>3 DEF Is, Unit
  <2>2. Held(n, d)' = Held(n, d) /\ Held(n, d) \in Nat
    BY <1>1, <1>2, HeldIsNat DEF Held, OthersStay, HeldTyped
  <2>3. /\ Asked(n, d) \in Nat /\ Cleared(n, d) \in Nat
        /\ Letters(n, d) \in Nat /\ Answers(n, d) \in Nat
    BY <1>3 DEF TokensTyped
  <2> QED  BY <1>1, <1>3, <1>4, <2>1, <2>2, <2>3, ExchangeTokens
<1> QED  BY <1>0, <1>1, <1>2, <1>3, <1>4, <1>5

LEMMA TransferRound ==
    ASSUME NEW m \in Mailboxes, NEW x, Round(m, x), errorStatus'[m] = "AUT_OK",
           TransferStep(m, x)
    PROVE  TInv'
<1>1. /\ x.src \in Mailboxes /\ Cleared(m, x.src) >= 1 /\ buffer[m].dst = x.src
      /\ Exchange(m, x, buffer[m])
      /\ buffer'[m] = buffer[m] /\ finished'[m] = finished[m]
      /\ waitingList'[m] = waitingList[m] /\ call'[m] = call[m] /\ call[m] = "send"
      /\ Transferred(m, x.src)
  BY TransferFacts
<1>2. TypeOK /\ TypeOK' /\ OthersStay(m) /\ state'[m] = "WaitingACK"
  BY DEF Round, TransferStep
<1>3. AllTokens /\ AllExpect /\ Sane(m) /\ TokensTyped /\ AllAddressed /\ ~finished[m]
  BY RoundStart
<1>4. AllTokens' /\ AllExpect'
  <2>1. Sane(m)' /\ Transferring(m, x.src)'
    BY <1>1, <1>2, <1>3 DEF Sane, Transferring, SendingTo
  <2> QED  BY <1>1, <1>2, <1>3, <2>1, TransferredTokens
<1>5. \A i \in DOMAIN waitingList'[m] : waitingList'[m][i] \in Mailboxes
  BY <1>1, <1>3 DEF AllAddressed, Addressed
<1>6. \A n, d \in Mailboxes : Answers(n, d)' >= 1 => Answers(n, d) >= 1
  BY <1>1 DEF Transferred
<1> QED  BY <1>1, <1>3, <1>4, <1>5, <1>6, RoundKeeps

(* The acknowledgement comes, and the task of the sender is completed.     *)
LEMMA FinishFacts ==
    ASSUME NEW m \in Mailboxes, NEW x, Round(m, x), FinishStep(m, x)
    PROVE  /\ x.src \in Mailboxes /\ x.dst = m /\ Answers(m, x.src) >= 1
           /\ buffer[m].dst = x.src /\ call[m] = "send"
           /\ Exchange(m, x, EmptyMessage)
           /\ buffer'[m] = buffer[m] /\ finished'[m]
           /\ waitingList'[m] = waitingList[m] /\ call'[m] = call[m]
           /\ Answered(m, x.src)
<1>0. /\ x.type = "ACK" /\ x.src = buffer[m].dst /\ state[m] = "WaitingACK"
      /\ DoSetFinishedFlag(m, buffer[m])
  BY DEF FinishStep
<1>1. /\ TypeOK /\ TypeOK' /\ OthersStay(m) /\ x.src \in Mailboxes /\ x.dst = m
      /\ Answers(m, x.src) >= 1
  BY <1>0, RoundCame DEF Round, WireTypes, Signals, Answers
<1>a. outbox[m] = EmptyMessage /\ call' = call
  BY DEF Round, Waiting
<1>2. /\ outbox'[m] = EmptyMessage /\ buffer'[m] = buffer[m] /\ finished'[m]
      /\ waitingList'[m] = waitingList[m] /\ call'[m] = call[m]
  BY <1>0, <1>1, <1>a DEF DoSetFinishedFlag, TypeOK
<1>3. TokensTyped /\ AllAddressed /\ call[m] = "send"
  BY <1>0, RoundStart
<1>4. Exchange(m, x, EmptyMessage)
  BY <1>2, RoundExchange
<1>5. Answered(m, x.src)
  <2> SUFFICES ASSUME NEW n \in Mailboxes, NEW d \in Mailboxes
               PROVE  /\ Asked(n, d)' = Asked(n, d) /\ Cleared(n, d)' = Cleared(n, d)
                      /\ Letters(n, d)' = Letters(n, d)
                      /\ Answers(n, d)' = Answers(n, d) - Unit(n, d, m, x.src)
    BY DEF Answered
  <2>1. /\ Is(x, n, "RTS", d) = 0 /\ Is(x, d, "CTS", n) = 0
        /\ Is(x, n, "MESSAGE", d) = 0 /\ Is(x, d, "ACK", n) = Unit(n, d, m, x.src)
        /\ Is(EmptyMessage, n, "RTS", d) = 0 /\ Is(EmptyMessage, d, "CTS", n) = 0
        /\ Is(EmptyMessage, n, "MESSAGE", d) = 0 /\ Is(EmptyMessage, d, "ACK", n) = 0
        /\ Unit(n, d, m, x.src) \in Nat
    BY <1>0, <1>1 DEF Is, Unit, EmptyMessage
  <2>2. Held(n, d)' = Held(n, d) /\ Held(n, d) \in Nat
    BY <1>1, <1>2, HeldIsNat DEF Held, OthersStay, HeldTyped
  <2>3. /\ Asked(n, d) \in Nat /\ Cleared(n, d) \in Nat
        /\ Letters(n, d) \in Nat /\ Answers(n, d) \in Nat
    BY <1>3 DEF TokensTyped
  <2> QED  BY <1>1, <1>3, <1>4, <2>1, <2>2, <2>3, ExchangeTokens
<1> QED  BY <1>0, <1>1, <1>2, <1>3, <1>4, <1>5

LEMMA FinishRound ==
    ASSUME NEW m \in Mailboxes, NEW x, Round(m, x), errorStatus'[m] = "AUT_OK", FinishStep(m, x)
    PROVE  TInv'
<1>1. /\ x.src \in Mailboxes /\ Answers(m, x.src) >= 1 /\ buffer[m].dst = x.src
      /\ Exchange(m, x, EmptyMessage)
      /\ buffer'[m] = buffer[m] /\ waitingList'[m] = waitingList[m]
      /\ call'[m] = call[m] /\ call[m] = "send"
      /\ Answered(m, x.src)
  BY FinishFacts
<1>2. TypeOK /\ TypeOK' /\ OthersStay(m) /\ state'[m] = "ActionSuccessfulyEnded"
  BY DEF Round, FinishStep
<1>3. AllTokens /\ AllExpect /\ Sane(m) /\ TokensTyped /\ AllAddressed
  BY RoundStart
<1>4. AllTokens' /\ AllExpect'
  <2>1. Sane(m)'
    BY <1>1, <1>3 DEF Sane
  <2> QED  BY <1>1, <1>2, <1>3, <2>1, FinishedTokens
<1>5. \A i \in DOMAIN waitingList'[m] : waitingList'[m][i] \in Mailboxes
  BY <1>1, <1>3 DEF AllAddressed, Addressed
<1>6. \A n, d \in Mailboxes : Answers(n, d)' >= 1 => Answers(n, d) >= 1
  BY <1>1, <1>3 DEF TokensTyped, Unit, Answered
<1>7. EmptyMessage.type # "MESSAGE"
  BY DEF EmptyMessage
<1> QED  BY <1>1, <1>3, <1>4, <1>5, <1>6, <1>7, RoundKeeps

(* The message of the cleared sender comes and is accepted.  What else     *)
(* parses as a valid message cannot come from that sender: it has no       *)
(* request under way, and a signal has no source.                          *)
LEMMA AcceptFacts ==
    ASSUME NEW m \in Mailboxes, NEW x, Round(m, x), AcceptStep(m, x),
           x.type = "SYSCALL_INTERRUPTED" => x.src = NoName
    PROVE  LET y == Signal(m, x.src, "ACK") IN
           /\ x.src \in Mailboxes \ {m} /\ x.dst = m /\ x.type = "MESSAGE"
           /\ Letters(x.src, m) >= 1 /\ \E i \in DOMAIN queue[m] : x = queue[m][i]
           /\ call[m] = "receive"
           /\ Exchange(m, x, y)
           /\ Wire(y) /\ y.src = m /\ y.type = "ACK" /\ y.dst = x.src
           /\ buffer'[m] = x /\ finished'[m]
           /\ waitingList'[m] = waitingList[m] /\ call'[m] = call[m]
           /\ Accepted(x.src, m)
<1> DEFINE y == Signal(m, x.src, "ACK")
<1>0. /\ x.type \in {"RTS", "MESSAGE", "SYSCALL_INTERRUPTED"} /\ x.src = buffer[m].dst
      /\ state[m] = "WaitingMSG" /\ DoSendACK(m, x)
  BY DEF AcceptStep
<1>5. /\ AllTokens /\ AllExpect /\ Sane(m) /\ TokensTyped /\ AllAddressed
      /\ call[m] = "receive" /\ TypeOK
  BY <1>0, RoundStart DEF Round
<1>a. x.src \in Mailboxes /\ Asked(x.src, m) = 0
  BY <1>0, <1>5 DEF AllExpect, ExpectOK
<1>b. x.type = "MESSAGE"
  <2>1. x.type # "SYSCALL_INTERRUPTED"
    BY <1>a, MailboxAssumption
  <2>2. x.type # "RTS"
    <3> SUFFICES ASSUME x.type = "RTS" PROVE FALSE
      OBVIOUS
    <3>1. InTransit(x.src, "RTS", m) >= 1
      BY RoundCame DEF WireTypes, Signals
    <3>2. Held(x.src, m) \in Nat /\ InTransit(x.src, "RTS", m) \in Nat
      BY <1>5, <1>a, CountsAreNat DEF WireTypes, Signals
    <3> QED  BY <1>a, <3>1, <3>2 DEF Asked
  <2> QED  BY <1>0, <2>1, <2>2
<1>1. /\ TypeOK /\ TypeOK' /\ OthersStay(m) /\ x.dst = m
      /\ Letters(x.src, m) >= 1
      /\ \E i \in DOMAIN queue[m] : x = queue[m][i]
  BY <1>b, RoundCame DEF Round, WireTypes, DataTypes, Letters
<1>2. /\ outbox'[m] = y /\ buffer'[m] = x /\ finished'[m]
      /\ waitingList'[m] = waitingList[m] /\ call'[m] = call[m]
  BY <1>0, <1>1 DEF DoSendACK, TypeOK, Round
<1>3. /\ Wire(y) /\ y.src = m /\ y.type = "ACK" /\ y.dst = x.src
  BY <1>a DEF Wire, Signal, WireTypes, Signals
<1> HIDE DEF y
<1>4. Exchange(m, x, y)
  BY <1>2, <1>3, RoundExchange
<1>6. Accepted(x.src, m)
  <2> SUFFICES ASSUME NEW n \in Mailboxes, NEW d \in Mailboxes
               PROVE  /\ Asked(n, d)' = Asked(n, d) /\ Cleared(n, d)' = Cleared(n, d)
                      /\ Letters(n, d)' = Letters(n, d) - Unit(n, d, x.src, m)
                      /\ Answers(n, d)' = Answers(n, d) + Unit(n, d, x.src, m)
    BY DEF Accepted
  <2>1. /\ Is(x, n, "RTS", d) = 0 /\ Is(x, d, "CTS", n) = 0
        /\ Is(x, n, "MESSAGE", d) = Unit(n, d, x.src, m) /\ Is(x, d, "ACK", n) = 0
        /\ Is(y, n, "RTS", d) = 0 /\ Is(y, d, "CTS", n) = 0
        /\ Is(y, n, "MESSAGE", d) = 0 /\ Is(y, d, "ACK", n) = Unit(n, d, x.src, m)
        /\ Unit(n, d, x.src, m) \in Nat
    BY <1>1, <1>3, <1>b DEF Is, Unit
  <2>2. Held(n, d)' = Held(n, d) /\ Held(n, d) \in Nat
    BY <1>1, <1>2, HeldIsNat DEF Held, OthersStay, HeldTyped
  <2>3. /\ Asked(n, d) \in Nat /\ Cleared(n, d) \in Nat
        /\ Letters(n, d) \in Nat /\ Answers(n, d) \in Nat
    BY <1>5 DEF TokensTyped
  <2> QED  BY <1>1, <1>4, <1>5, <2>1, <2>2, <2>3, ExchangeTokens
<1>7. x.src # m
  <2>1. Letters(m, m) = 0
    <3>1. TokenOK(m, m) /\ ~Transferring(m, m)
      BY <1>0, <1>5 DEF AllTokens, Transferring
    <3> QED  BY <1>5, <3>1 DEF TokenOK, TokensTyped
  <2> QED  BY <1>1, <2>1
<1> QED  BY <1>1, <1>2, <1>3, <1>4, <1>5, <1>6, <1>7, <1>a, <1>b DEF y

LEMMA AcceptRound ==
    ASSUME NEW m \in Mailboxes, NEW x, Round(m, x), errorStatus'[m] = "AUT_OK", AcceptStep(m, x),
           x.type = "SYSCALL_INTERRUPTED" => x.src = NoName
    PROVE  TInv'
<1> DEFINE y == Signal(m, x.src, "ACK")
<1>1. /\ x.src \in Mailboxes \ {m} /\ x.type = "MESSAGE"
      /\ \E i \in DOMAIN queue[m] : x = queue[m][i]
      /\ call[m] = "receive" /\ call'[m] = call[m]
      /\ Exchange(m, x, y) /\ y.type # "MESSAGE"
      /\ buffer'[m] = x /\ finished'[m] /\ waitingList'[m] = waitingList[m]
      /\ Accepted(x.src, m)
  BY AcceptFacts
<1>2. TypeOK /\ TypeOK' /\ OthersStay(m) /\ state'[m] = "ActionSuccessfulyEnded"
  BY DEF Round, AcceptStep
<1> HIDE DEF y
<1>3. AllTokens /\ AllExpect /\ AllLetters /\ Sane(m) /\ TokensTyped /\ AllAddressed
  BY RoundStart
<1>4. AllTokens' /\ AllExpect'
  <2>1. Sane(m)' /\ call'[m] # "send"
    BY <1>1, <1>3 DEF Sane
  <2> QED  BY <1>1, <1>2, <1>3, <2>1, AcceptedTokens
<1>5. \A i \in DOMAIN waitingList'[m] : waitingList'[m][i] \in Mailboxes
  BY <1>1, <1>3 DEF AllAddressed, Addressed
<1>6. \A n, d \in Mailboxes : Answers(n, d)' >= 1 => Answers(n, d) >= 1 \/ (n = x.src /\ d = m)
  BY <1>1, <1>3 DEF TokensTyped, Unit, Accepted
<1>7. Sane(x.src) => Taken(m, buffer[x.src])'
  <2> SUFFICES ASSUME Sane(x.src) PROVE Taken(m, buffer[x.src])'
    OBVIOUS
  <2>1. x = buffer[x.src]
    BY <1>1, <1>3 DEF AllLetters, LettersOK
  <2>2. buffer'[m] = buffer'[x.src]
    BY <1>1, <1>2, <2>1 DEF OthersStay
  <2> QED  BY <1>1, <2>2 DEF Taken
<1>8. /\ \A n \in Mailboxes \ {m}, d \in Mailboxes :
            Answers(n, d)' >= 1 =>
               \/ Answers(n, d) >= 1
               \/ d = m /\ (Sane(n) => Taken(m, buffer[n])')
      /\ \A d \in Mailboxes : Answers(m, d)' >= 1 => Answers(m, d) >= 1
  BY <1>1, <1>6, <1>7
<1> QED  BY <1>1, <1>3, <1>4, <1>5, <1>8, RoundKeeps

-----------------------------------------------------------------------------
(* A mailbox out of order, or a process that dies.                         *)

(* The invariant of the others when m is out of order: nothing new has     *)
(* come into a queue, and only what was between m and another is missing.  *)
LEMMA LossKeeps ==
    ASSUME TypeOK, TypeOK', TInv, NEW m \in Mailboxes, OthersStay(m), TakenGrows(m),
           ~Sane(m)', AllAddressed',
           \A d \in Mailboxes : \A i \in DOMAIN queue'[d] :
              \E j \in DOMAIN queue[d] : queue'[d][i] = queue[d][j],
           \A n, d \in Mailboxes :
              /\ Asked(n, d)' <= Asked(n, d) /\ Cleared(n, d)' <= Cleared(n, d)
              /\ Letters(n, d)' <= Letters(n, d) /\ Answers(n, d)' <= Answers(n, d)
              /\ n # m /\ d # m => SameCounts(n, d)
    PROVE  TInv'
<1>1. /\ AllTokens /\ AllExpect /\ AllLetters /\ AllAnswered
      /\ TokensTyped /\ TokensTyped'
  <2>1. TokensTyped /\ TokensTyped'
    BY TokensAreNat, PTL
  <2> QED  BY <2>1, TInvParts
<1>2. AllTokens' /\ AllExpect'
  BY <1>1, LostTokens
<1>3. AllLetters'
  <2> SUFFICES ASSUME NEW n \in Mailboxes, Sane(n)' PROVE LettersOK(n)'
    BY DEF AllLetters, LettersOK
  <2>1. /\ Sane(n) /\ LettersOK(n)
        /\ buffer'[n] = buffer[n] /\ call'[n] = call[n] /\ outbox'[n] = outbox[n]
    BY <1>1 DEF OthersStay, Sane, AllLetters
  <2> QED  BY <2>1 DEF LettersOK
<1>4. AllAnswered'
  <2>1. \A n \in Mailboxes \ {m}, d \in Mailboxes :
           Answers(n, d)' >= 1 => Answers(n, d) >= 1
    BY <1>1 DEF TokensTyped
  <2> QED  BY <1>1, <2>1, AnswersStay
<1>5. (AllAddressed /\ AllTokens /\ AllExpect /\ AllLetters /\ AllAnswered)'
  BY <1>2, <1>3, <1>4
<1> QED  BY <1>5, TInvParts, PTL

(* m takes a message and is out of order.                                  *)
LEMMA LossExchange ==
    ASSUME TypeOK, TypeOK', TInv, NEW m \in Mailboxes, TakenGrows(m), ~Sane(m)',
           NEW x, Exchange(m, x, EmptyMessage), waitingList'[m] = waitingList[m]
    PROVE  TInv'
<1>1. AllAddressed /\ OthersStay(m) /\ TokensTyped /\ HeldTyped
  BY TInvParts, TokensAreNat, HeldIsNat DEF Exchange
<1>2. AllAddressed'
  <2>1. \A i \in DOMAIN waitingList'[m] : waitingList'[m][i] \in Mailboxes
    BY <1>1 DEF AllAddressed, Addressed
  <2> QED  BY <1>1, <2>1, ExchangeAddressed
<1>3. x.type \in WireTypes => x.dst = m
  BY <1>1, TakenWasCounted DEF Exchange
<1>4. ASSUME NEW n \in Mailboxes, NEW d \in Mailboxes
      PROVE  /\ Asked(n, d)' <= Asked(n, d) /\ Cleared(n, d)' <= Cleared(n, d)
             /\ Letters(n, d)' <= Letters(n, d) /\ Answers(n, d)' <= Answers(n, d)
             /\ n # m /\ d # m => SameCounts(n, d)
  <2>1. /\ Is(EmptyMessage, n, "RTS", d) = 0 /\ Is(EmptyMessage, d, "CTS", n) = 0
        /\ Is(EmptyMessage, n, "MESSAGE", d) = 0 /\ Is(EmptyMessage, d, "ACK", n) = 0
        /\ Is(x, n, "RTS", d) \in {0, 1} /\ Is(x, d, "CTS", n) \in {0, 1}
        /\ Is(x, n, "MESSAGE", d) \in {0, 1} /\ Is(x, d, "ACK", n) \in {0, 1}
    BY DEF Is, EmptyMessage
  <2>2. n # m /\ d # m => /\ Is(x, n, "RTS", d) = 0 /\ Is(x, d, "CTS", n) = 0
                          /\ Is(x, n, "MESSAGE", d) = 0 /\ Is(x, d, "ACK", n) = 0
    BY <1>3 DEF Is, WireTypes, Signals, DataTypes
  <2>3. Held(n, d)' = Held(n, d) /\ Held(n, d) \in Nat
    BY <1>1 DEF Held, OthersStay, HeldTyped
  <2>4. /\ Asked(n, d) \in Nat /\ Cleared(n, d) \in Nat
        /\ Letters(n, d) \in Nat /\ Answers(n, d) \in Nat
    BY <1>1 DEF TokensTyped
  <2>5. /\ Asked(n, d)' = Asked(n, d) - Is(x, n, "RTS", d)
        /\ Cleared(n, d)' = Cleared(n, d) - Is(x, d, "CTS", n)
        /\ Letters(n, d)' = Letters(n, d) - Is(x, n, "MESSAGE", d)
        /\ Answers(n, d)' = Answers(n, d) - Is(x, d, "ACK", n)
    BY <1>1, <2>1, <2>3, <2>4, ExchangeTokens
  <2> QED  BY <2>1, <2>2, <2>4, <2>5 DEF SameCounts
<1>5. \A d \in Mailboxes : \A i \in DOMAIN queue'[d] :
         \E j \in DOMAIN queue[d] : queue'[d][i] = queue[d][j]
  BY ExchangeQueues
<1> QED  BY <1>1, <1>2, <1>4, <1>5, LossKeeps

(* What m had in its outbox is gone, with m.                               *)
LEMMA LossOfOutbox ==
    ASSUME TypeOK, TypeOK', TInv, NEW m \in Mailboxes, OthersStay(m), TakenGrows(m),
           ~Sane(m)', queue' = queue, outbox'[m] = EmptyMessage,
           waitingList'[m] = waitingList[m]
    PROVE  TInv'
<1>1. AllAddressed /\ TokensTyped /\ HeldTyped
  BY TInvParts, TokensAreNat, HeldIsNat
<1>2. AllAddressed'
  BY <1>1 DEF AllAddressed, Addressed, OthersStay, Wire
<1>3. \A s, r \in Mailboxes, t \in WireTypes :
         /\ InTransit(s, t, r)' <= InTransit(s, t, r)
         /\ s # m => InTransit(s, t, r)' = InTransit(s, t, r)
  <2> SUFFICES ASSUME NEW s \in Mailboxes, NEW r \in Mailboxes, NEW t \in WireTypes
               PROVE  /\ InTransit(s, t, r)' <= InTransit(s, t, r)
                      /\ s # m => InTransit(s, t, r)' = InTransit(s, t, r)
    OBVIOUS
  <2>1. Queued(s, t, r)' = Queued(s, t, r) /\ Queued(s, t, r) \in Nat
    BY CountsAreNat DEF Queued
  <2>2. /\ Posted(s, t, r)' \in {0, 1} /\ Posted(s, t, r) \in {0, 1}
        /\ s = m => Posted(s, t, r)' = 0
        /\ s # m => Posted(s, t, r)' = Posted(s, t, r)
    BY EmptyIsNoLetter DEF Posted, InOutbox, OthersStay
  <2> QED  BY <2>1, <2>2 DEF InTransit
<1>4. ASSUME NEW n \in Mailboxes, NEW d \in Mailboxes
      PROVE  /\ Asked(n, d)' <= Asked(n, d) /\ Cleared(n, d)' <= Cleared(n, d)
             /\ Letters(n, d)' <= Letters(n, d) /\ Answers(n, d)' <= Answers(n, d)
             /\ n # m /\ d # m => SameCounts(n, d)
  <2>1. Held(n, d)' = Held(n, d) /\ Held(n, d) \in Nat
    BY <1>1 DEF Held, OthersStay, HeldTyped
  <2>2. {"RTS", "CTS", "MESSAGE", "ACK"} \subseteq WireTypes
    BY DEF WireTypes, Signals, DataTypes
  <2>3. /\ InTransit(n, "RTS", d) \in Nat /\ InTransit(n, "RTS", d)' \in Nat
    BY <2>2, CountsAreNat, EmptyIsNoLetter DEF InTransit, Posted, Queued, OthersStay, InOutbox
  <2>4. Asked(n, d)' <= Asked(n, d) /\ (n # m => Asked(n, d)' = Asked(n, d))
    BY <1>3, <2>1, <2>2, <2>3 DEF Asked
  <2>5. /\ Cleared(n, d)' <= Cleared(n, d)
        /\ Letters(n, d)' <= Letters(n, d) /\ Answers(n, d)' <= Answers(n, d)
        /\ n # m /\ d # m => /\ Cleared(n, d)' = Cleared(n, d)
                             /\ Letters(n, d)' = Letters(n, d)
                             /\ Answers(n, d)' = Answers(n, d)
    BY <1>3, <2>2 DEF Cleared, Letters, Answers
  <2> QED  BY <2>4, <2>5 DEF SameCounts
<1> QED  BY <1>1, <1>2, <1>4, LossKeeps

-----------------------------------------------------------------------------
(* The rounds there are.                                                   *)

(* The event that a message is parsed as says what the message is.         *)
LEMMA ParseFacts ==
    ASSUME NEW m, NEW x
    PROVE  LET event == ParseMessage(m, x) IN
           /\ event = "TimedOut" => x.type \in {"TIMED_OUT", "EMPTY"}
           /\ event = "RTS_Received" => x.type = "RTS" /\ x.src # buffer[m].dst
           /\ event = "CTS_Received" => x.type = "CTS" /\ x.src = buffer[m].dst
           /\ event = "HOLD_Received" => x.type = "HOLD" /\ x.src = buffer[m].dst
           /\ event = "ACK_Received" => x.type = "ACK" /\ x.src = buffer[m].dst
           /\ event = "ValidMsgConnectionless" => x.type = "MESSAGE_CONNECTIONLESS"
           /\ event = "ValidMsg" => /\ x.type \in {"RTS", "MESSAGE", "SYSCALL_INTERRUPTED"}
                                    /\ x.src = buffer[m].dst
           /\ event \in {"TimedOut", "RTS_Received", "CTS_Received", "HOLD_Received",
                         "ACK_Received", "ValidMsgConnectionless", "ValidMsg", "FatalError"}
BY DEF ParseMessage, FromPeer

(* A round that finds a transition is one of the eight steps.              *)
LEMMA StepsOfRound ==
    ASSUME AutomatonTypeOK, NEW m \in Mailboxes, NEW x,
           state[m] \in {"RTS_Sent", "HoldState", "WaitingACK", "WaitingRTS", "WaitingMSG"},
           Accept(m, ParseMessage(m, x), x, buffer[m])
    PROVE  /\ errorStatus'[m] = "AUT_OK"
           /\ \/ HoldStep(m, x) \/ GrantStep(m, x) \/ TransferStep(m, x) \/ FinishStep(m, x)
              \/ AcceptStep(m, x) \/ HeldStep(m, x) \/ IgnoreStep(m, x) \/ SaveStep(m, x)
<1> DEFINE event == ParseMessage(m, x)
<1>1. PICK row \in Rows(m, event) :
         /\ state' = [state EXCEPT ![m] = row[3]]
         /\ errorStatus' = [errorStatus EXCEPT ![m] = "AUT_OK"]
         /\ Perform(row[4], m, x, buffer[m])
  BY DEF Accept
<1>2. row \in TransitionTable /\ row[1] = state[m] /\ row[2] = event
  BY RowOfEvent
<1>3. state'[m] = row[3] /\ errorStatus'[m] = "AUT_OK"
  BY <1>1 DEF AutomatonTypeOK
<1>4. /\ event = "TimedOut" => x.type \in {"TIMED_OUT", "EMPTY"}
      /\ event = "RTS_Received" => x.type = "RTS" /\ x.src # buffer[m].dst
      /\ event = "CTS_Received" => x.type = "CTS" /\ x.src = buffer[m].dst
      /\ event = "HOLD_Received" => x.type = "HOLD" /\ x.src = buffer[m].dst
      /\ event = "ACK_Received" => x.type = "ACK" /\ x.src = buffer[m].dst
      /\ event = "ValidMsgConnectionless" => x.type = "MESSAGE_CONNECTIONLESS"
      /\ event = "ValidMsg" => /\ x.type \in {"RTS", "MESSAGE", "SYSCALL_INTERRUPTED"}
                               /\ x.src = buffer[m].dst
      /\ event \in {"TimedOut", "RTS_Received", "CTS_Received", "HOLD_Received",
                    "ACK_Received", "ValidMsgConnectionless", "ValidMsg", "FatalError"}
  BY ParseFacts
<1> HIDE DEF event
<1>5. \/ /\ event = "RTS_Received" /\ state[m] # "WaitingRTS"
         /\ row[3] = state[m] /\ row[4] = "EnqueueAndHold"
      \/ /\ event = "RTS_Received" /\ state[m] = "WaitingRTS"
         /\ row[3] = "WaitingMSG" /\ row[4] = "SendCTS"
      \/ /\ event = "CTS_Received" /\ state[m] \in {"RTS_Sent", "HoldState"}
         /\ row[3] = "WaitingACK" /\ row[4] = "SendMsg"
      \/ /\ event = "ACK_Received" /\ state[m] = "WaitingACK"
         /\ row[3] = "ActionSuccessfulyEnded" /\ row[4] = "SetFinishedFlag"
      \/ /\ event = "ValidMsg" /\ state[m] = "WaitingMSG"
         /\ row[3] = "ActionSuccessfulyEnded" /\ row[4] = "SendACK"
      \/ /\ event = "HOLD_Received" /\ state[m] = "RTS_Sent"
         /\ row[3] = "HoldState" /\ row[4] = "Void"
      \/ /\ event = "ValidMsgConnectionless" \/ (event = "TimedOut" /\ state[m] = "WaitingMSG")
         /\ state[m] # "WaitingRTS" /\ row[3] = state[m] /\ row[4] = "Void"
      \/ /\ event \in {"ValidMsgConnectionless", "TimedOut"} /\ state[m] = "WaitingRTS"
         /\ row[3] = "ActionSuccessfulyEnded" /\ row[4] = "SaveMessage"
  BY <1>2, <1>4 DEF TransitionTable
<1>6. /\ row[4] = "EnqueueAndHold" => DoEnqueueAndHold(m, x, buffer[m])
      /\ row[4] = "SendCTS" => DoSendCTS(m, x, buffer[m])
      /\ row[4] = "SendMsg" => DoSendMsg(m, buffer[m])
      /\ row[4] = "SetFinishedFlag" => DoSetFinishedFlag(m, buffer[m])
      /\ row[4] = "SendACK" => DoSendACK(m, x)
      /\ row[4] = "Void" => DoVoid(m, buffer[m])
      /\ row[4] = "SaveMessage" => DoSaveMessage(m, x)
  BY <1>1 DEF Perform
<1>a. row[4] = "EnqueueAndHold" => HoldStep(m, x)
  BY <1>3, <1>4, <1>5, <1>6 DEF HoldStep
<1>b. row[4] = "SendCTS" => GrantStep(m, x)
  BY <1>3, <1>4, <1>5, <1>6 DEF GrantStep
<1>c. row[4] = "SendMsg" => TransferStep(m, x)
  BY <1>3, <1>4, <1>5, <1>6 DEF TransferStep
<1>d. row[4] = "SetFinishedFlag" => FinishStep(m, x)
  BY <1>3, <1>4, <1>5, <1>6 DEF FinishStep
<1>e. row[4] = "SendACK" => AcceptStep(m, x)
  BY <1>3, <1>4, <1>5, <1>6 DEF AcceptStep
<1>f. row[4] = "Void" => HeldStep(m, x) \/ IgnoreStep(m, x)
  <2>1. CASE event = "HOLD_Received"
    BY <1>3, <1>4, <1>5, <1>6, <2>1 DEF HeldStep
  <2>2. CASE event # "HOLD_Received"
    BY <1>3, <1>4, <1>5, <1>6, <2>2 DEF IgnoreStep
  <2> QED  BY <2>1, <2>2
<1>g. row[4] = "SaveMessage" => SaveStep(m, x)
  BY <1>3, <1>4, <1>5, <1>6 DEF SaveStep
<1> QED
  BY <1>3, <1>5, <1>a, <1>b, <1>c, <1>d, <1>e, <1>f, <1>g

(* A round keeps the invariant, also when it ends the process.             *)
LEMMA RoundTInv ==
    ASSUME TypeOK, TypeOK', TInv, NEW m \in Mailboxes, Coherent(m), Waiting(m),
           NEW x \in Message, Handle(m, x),
           \/ x.type \notin WireTypes /\ queue' = queue
           \/ queue[m] # <<>> /\ x = Head(queue[m]) /\ queue' = [queue EXCEPT ![m] = Tail(@)],
           x.type = "SYSCALL_INTERRUPTED" => x.src = NoName
    PROVE  TInv'
<1>1. AutomatonTypeOK /\ outbox[m] = EmptyMessage
  BY TypeOfAutomaton DEF Waiting
<1>2. CASE Exit(m)
  <2>1. /\ OthersStay(m) /\ outbox'[m] = EmptyMessage /\ waitingList'[m] = waitingList[m]
        /\ call'[m] = "exited" /\ TakenGrows(m)
    <3>1. TakenGrows(m)
      BY <1>2 DEF Exit, TypeOK, automatonVars, TakenGrows, Taken
    <3> QED  BY <1>2, <3>1 DEF Exit, OthersStay, automatonVars, TypeOK
  <2>2. Exchange(m, x, EmptyMessage) /\ ~Sane(m)'
    BY <1>1, <2>1 DEF Exchange, Sane
  <2> QED  BY <2>1, <2>2, LossExchange
<1>3. CASE /\ UNCHANGED ownerVars
           /\ \/ Accept(m, ParseMessage(m, x), x, buffer[m])
              \/ Reject(m, ParseMessage(m, x), buffer[m]) /\ UNCHANGED override
  <2>1. call' = call /\ received' = received
    BY <1>3 DEF ownerVars
  <2>2. OthersStay(m)
    BY <1>1, <1>3, <2>1, EventOthers
  <2>3. Round(m, x)
    BY <2>1, <2>2 DEF Round
  <2>4. /\ state[m] \in {"RTS_Sent", "HoldState", "WaitingACK", "WaitingRTS", "WaitingMSG"}
        /\ TakenGrows(m)
    BY <2>3, RoundStart
  <2>5. CASE Reject(m, ParseMessage(m, x), buffer[m])
    <3>1. /\ outbox'[m] = EmptyMessage /\ waitingList'[m] = waitingList[m]
          /\ errorStatus'[m] # "AUT_OK"
      BY <1>1, <2>5 DEF Reject, TypeOK
    <3>2. Exchange(m, x, EmptyMessage) /\ ~Sane(m)'
      BY <2>3, <3>1, RoundExchange DEF Sane
    <3> QED  BY <2>4, <3>1, <3>2, LossExchange
  <2>6. CASE Accept(m, ParseMessage(m, x), x, buffer[m])
    <3>1. /\ errorStatus'[m] = "AUT_OK"
          /\ \/ HoldStep(m, x) \/ GrantStep(m, x) \/ TransferStep(m, x) \/ FinishStep(m, x)
             \/ AcceptStep(m, x) \/ HeldStep(m, x) \/ IgnoreStep(m, x) \/ SaveStep(m, x)
      BY <1>1, <2>4, <2>6, StepsOfRound
    <3> QED
      BY <2>3, <3>1, HoldRound, GrantRound, TransferRound, FinishRound, AcceptRound, QuietRound
  <2> QED  BY <1>3, <2>5, <2>6
<1> QED  BY <1>2, <1>3 DEF Handle, ProcessEvent

-----------------------------------------------------------------------------
(* The calls of the API and the queues.                                    *)

(* A step of m that takes no message and has y to send.                    *)
LEMMA CallCounts ==
    ASSUME TypeOK, TypeOK', TInv, NEW m \in Mailboxes, NEW y, Exchange(m, EmptyMessage, y)
    PROVE  \A n, d \in Mailboxes :
              /\ Asked(n, d)' = Asked(n, d) + Is(y, n, "RTS", d) - Held(n, d) + Held(n, d)'
              /\ Cleared(n, d)' = Cleared(n, d) + Is(y, d, "CTS", n)
              /\ Letters(n, d)' = Letters(n, d) + Is(y, n, "MESSAGE", d)
              /\ Answers(n, d)' = Answers(n, d) + Is(y, d, "ACK", n)
<1> SUFFICES ASSUME NEW n \in Mailboxes, NEW d \in Mailboxes
             PROVE  /\ Asked(n, d)' = Asked(n, d) + Is(y, n, "RTS", d) - Held(n, d) + Held(n, d)'
                    /\ Cleared(n, d)' = Cleared(n, d) + Is(y, d, "CTS", n)
                    /\ Letters(n, d)' = Letters(n, d) + Is(y, n, "MESSAGE", d)
                    /\ Answers(n, d)' = Answers(n, d) + Is(y, d, "ACK", n)
  OBVIOUS
<1>1. /\ Is(EmptyMessage, n, "RTS", d) = 0 /\ Is(EmptyMessage, d, "CTS", n) = 0
      /\ Is(EmptyMessage, n, "MESSAGE", d) = 0 /\ Is(EmptyMessage, d, "ACK", n) = 0
  BY DEF Is, EmptyMessage
<1>2. AllAddressed /\ TokensTyped
  BY TInvParts, TokensAreNat
<1>3. /\ Asked(n, d) \in Nat /\ Cleared(n, d) \in Nat
      /\ Letters(n, d) \in Nat /\ Answers(n, d) \in Nat
  BY <1>2 DEF TokensTyped
<1> QED  BY <1>1, <1>2, <1>3, ExchangeTokens

(* A step of m that takes no message and has none to send.                 *)
LEMMA NothingMoves ==
    ASSUME TypeOK, TypeOK', TInv, NEW m \in Mailboxes, OthersStay(m),
           Exchange(m, EmptyMessage, EmptyMessage), waitingList'[m] = waitingList[m]
    PROVE  Unmoved
<1> SUFFICES ASSUME NEW n \in Mailboxes, NEW d \in Mailboxes PROVE SameCounts(n, d)
  BY DEF Unmoved
<1>1. /\ Is(EmptyMessage, n, "RTS", d) = 0 /\ Is(EmptyMessage, d, "CTS", n) = 0
      /\ Is(EmptyMessage, n, "MESSAGE", d) = 0 /\ Is(EmptyMessage, d, "ACK", n) = 0
  BY DEF Is, EmptyMessage
<1>2. HeldTyped /\ TokensTyped
  BY HeldIsNat, TokensAreNat
<1>3. Held(n, d)' = Held(n, d) /\ Held(n, d) \in Nat
  BY <1>2 DEF Held, OthersStay, HeldTyped
<1>4. /\ Asked(n, d) \in Nat /\ Cleared(n, d) \in Nat
      /\ Letters(n, d) \in Nat /\ Answers(n, d) \in Nat
  BY <1>2 DEF TokensTyped
<1> QED  BY <1>1, <1>3, <1>4, CallCounts DEF SameCounts

(* A mailbox that is in order and in no handshake has none under way.      *)
LEMMA NothingUnderWay ==
    ASSUME TypeOK, TInv, NEW m \in Mailboxes, Sane(m),
           call[m] # "send" \/ state[m] = "ActionSuccessfulyEnded"
    PROVE  \A d \in Mailboxes : /\ Asked(m, d) = 0 /\ Cleared(m, d) = 0
                                /\ Letters(m, d) = 0 /\ Answers(m, d) = 0
<1> SUFFICES ASSUME NEW d \in Mailboxes
             PROVE  /\ Asked(m, d) = 0 /\ Cleared(m, d) = 0
                    /\ Letters(m, d) = 0 /\ Answers(m, d) = 0
  OBVIOUS
<1>1. TokenOK(m, d) /\ TokensTyped
  BY TInvParts, TokensAreNat DEF AllTokens
<1>2. ~Asking(m, d) /\ ~Transferring(m, d)
  BY DEF Asking, Transferring, SendingTo
<1> QED  BY <1>1, <1>2 DEF TokenOK, TokensTyped

(* A call that starts or ends while nothing of its mailbox is on its way.  *)
LEMMA CallKeeps ==
    ASSUME TypeOK, TypeOK', TInv, NEW m \in Mailboxes, TakenGrows(m),
           NEW y, Exchange(m, EmptyMessage, y), y.type # "MESSAGE", y.type # "ACK",
           AllTokens', AllExpect',
           \A i \in DOMAIN waitingList'[m] : waitingList'[m][i] \in Mailboxes,
           call[m] # "send" \/ state[m] = "ActionSuccessfulyEnded",
           Sane(m)' => Sane(m),
           call'[m] = "send" => /\ ~finished'[m]
                                /\ buffer'[m].type = "MESSAGE" /\ buffer'[m].id # 0
                                /\ buffer'[m].src = m /\ buffer'[m].dst \in Mailboxes
    PROVE  TInv'
<1>1. AllAddressed /\ AllTokens /\ AllLetters /\ AllAnswered /\ OthersStay(m) /\ TokensTyped
  BY TInvParts, TokensAreNat DEF Exchange
<1>2. AllAddressed'
  BY <1>1, ExchangeAddressed
<1>3. Sane(m) => \A d \in Mailboxes : Letters(m, d) = 0 /\ Answers(m, d) = 0
  BY NothingUnderWay
<1>4. AllLetters'
  BY <1>1, <1>3, LettersStay
<1>5. \A n, d \in Mailboxes : Answers(n, d)' = Answers(n, d)
  <2> SUFFICES ASSUME NEW n \in Mailboxes, NEW d \in Mailboxes
               PROVE  Answers(n, d)' = Answers(n, d)
    OBVIOUS
  <2>1. Is(y, d, "ACK", n) = 0 /\ Answers(n, d) \in Nat
    BY <1>1 DEF Is, TokensTyped
  <2> QED  BY <2>1, CallCounts
<1>6. AllAnswered'
  <2>1. Sane(m)' =>
          /\ Sane(m)
          /\ \A d \in Mailboxes : Answers(m, d)' >= 1 =>
                Answers(m, d) >= 1 /\ buffer'[m] = buffer[m]
          /\ call'[m] = "send" /\ finished'[m] =>
                /\ buffer'[m] = buffer[m] /\ call[m] = "send"
                /\ finished[m] \/ Answers(m, buffer[m].dst) >= 1
    BY <1>3, <1>5
  <2> QED  BY <1>1, <1>5, <2>1, AnswersStay
<1>7. (AllAddressed /\ AllTokens /\ AllExpect /\ AllLetters /\ AllAnswered)'
  BY <1>2, <1>4, <1>6
<1> QED  BY <1>7, TInvParts, PTL

(* A call of a mailbox whose automaton has no row for its event.           *)
LEMMA RejectKeepsTInv ==
    ASSUME TypeOK, TypeOK', TInv, NEW m \in Mailboxes, TakenGrows(m), OthersStay(m),
           outbox[m] = EmptyMessage, queue' = queue,
           NEW event, NEW b, Reject(m, event, b)
    PROVE  TInv'
<1>1. /\ outbox'[m] = EmptyMessage /\ waitingList'[m] = waitingList[m]
      /\ errorStatus'[m] # "AUT_OK"
  BY DEF Reject, TypeOK
<1>2. Exchange(m, EmptyMessage, EmptyMessage) /\ ~Sane(m)'
  BY <1>1, EmptyIsNoLetter DEF Exchange, Sane
<1> QED  BY <1>1, <1>2, LossExchange

(* The automaton m calls with an event that has a row is in order.         *)
LEMMA AcceptedIsSane ==
    ASSUME TypeOK, NEW m \in Mailboxes, Coherent(m), call[m] # "exited",
           NEW event \in {"InitSending", "StartReceiving", "StartReceivingIgnoreQueue",
                         "ResetQueueEmpty", "ResetQueueNotEmpty"},
           NEW msg, NEW b, Accept(m, event, msg, b)
    PROVE  Sane(m)
<1>1. Rows(m, event) # {}
  BY DEF Accept
<1> QED  BY <1>1, NoWayOut, TypeOfAutomaton DEF Sane

LEMMA IdleTakenGrows ==
    ASSUME TypeOK, NEW m \in Mailboxes, call[m] \in {"idle", "send"}, received' = received
    PROVE  TakenGrows(m)
BY DEF TakenGrows, Taken

(* sendConnectionless() has its message to send.                           *)
LEMMA NoticeFacts ==
    ASSUME TypeOK, TypeOK', TInv, NEW m \in Mailboxes, NEW d \in Mailboxes,
           SendConnectionless(m, d)
    PROVE  LET y == [type |-> "MESSAGE_CONNECTIONLESS", src |-> m, dst |-> d,
                     id |-> sent[m] + 1] IN
           /\ <<m, d>> \in Notices
           /\ Wire(y) /\ y.src = m /\ y.dst = d /\ y.type = "MESSAGE_CONNECTIONLESS"
           /\ Exchange(m, EmptyMessage, y) /\ OthersStay(m)
           /\ call[m] = "idle" /\ call'[m] = "idle"
           /\ state'[m] = state[m] /\ errorStatus'[m] = errorStatus[m]
           /\ finished'[m] = finished[m] /\ waitingList'[m] = waitingList[m]
           /\ buffer'[m] = y /\ received' = received
           /\ Unmoved
<1> DEFINE y == [type |-> "MESSAGE_CONNECTIONLESS", src |-> m, dst |-> d,
                 id |-> sent[m] + 1]
<1>1. /\ outbox[m] = EmptyMessage /\ call[m] = "idle" /\ call'[m] = "idle"
      /\ outbox'[m] = y /\ buffer'[m] = y /\ waitingList'[m] = waitingList[m]
      /\ queue' = queue /\ finished'[m] = finished[m]
      /\ state'[m] = state[m] /\ errorStatus'[m] = errorStatus[m]
      /\ received' = received /\ OthersStay(m) /\ <<m, d>> \in Notices
  BY DEF SendConnectionless, Idle, TypeOK, OthersStay
<1>2. Wire(y) /\ y.src = m /\ y.dst = d /\ y.type = "MESSAGE_CONNECTIONLESS"
  BY DEF Wire, WireTypes, DataTypes
<1> HIDE DEF y
<1>3. Exchange(m, EmptyMessage, y)
  BY <1>1, <1>2, EmptyIsNoLetter DEF Exchange
<1>4. TokensTyped /\ HeldTyped
  BY TokensAreNat, HeldIsNat
<1>5. Unmoved
  <2> SUFFICES ASSUME NEW n \in Mailboxes, NEW e \in Mailboxes PROVE SameCounts(n, e)
    BY DEF Unmoved
  <2>1. /\ Is(y, n, "RTS", e) = 0 /\ Is(y, e, "CTS", n) = 0
        /\ Is(y, n, "MESSAGE", e) = 0 /\ Is(y, e, "ACK", n) = 0
    BY <1>2 DEF Is
  <2>2. Held(n, e)' = Held(n, e) /\ Held(n, e) \in Nat
    BY <1>1, <1>4 DEF Held, OthersStay, HeldTyped
  <2>3. /\ Asked(n, e) \in Nat /\ Cleared(n, e) \in Nat
        /\ Letters(n, e) \in Nat /\ Answers(n, e) \in Nat
    BY <1>4 DEF TokensTyped
  <2> QED  BY <1>3, <2>1, <2>2, <2>3, CallCounts DEF SameCounts
<1> QED  BY <1>1, <1>2, <1>3, <1>5 DEF y

LEMMA SendConnectionlessTInv ==
    ASSUME TypeOK, TypeOK', TInv, NEW m \in Mailboxes, Coherent(m),
           NEW d \in Mailboxes, SendConnectionless(m, d)
    PROVE  TInv'
<1> DEFINE y == [type |-> "MESSAGE_CONNECTIONLESS", src |-> m, dst |-> d,
                 id |-> sent[m] + 1]
<1>1. /\ y.type = "MESSAGE_CONNECTIONLESS"
      /\ Exchange(m, EmptyMessage, y) /\ OthersStay(m)
      /\ call[m] = "idle" /\ call'[m] = "idle"
      /\ state'[m] = state[m] /\ errorStatus'[m] = errorStatus[m]
      /\ waitingList'[m] = waitingList[m] /\ received' = received
      /\ Unmoved
  BY NoticeFacts
<1> HIDE DEF y
<1>2. AllTokens /\ AllExpect /\ AllAddressed
  BY TInvParts
<1>3. AllTokens' /\ AllExpect'
  <2>1. Sane(m)' => Sane(m) /\ state'[m] # "WaitingMSG"
    BY <1>1 DEF Sane, Coherent, IdleStates
  <2>2. \A e \in Mailboxes : ~Asking(m, e) /\ ~Transferring(m, e)
    BY <1>1 DEF Asking, Transferring, SendingTo
  <2> QED  BY <1>1, <1>2, <2>1, <2>2, QuietTokens
<1>4. \A i \in DOMAIN waitingList'[m] : waitingList'[m][i] \in Mailboxes
  BY <1>1, <1>2 DEF AllAddressed, Addressed
<1>5. TakenGrows(m) /\ (Sane(m)' => Sane(m))
  BY <1>1, IdleTakenGrows DEF Sane
<1> QED  BY <1>1, <1>3, <1>4, <1>5, CallKeeps

(* The message that send() is called with.                                 *)
Letter(m, d) == [type |-> "MESSAGE", src |-> m, dst |-> d, id |-> sent[m] + 1]

LEMMA LetterFields ==
    ASSUME TypeOK, NEW m \in Mailboxes, NEW d
    PROVE  /\ Letter(m, d).type = "MESSAGE" /\ Letter(m, d).src = m
           /\ Letter(m, d).dst = d /\ Letter(m, d).id = sent[m] + 1 /\ Letter(m, d).id # 0
<1>1. sent[m] \in 0 .. MaxSends
  BY DEF TypeOK
<1> QED  BY <1>1 DEF Letter

(* send() begins: the message is in the buffer and the request to be sent. *)
LEMMA SendFacts ==
    ASSUME TypeOK, TypeOK', TInv, NEW m \in Mailboxes, Coherent(m), NEW d \in Mailboxes,
           Send(m, d), errorStatus'[m] = "AUT_OK"
    PROVE  LET y == Signal(m, d, "RTS") IN
           /\ <<m, d>> \in Links /\ Wire(y) /\ y.src = m /\ y.type = "RTS" /\ y.dst = d
           /\ Exchange(m, EmptyMessage, y) /\ OthersStay(m)
           /\ call[m] = "idle" /\ call'[m] = "send" /\ Sane(m) /\ Sane(m)'
           /\ state'[m] = "RTS_Sent" /\ ~finished[m] /\ ~finished'[m]
           /\ waitingList'[m] = waitingList[m] /\ received' = received
           /\ buffer'[m] = Letter(m, d)
           /\ Requested(m, d)
<1> DEFINE msg == Letter(m, d)
           y == Signal(m, d, "RTS")
<1>1. /\ outbox[m] = EmptyMessage /\ call[m] = "idle" /\ call'[m] = "send"
      /\ queue' = queue /\ received' = received /\ <<m, d>> \in Links
      /\ \A n \in Mailboxes \ {m} : call'[n] = call[n] /\ received'[n] = received[n]
      /\ Accept(m, "InitSending", msg, msg) \/ Reject(m, "InitSending", msg)
  BY DEF Send, Idle, TypeOK, ProcessEvent, Letter
<1>2. /\ Wire(y) /\ y.src = m /\ y.type = "RTS" /\ y.dst = d /\ Signal(m, msg.dst, "RTS") = y
  BY LetterFields DEF Wire, Signal, WireTypes, Signals
<1> HIDE DEF msg, y
<1>3. OthersStay(m)
  BY <1>1, TypeOfAutomaton, EventOthers
<1>4. Accept(m, "InitSending", msg, msg)
  BY <1>1 DEF Reject, TypeOK
<1>5. PICK row \in Rows(m, "InitSending") :
         /\ state' = [state EXCEPT ![m] = row[3]]
         /\ errorStatus' = [errorStatus EXCEPT ![m] = "AUT_OK"]
         /\ Perform(row[4], m, msg, msg)
  BY <1>4 DEF Accept
<1>6. row \in TransitionTable /\ row[1] = state[m] /\ row[2] = "InitSending"
  BY RowOfEvent
<1>7. row[1] \in IdleStates /\ row[3] = "RTS_Sent" /\ row[4] = "SendRTS"
  BY <1>6 DEF TransitionTable, IdleStates
<1>8. DoSendRTS(m, msg)
  BY <1>5, <1>7 DEF Perform
<1>9. /\ outbox'[m] = y /\ buffer'[m] = msg /\ waitingList'[m] = waitingList[m]
      /\ finished'[m] = finished[m] /\ state'[m] = "RTS_Sent"
  BY <1>2, <1>5, <1>7, <1>8 DEF DoSendRTS, TypeOK
<1>10. Sane(m) /\ Sane(m)' /\ ~finished[m]
  BY <1>1, <1>4, <1>6, <1>7, AcceptedIsSane DEF Sane, Coherent, IdleStates
<1>11. Exchange(m, EmptyMessage, y)
  BY <1>1, <1>2, <1>3, <1>9, EmptyIsNoLetter DEF Exchange
<1>12. TokensTyped /\ HeldTyped
  BY TokensAreNat, HeldIsNat
<1>13. Requested(m, d)
  <2> SUFFICES ASSUME NEW n \in Mailboxes, NEW e \in Mailboxes
               PROVE  /\ Asked(n, e)' = Asked(n, e) + Unit(n, e, m, d)
                      /\ Cleared(n, e)' = Cleared(n, e)
                      /\ Letters(n, e)' = Letters(n, e) /\ Answers(n, e)' = Answers(n, e)
    BY DEF Requested
  <2>1. /\ Is(y, n, "RTS", e) = Unit(n, e, m, d) /\ Is(y, e, "CTS", n) = 0
        /\ Is(y, n, "MESSAGE", e) = 0 /\ Is(y, e, "ACK", n) = 0
        /\ Unit(n, e, m, d) \in Nat
    BY <1>2 DEF Is, Unit
  <2>2. Held(n, e)' = Held(n, e) /\ Held(n, e) \in Nat
    BY <1>3, <1>9, <1>12 DEF Held, OthersStay, HeldTyped
  <2>3. /\ Asked(n, e) \in Nat /\ Cleared(n, e) \in Nat
        /\ Letters(n, e) \in Nat /\ Answers(n, e) \in Nat
    BY <1>12 DEF TokensTyped
  <2> QED  BY <1>11, <2>1, <2>2, <2>3, CallCounts
<1> QED  BY <1>1, <1>2, <1>3, <1>9, <1>10, <1>11, <1>13 DEF msg, y

LEMMA SendTInv ==
    ASSUME TypeOK, TypeOK', TInv, NEW m \in Mailboxes, Coherent(m),
           NEW d \in Mailboxes, Send(m, d)
    PROVE  TInv'
<1> DEFINE y == Signal(m, d, "RTS")
<1>1. CASE errorStatus'[m] = "AUT_OK"
  <2>1. /\ OthersStay(m) /\ Sane(m) /\ Sane(m)' /\ Requested(m, d)
        /\ Exchange(m, EmptyMessage, y)
        /\ call[m] = "idle" /\ call'[m] = "send"
        /\ waitingList'[m] = waitingList[m] /\ received' = received
        /\ state'[m] = "RTS_Sent" /\ ~finished'[m] /\ buffer'[m] = Letter(m, d)
    BY <1>1, SendFacts
  <2>2. /\ buffer'[m].type = "MESSAGE" /\ buffer'[m].id # 0
        /\ buffer'[m].src = m /\ buffer'[m].dst = d /\ y.type = "RTS"
    BY <2>1, LetterFields DEF Signal
  <2> HIDE DEF y
  <2>3. AllTokens /\ AllExpect /\ AllAddressed
    BY TInvParts
  <2>4. AllTokens' /\ AllExpect'
    <3>1. Asking(m, d)'
      BY <2>1, <2>2 DEF Asking, SendingTo
    <3> QED  BY <2>1, <2>3, <3>1, RequestedTokens
  <2>5. \A i \in DOMAIN waitingList'[m] : waitingList'[m][i] \in Mailboxes
    BY <2>1, <2>3 DEF AllAddressed, Addressed
  <2>6. TakenGrows(m)
    BY <2>1, IdleTakenGrows
  <2> QED  BY <2>1, <2>2, <2>4, <2>5, <2>6, CallKeeps
<1>2. CASE errorStatus'[m] # "AUT_OK"
  <2> DEFINE msg == [type |-> "MESSAGE", src |-> m, dst |-> d, id |-> sent[m] + 1]
  <2>1. /\ outbox[m] = EmptyMessage /\ call[m] = "idle"
        /\ queue' = queue /\ received' = received
        /\ \A n \in Mailboxes \ {m} : call'[n] = call[n] /\ received'[n] = received[n]
        /\ Accept(m, "InitSending", msg, msg) \/ Reject(m, "InitSending", msg)
    BY DEF Send, Idle, TypeOK, ProcessEvent
  <2> HIDE DEF msg
  <2>2. Reject(m, "InitSending", msg)
    BY <1>2, <2>1 DEF Accept, TypeOK
  <2>3. OthersStay(m) /\ TakenGrows(m)
    BY <2>1, TypeOfAutomaton, EventOthers, IdleTakenGrows
  <2> QED  BY <2>1, <2>2, <2>3, RejectKeepsTInv
<1> QED  BY <1>1, <1>2

(* receive() begins: it waits for a request, or clears the first sender    *)
(* that is on hold.                                                        *)
LEMMA ReceiveFacts ==
    ASSUME TypeOK, TypeOK', TInv, NEW m \in Mailboxes, Coherent(m),
           NEW flags, Receive(m, flags), errorStatus'[m] = "AUT_OK"
    PROVE  /\ OthersStay(m) /\ received' = received
           /\ call[m] = "idle" /\ call'[m] = "receive" /\ Sane(m) /\ Sane(m)'
           /\ state[m] \in IdleStates /\ finished'[m] = finished[m]
           /\ \A i \in DOMAIN waitingList'[m] : waitingList'[m][i] \in Mailboxes
           /\ \/ /\ state'[m] = "WaitingRTS" /\ buffer'[m] = buffer[m]
                 /\ Exchange(m, EmptyMessage, EmptyMessage) /\ Unmoved
              \/ /\ state'[m] = "WaitingMSG"
                 /\ \E s \in Mailboxes :
                       /\ buffer'[m] = [buffer[m] EXCEPT !.dst = s]
                       /\ Exchange(m, EmptyMessage, Signal(m, s, "CTS"))
                       /\ Asked(s, m) >= 1 /\ Granted(s, m)
<1> DEFINE event == IF "IGNORE_QUEUE" \in flags THEN "StartReceivingIgnoreQueue"
                                                ELSE "StartReceiving"
<1>1. /\ outbox[m] = EmptyMessage /\ call[m] = "idle" /\ call'[m] = "receive"
      /\ queue' = queue /\ received' = received
      /\ \A n \in Mailboxes \ {m} : call'[n] = call[n] /\ received'[n] = received[n]
      /\ Accept(m, event, EmptyMessage, buffer[m]) \/ Reject(m, event, buffer[m])
  BY DEF Receive, Idle, TypeOK, ProcessEvent
<1>2. event \in {"StartReceiving", "StartReceivingIgnoreQueue"}
  OBVIOUS
<1> HIDE DEF event
<1>3. OthersStay(m)
  BY <1>1, TypeOfAutomaton, EventOthers
<1>4. Accept(m, event, EmptyMessage, buffer[m])
  BY <1>1 DEF Reject, TypeOK
<1>5. PICK row \in Rows(m, event) :
         /\ state' = [state EXCEPT ![m] = row[3]]
         /\ errorStatus' = [errorStatus EXCEPT ![m] = "AUT_OK"]
         /\ Perform(row[4], m, EmptyMessage, buffer[m])
  BY <1>4 DEF Accept
<1>6. row \in TransitionTable /\ row[1] = state[m] /\ row[2] = event
  BY RowOfEvent
<1>7. /\ row[1] \in IdleStates
      /\ \/ row[3] = "WaitingRTS" /\ row[4] = "Void"
         \/ /\ row[1] = "IdleQueueNotEmpty"
            /\ row[3] = "WaitingMSG" /\ row[4] = "DequeueAndCTS"
  BY <1>2, <1>6 DEF TransitionTable, IdleStates
<1>8. state'[m] = row[3]
  BY <1>5 DEF TypeOK
<1>9. Sane(m) /\ Sane(m)'
  BY <1>1, <1>2, <1>4, AcceptedIsSane DEF Sane
<1>10. AllAddressed /\ TokensTyped /\ TokensTyped' /\ HeldTyped
  <2>1. TokensTyped /\ TokensTyped'
    BY TokensAreNat, PTL
  <2> QED  BY <2>1, TInvParts, HeldIsNat
<1>11. CASE row[3] = "WaitingRTS" /\ row[4] = "Void"
  <2>1. /\ outbox'[m] = EmptyMessage /\ waitingList'[m] = waitingList[m]
        /\ buffer'[m] = buffer[m] /\ finished'[m] = finished[m]
    BY <1>1, <1>5, <1>11 DEF Perform, DoVoid, TypeOK
  <2>2. Exchange(m, EmptyMessage, EmptyMessage)
    BY <1>1, <1>3, <2>1, EmptyIsNoLetter DEF Exchange
  <2>3. Unmoved
    BY <1>3, <2>1, <2>2, NothingMoves
  <2>4. \A i \in DOMAIN waitingList'[m] : waitingList'[m][i] \in Mailboxes
    BY <1>10, <2>1 DEF AllAddressed, Addressed
  <2> QED  BY <1>1, <1>3, <1>6, <1>7, <1>8, <1>9, <1>11, <2>1, <2>2, <2>3, <2>4
<1>12. CASE /\ row[1] = "IdleQueueNotEmpty"
            /\ row[3] = "WaitingMSG" /\ row[4] = "DequeueAndCTS"
  <2>1. waitingList[m] # <<>> /\ waitingList[m] \in Seq(Mailboxes \cup {NoName})
    BY <1>6, <1>12 DEF Coherent, TypeOK
  <2>2. PICK s \in Mailboxes : s = Head(waitingList[m])
    BY <1>10, <2>1 DEF AllAddressed, Addressed
  <2> DEFINE y == Signal(m, s, "CTS")
  <2>3. DoDequeueAndCTS(m, buffer[m])
    BY <1>5, <1>12 DEF Perform
  <2>4. /\ outbox'[m] = y /\ buffer'[m] = [buffer[m] EXCEPT !.dst = s]
        /\ waitingList'[m] = Tail(waitingList[m]) /\ finished'[m] = finished[m]
    BY <2>2, <2>3 DEF DoDequeueAndCTS, TypeOK
  <2>13. waitingList' = [waitingList EXCEPT ![m] = Tail(@)]
    BY <2>3 DEF DoDequeueAndCTS
  <2>5. Wire(y) /\ y.src = m /\ y.type = "CTS" /\ y.dst = s
    BY <2>2 DEF Wire, Signal, WireTypes, Signals
  <2> HIDE DEF y
  <2>6. Exchange(m, EmptyMessage, y)
    <3>1. outbox'[m] = y
      BY <2>4
    <3> QED  BY <1>1, <1>3, <2>5, <3>1, EmptyIsNoLetter DEF Exchange
  <2>7. \A n, d \in Mailboxes : Held(n, d)' = Held(n, d) - (IF d = m /\ n = s THEN 1 ELSE 0)
    <3> SUFFICES ASSUME NEW n \in Mailboxes, NEW d \in Mailboxes
                 PROVE  Held(n, d)' = Held(n, d) - (IF d = m /\ n = s THEN 1 ELSE 0)
      OBVIOUS
    <3>1. Held(n, d)' = Held(n, d) - (IF d = m /\ n = Head(waitingList[m]) THEN 1 ELSE 0)
      BY <2>1, <2>13, HeldAfterPop
    <3> QED  BY <2>2, <3>1
  <2>8. Granted(s, m)
    <3> SUFFICES ASSUME NEW n \in Mailboxes, NEW d \in Mailboxes
                 PROVE  /\ Asked(n, d)' = Asked(n, d) - Unit(n, d, s, m)
                        /\ Cleared(n, d)' = Cleared(n, d) + Unit(n, d, s, m)
                        /\ Letters(n, d)' = Letters(n, d) /\ Answers(n, d)' = Answers(n, d)
      BY DEF Granted
    <3>1. /\ Is(y, n, "RTS", d) = 0 /\ Is(y, d, "CTS", n) = Unit(n, d, s, m)
          /\ Is(y, n, "MESSAGE", d) = 0 /\ Is(y, d, "ACK", n) = 0
          /\ Unit(n, d, s, m) \in Nat
      BY <2>5 DEF Is, Unit
    <3>2. Held(n, d)' = Held(n, d) - Unit(n, d, s, m) /\ Held(n, d) \in Nat
      BY <1>10, <2>7 DEF HeldTyped, Unit
    <3>3. /\ Asked(n, d) \in Nat /\ Cleared(n, d) \in Nat
          /\ Letters(n, d) \in Nat /\ Answers(n, d) \in Nat
      BY <1>10 DEF TokensTyped
    <3> QED  BY <2>6, <3>1, <3>2, <3>3, CallCounts
  <2>9. Asked(s, m) >= 1
    <3>1. Unit(s, m, s, m) = 1
      BY DEF Unit
    <3>2. Asked(s, m)' = Asked(s, m) - Unit(s, m, s, m)
      BY <2>2, <2>8 DEF Granted
    <3>3. Asked(s, m) \in Nat /\ Asked(s, m)' \in Nat
      BY <1>10, <2>2 DEF TokensTyped
    <3> QED  BY <3>1, <3>2, <3>3
  <2>10. \A i \in DOMAIN waitingList'[m] : waitingList'[m][i] \in Mailboxes
    <3>1. \A i \in DOMAIN waitingList[m] : waitingList[m][i] \in Mailboxes
      BY <1>10 DEF AllAddressed, Addressed
    <3> QED  BY <2>1, <2>4, <3>1
  <2>11. \E r \in Mailboxes :
            /\ buffer'[m] = [buffer[m] EXCEPT !.dst = r]
            /\ Exchange(m, EmptyMessage, Signal(m, r, "CTS"))
            /\ Asked(r, m) >= 1 /\ Granted(r, m)
    BY <2>2, <2>4, <2>6, <2>8, <2>9 DEF y
  <2>12. state'[m] = "WaitingMSG" /\ state[m] \in IdleStates
    BY <1>6, <1>7, <1>8, <1>12
  <2> QED  BY <1>1, <1>3, <1>9, <2>4, <2>10, <2>11, <2>12
<1> QED  BY <1>7, <1>11, <1>12

LEMMA ReceiveTInv ==
    ASSUME TypeOK, TypeOK', TInv, NEW m \in Mailboxes, Coherent(m),
           NEW flags, Receive(m, flags)
    PROVE  TInv'
<1>1. CASE errorStatus'[m] = "AUT_OK"
  <2>1. /\ OthersStay(m) /\ received' = received
        /\ call[m] = "idle" /\ call'[m] = "receive" /\ Sane(m) /\ Sane(m)'
        /\ state[m] \in IdleStates
        /\ \A i \in DOMAIN waitingList'[m] : waitingList'[m][i] \in Mailboxes
        /\ \/ /\ state'[m] = "WaitingRTS"
              /\ Exchange(m, EmptyMessage, EmptyMessage) /\ Unmoved
           \/ /\ state'[m] = "WaitingMSG"
              /\ \E s \in Mailboxes :
                    /\ buffer'[m] = [buffer[m] EXCEPT !.dst = s]
                    /\ Exchange(m, EmptyMessage, Signal(m, s, "CTS"))
                    /\ Asked(s, m) >= 1 /\ Granted(s, m)
    BY <1>1, ReceiveFacts
  <2>2. AllTokens /\ AllExpect /\ AllAddressed /\ TakenGrows(m)
    BY <2>1, TInvParts, IdleTakenGrows
  <2>3. CASE state'[m] = "WaitingRTS" /\ Exchange(m, EmptyMessage, EmptyMessage) /\ Unmoved
    <3>1. AllTokens' /\ AllExpect'
      <4>1. \A d \in Mailboxes : ~Asking(m, d) /\ ~Transferring(m, d)
        BY <2>1 DEF Asking, Transferring, SendingTo
      <4> QED  BY <2>1, <2>2, <2>3, <4>1, QuietTokens
    <3>2. EmptyMessage.type \notin {"MESSAGE", "ACK"}
      BY DEF EmptyMessage
    <3> QED  BY <2>1, <2>2, <2>3, <3>1, <3>2, CallKeeps
  <2>4. CASE /\ state'[m] = "WaitingMSG"
             /\ \E s \in Mailboxes :
                   /\ buffer'[m] = [buffer[m] EXCEPT !.dst = s]
                   /\ Exchange(m, EmptyMessage, Signal(m, s, "CTS"))
                   /\ Asked(s, m) >= 1 /\ Granted(s, m)
    <3>1. PICK s \in Mailboxes :
             /\ buffer'[m] = [buffer[m] EXCEPT !.dst = s]
             /\ Exchange(m, EmptyMessage, Signal(m, s, "CTS"))
             /\ Asked(s, m) >= 1 /\ Granted(s, m)
      BY <2>4
    <3>2. buffer'[m].dst = s
      BY <3>1 DEF TypeOK, Message
    <3> DEFINE y == Signal(m, s, "CTS")
    <3>3. Exchange(m, EmptyMessage, y) /\ y.type = "CTS"
      BY <3>1 DEF Signal
    <3> HIDE DEF y
    <3>4. AllTokens' /\ AllExpect'
      BY <2>1, <2>2, <2>4, <3>1, <3>2, GrantedTokens
    <3> QED  BY <2>1, <2>2, <3>3, <3>4, CallKeeps
  <2> QED  BY <2>1, <2>3, <2>4
<1>2. CASE errorStatus'[m] # "AUT_OK"
  <2> DEFINE event == IF "IGNORE_QUEUE" \in flags THEN "StartReceivingIgnoreQueue"
                                                  ELSE "StartReceiving"
  <2>1. /\ outbox[m] = EmptyMessage /\ call[m] = "idle"
        /\ queue' = queue /\ received' = received
        /\ \A n \in Mailboxes \ {m} : call'[n] = call[n] /\ received'[n] = received[n]
        /\ Accept(m, event, EmptyMessage, buffer[m]) \/ Reject(m, event, buffer[m])
    BY DEF Receive, Idle, TypeOK, ProcessEvent
  <2> HIDE DEF event
  <2>2. Reject(m, event, buffer[m])
    BY <1>2, <2>1 DEF Accept, TypeOK
  <2>3. OthersStay(m) /\ TakenGrows(m)
    BY <2>1, TypeOfAutomaton, EventOthers, IdleTakenGrows
  <2> QED  BY <2>1, <2>2, <2>3, RejectKeepsTInv
<1> QED  BY <1>1, <1>2

(* send() and receive() return: a finished automaton goes idle.            *)
LEMMA ReturnFacts ==
    ASSUME TypeOK, TypeOK', TInv, NEW m \in Mailboxes, Coherent(m),
           outbox[m] = EmptyMessage, call[m] \in {"send", "receive"}, call'[m] = "idle",
           queue' = queue, OthersStay(m), NEW b, Accept(m, ResetEvent(m), EmptyMessage, b)
    PROVE  /\ Sane(m) /\ Sane(m)' /\ finished[m]
           /\ state[m] = "ActionSuccessfulyEnded" /\ state'[m] \in IdleStates
           /\ buffer'[m] = EmptyMessage /\ ~finished'[m]
           /\ waitingList'[m] = waitingList[m]
           /\ Exchange(m, EmptyMessage, EmptyMessage) /\ Unmoved
<1>1. PICK row \in Rows(m, ResetEvent(m)) :
         /\ state' = [state EXCEPT ![m] = row[3]]
         /\ errorStatus' = [errorStatus EXCEPT ![m] = "AUT_OK"]
         /\ Perform(row[4], m, EmptyMessage, b)
  BY DEF Accept
<1>2. row \in TransitionTable /\ row[1] = state[m] /\ row[2] = ResetEvent(m)
  BY RowOfEvent
<1>3. /\ row[1] = "ActionSuccessfulyEnded" /\ row[3] \in IdleStates
      /\ row[4] = "ClearFinishedFlag"
  BY <1>2 DEF TransitionTable, IdleStates, ResetEvent
<1>4. /\ outbox'[m] = EmptyMessage /\ waitingList'[m] = waitingList[m]
      /\ state'[m] \in IdleStates /\ errorStatus'[m] = "AUT_OK"
      /\ buffer'[m] = EmptyMessage /\ ~finished'[m]
  BY <1>1, <1>3 DEF Perform, DoClearFinishedFlag, TypeOK
<1>5. Sane(m) /\ Sane(m)' /\ state[m] = "ActionSuccessfulyEnded" /\ finished[m]
  BY <1>2, <1>3, <1>4, AcceptedIsSane DEF Sane, ResetEvent, Coherent
<1>6. Exchange(m, EmptyMessage, EmptyMessage)
  BY <1>4, EmptyIsNoLetter DEF Exchange
<1>7. Unmoved
  BY <1>4, <1>6, NothingMoves
<1> QED  BY <1>4, <1>5, <1>6, <1>7

LEMMA ReturnTInv ==
    ASSUME TypeOK, TypeOK', TInv, NEW m \in Mailboxes, Coherent(m),
           outbox[m] = EmptyMessage, call[m] \in {"send", "receive"}, call'[m] = "idle",
           queue' = queue, OthersStay(m), TakenGrows(m),
           NEW b, \/ Accept(m, ResetEvent(m), EmptyMessage, b)
                  \/ Reject(m, ResetEvent(m), b)
    PROVE  TInv'
<1>1. CASE Reject(m, ResetEvent(m), b)
  BY <1>1, RejectKeepsTInv
<1>2. CASE Accept(m, ResetEvent(m), EmptyMessage, b)
  <2>1. /\ Sane(m) /\ Sane(m)'
        /\ state[m] = "ActionSuccessfulyEnded" /\ state'[m] \in IdleStates
        /\ waitingList'[m] = waitingList[m]
        /\ Exchange(m, EmptyMessage, EmptyMessage) /\ Unmoved
    BY <1>2, ReturnFacts
  <2>2. AllTokens /\ AllExpect /\ AllAddressed
    BY TInvParts
  <2>3. AllTokens' /\ AllExpect'
    <3>1. \A d \in Mailboxes : ~Asking(m, d) /\ ~Transferring(m, d)
      BY <2>1 DEF Asking, Transferring
    <3>2. state'[m] # "WaitingMSG"
      BY <2>1 DEF IdleStates
    <3> QED  BY <2>1, <2>2, <3>1, <3>2, QuietTokens
  <2>4. \A i \in DOMAIN waitingList'[m] : waitingList'[m][i] \in Mailboxes
    BY <2>1, <2>2 DEF AllAddressed, Addressed
  <2>5. EmptyMessage.type \notin {"MESSAGE", "ACK"}
    BY DEF EmptyMessage
  <2> QED  BY <2>1, <2>3, <2>4, <2>5, CallKeeps
<1> QED  BY <1>1, <1>2

LEMMA ReturnFromSendTInv ==
    ASSUME TypeOK, TypeOK', TInv, NEW m \in Mailboxes, Coherent(m), ReturnFromSend(m)
    PROVE  TInv'
<1>1. /\ outbox[m] = EmptyMessage /\ call[m] = "send" /\ call'[m] = "idle"
      /\ queue' = queue /\ received' = received
      /\ \A n \in Mailboxes \ {m} : call'[n] = call[n] /\ received'[n] = received[n]
      /\ \/ Accept(m, ResetEvent(m), EmptyMessage, buffer[m])
         \/ Reject(m, ResetEvent(m), buffer[m])
  BY DEF ReturnFromSend, Completed, ProcessEvent, TypeOK
<1>2. OthersStay(m) /\ TakenGrows(m)
  BY <1>1, TypeOfAutomaton, EventOthers, IdleTakenGrows
<1> QED  BY <1>1, <1>2, ReturnTInv

(* What receive() hands out is what the mailbox had taken.                 *)
LEMMA ReturnFromReceiveTInv ==
    ASSUME TypeOK, TypeOK', TInv, NEW m \in Mailboxes, Coherent(m), ReturnFromReceive(m)
    PROVE  TInv'
<1> DEFINE released == [buffer[m] EXCEPT !.id = 0]
<1>1. /\ outbox[m] = EmptyMessage /\ call[m] = "receive" /\ call'[m] = "idle"
      /\ queue' = queue
      /\ received'[m] = IF buffer[m].id = 0 THEN received[m] ELSE Append(received[m], buffer[m])
      /\ \A n \in Mailboxes \ {m} : call'[n] = call[n] /\ received'[n] = received[n]
      /\ \/ Accept(m, ResetEvent(m), EmptyMessage, released)
         \/ Reject(m, ResetEvent(m), released)
  BY DEF ReturnFromReceive, Completed, TypeOK
<1> HIDE DEF released
<1>2. OthersStay(m)
  BY <1>1, TypeOfAutomaton, EventOthers
<1>3. TakenGrows(m)
  <2> SUFFICES ASSUME NEW msg, msg.id # 0, Taken(m, msg) PROVE Taken(m, msg)'
    BY DEF TakenGrows
  <2>1. received[m] \in Seq(Message) /\ buffer[m] \in Message
    BY DEF TypeOK
  <2>2. CASE \E i \in DOMAIN received[m] : received[m][i] = msg
    <3>1. PICK i \in DOMAIN received[m] : received[m][i] = msg
      BY <2>2
    <3>2. i \in DOMAIN received'[m] /\ received'[m][i] = msg
      BY <1>1, <2>1, <3>1
    <3> QED  BY <3>2 DEF Taken
  <2>3. CASE buffer[m] = msg
    <3>1. received'[m] = Append(received[m], msg)
      BY <1>1, <2>3
    <3>2. Len(received[m]) + 1 \in DOMAIN received'[m] /\ received'[m][Len(received[m]) + 1] = msg
      BY <2>1, <3>1
    <3> QED  BY <3>2 DEF Taken
  <2> QED  BY <2>2, <2>3 DEF Taken
<1> QED  BY <1>1, <1>2, <1>3, ReturnTInv

(* mq_send moves a message from the outbox into a queue.                   *)
LEMMA SendImmediateTransit ==
    ASSUME TypeOK, AllAddressed, NEW m \in Mailboxes, SendImmediate(m)
    PROVE  /\ \A s, r \in Mailboxes, t \in WireTypes : InTransit(s, t, r)' = InTransit(s, t, r)
           /\ Wire(outbox[m]) /\ outbox[m].src = m
           /\ queue' = [queue EXCEPT ![outbox[m].dst] = Append(@, outbox[m])]
           /\ outbox' = [outbox EXCEPT ![m] = EmptyMessage]
<1>1. /\ outbox[m] \in Message /\ Wire(outbox[m]) /\ outbox[m].src = m
      /\ outbox[m].dst \in Mailboxes
      /\ queue' = [queue EXCEPT ![outbox[m].dst] = Append(@, outbox[m])]
      /\ outbox' = [outbox EXCEPT ![m] = EmptyMessage]
  BY DEF SendImmediate, AllAddressed, Addressed, Wire, TypeOK
<1>2. ASSUME NEW s \in Mailboxes, NEW r \in Mailboxes, NEW t \in WireTypes
      PROVE  InTransit(s, t, r)' = InTransit(s, t, r)
  <2>1. Queued(s, t, r)' = Queued(s, t, r) + Is(outbox[m], s, t, r)
    BY <1>1, QueuedAfterPut
  <2>2. Posted(s, t, r)' = Posted(s, t, r) - Is(outbox[m], s, t, r)
    <3>1. CASE s = m
      <4>1. Posted(s, t, r)' = 0
        BY <1>1, <3>1, EmptyIsNoLetter DEF Posted, InOutbox, TypeOK
      <4>2. Posted(s, t, r) = Is(outbox[m], s, t, r)
        BY <1>1, <3>1 DEF Posted, InOutbox, Is
      <4> QED  BY <4>1, <4>2 DEF Is
    <3>2. CASE s # m
      <4>1. Posted(s, t, r)' = Posted(s, t, r)
        BY <1>1, <3>2 DEF Posted, InOutbox, TypeOK
      <4>2. Is(outbox[m], s, t, r) = 0
        BY <1>1, <3>2 DEF Is
      <4> QED  BY <4>1, <4>2 DEF Posted
    <3> QED  BY <3>1, <3>2
  <2>3. Queued(s, t, r) \in Nat /\ Posted(s, t, r) \in Nat /\ Is(outbox[m], s, t, r) \in Nat
    BY CountsAreNat DEF Is
  <2> QED  BY <2>1, <2>2, <2>3 DEF InTransit
<1> QED  BY <1>1, <1>2

(* What is in a queue after mq_send.                                       *)
LEMMA QueueAfterPut ==
    ASSUME TypeOK, NEW x \in Message, x.dst \in Mailboxes,
           queue' = [queue EXCEPT ![x.dst] = Append(@, x)],
           NEW d \in Mailboxes, NEW i \in DOMAIN queue'[d]
    PROVE  \/ i \in DOMAIN queue[d] /\ queue'[d][i] = queue[d][i]
           \/ d = x.dst /\ i = Len(queue[d]) + 1 /\ queue'[d][i] = x
<1>1. queue[d] \in Seq(Message)
  BY DEF TypeOK
<1>2. CASE d = x.dst
  <2>1. queue'[d] = Append(queue[d], x)
    BY <1>2 DEF TypeOK
  <2> QED  BY <1>1, <1>2, <2>1
<1>3. CASE d # x.dst
  BY <1>3 DEF TypeOK
<1> QED  BY <1>2, <1>3

LEMMA SendImmediateTInv ==
    ASSUME TypeOK, TypeOK', TInv, NEW m \in Mailboxes, SendImmediate(m)
    PROVE  TInv'
<1>1. AllAddressed /\ AllTokens /\ AllExpect /\ AllLetters /\ AllAnswered
  BY TInvParts
<1>2. /\ \A s, r \in Mailboxes, t \in WireTypes : InTransit(s, t, r)' = InTransit(s, t, r)
      /\ Wire(outbox[m]) /\ outbox[m].src = m /\ outbox[m] \in Message
      /\ queue' = [queue EXCEPT ![outbox[m].dst] = Append(@, outbox[m])]
      /\ outbox' = [outbox EXCEPT ![m] = EmptyMessage]
  BY <1>1, SendImmediateTransit DEF TypeOK
<1>3. /\ state' = state /\ errorStatus' = errorStatus /\ finished' = finished
      /\ buffer' = buffer /\ waitingList' = waitingList
      /\ call' = call /\ received' = received
  BY DEF SendImmediate, automatonVars, ownerVars
<1>4. {"RTS", "CTS", "MESSAGE", "ACK"} \subseteq WireTypes
  BY DEF WireTypes, Signals, DataTypes
<1>5. \A n, d \in Mailboxes :
         /\ Asked(n, d)' = Asked(n, d) /\ Cleared(n, d)' = Cleared(n, d)
         /\ Letters(n, d)' = Letters(n, d) /\ Answers(n, d)' = Answers(n, d)
  BY <1>2, <1>3, <1>4 DEF Asked, Cleared, Letters, Answers, Held
<1>6. \A d \in Mailboxes : \A i \in DOMAIN queue'[d] :
         \/ i \in DOMAIN queue[d] /\ queue'[d][i] = queue[d][i]
         \/ d = outbox[m].dst /\ queue'[d][i] = outbox[m]
  BY <1>2, QueueAfterPut DEF Wire
<1>7. AllAddressed'
  <2> SUFFICES ASSUME NEW n \in Mailboxes PROVE Addressed(n)'
    BY DEF AllAddressed
  <2>1. Addressed(n)
    BY <1>1 DEF AllAddressed
  <2>2. outbox'[n] = EmptyMessage \/ (Wire(outbox'[n]) /\ outbox'[n].src = n)
    BY <1>2, <2>1 DEF Addressed, TypeOK
  <2>3. \A i \in DOMAIN queue'[n] : Wire(queue'[n][i]) /\ queue'[n][i].dst = n
    BY <1>2, <1>6, <2>1 DEF Addressed
  <2> QED  BY <1>3, <2>1, <2>2, <2>3 DEF Addressed, Wire
<1>8. AllTokens' /\ AllExpect'
  BY <1>1, <1>3, <1>5
  DEF AllTokens, TokenOK, AllExpect, ExpectOK, Sane, Asking, Transferring, SendingTo
<1>9. AllLetters'
  <2> SUFFICES ASSUME NEW n \in Mailboxes, Sane(n) PROVE LettersOK(n)'
    BY <1>3 DEF AllLetters, LettersOK, Sane
  <2>1. LettersOK(n) /\ LettersOK(m)
    BY <1>1 DEF AllLetters
  <2>2. outbox'[n].type = "MESSAGE" => outbox'[n] = buffer[n]
    BY <1>2, <2>1 DEF LettersOK, TypeOK, EmptyMessage
  <2>3. \A d \in Mailboxes : \A i \in DOMAIN queue'[d] :
           queue'[d][i].type = "MESSAGE" /\ queue'[d][i].src = n => queue'[d][i] = buffer[n]
    BY <1>2, <1>6, <2>1 DEF LettersOK
  <2> QED  BY <1>3, <2>1, <2>2, <2>3 DEF LettersOK
<1>10. AllAnswered'
  BY <1>1, <1>3, <1>5 DEF AllAnswered, AnsweredOK, Taken, Sane
<1>11. (AllAddressed /\ AllTokens /\ AllExpect /\ AllLetters /\ AllAnswered)'
  BY <1>7, <1>8, <1>9, <1>10
<1> QED  BY <1>11, TInvParts, PTL

(* A signal: the round is started over, or a process dies that was blocked *)
(* in mq_send.                                                             *)
LEMMA InterruptTInv ==
    ASSUME TypeOK, TypeOK', TInv, NEW m \in Mailboxes, Coherent(m), Interrupt(m)
    PROVE  TInv'
<1>1. queue' = queue /\ Failure("SYSCALL_INTERRUPTED") \in Message
  BY MadeUpMessages DEF Interrupt, Types
<1>2. CASE Waiting(m) /\ Handle(m, Failure("SYSCALL_INTERRUPTED"))
  <2>1. /\ Failure("SYSCALL_INTERRUPTED").type \notin WireTypes
        /\ Failure("SYSCALL_INTERRUPTED").src = NoName
    BY DEF Failure, WireTypes, Signals, DataTypes
  <2> QED  BY <1>1, <1>2, <2>1, RoundTInv
<1>3. CASE Exit(m)
  <2>1. /\ OthersStay(m) /\ outbox'[m] = EmptyMessage /\ waitingList'[m] = waitingList[m]
        /\ ~Sane(m)'
    BY <1>3 DEF Exit, OthersStay, automatonVars, TypeOK, Sane
  <2>2. /\ call'[m] = "exited" /\ received' = received /\ finished' = finished
        /\ buffer' = buffer
    BY <1>3 DEF Exit, automatonVars, TypeOK
  <2>3. TakenGrows(m)
    BY <2>2 DEF TakenGrows, Taken
  <2> QED  BY <1>1, <2>1, <2>3, LossOfOutbox
<1> QED  BY <1>2, <1>3 DEF Interrupt

(* The processes are not killed from outside: who dies does so because of  *)
(* what came through its mailbox.                                          *)
NobodyIsKilled == MaxCrashes = 0

(* Every step of every mailbox keeps the invariant.                        *)
LEMMA StepTInv ==
    ASSUME NobodyIsKilled, TypeOK, TypeOK', TInv, NEW m \in Mailboxes, Coherent(m),
           Progress(m) \/ Owner(m) \/ Fault(m)
    PROVE  TInv'
<1>1. CASE ReceiveImmediate(m)
  <2>1. /\ AllAddressed /\ queue[m] # <<>> /\ Waiting(m) /\ Handle(m, Head(queue[m]))
        /\ queue' = [queue EXCEPT ![m] = Tail(@)]
    BY <1>1, TInvParts DEF ReceiveImmediate
  <2>2. Head(queue[m]) \in Message /\ Wire(Head(queue[m]))
    BY <2>1, TakenWasCounted
  <2>3. Head(queue[m]).type # "SYSCALL_INTERRUPTED"
    BY <2>2 DEF Wire, WireTypes, Signals, DataTypes
  <2> QED  BY <2>1, <2>2, <2>3, RoundTInv
<1>2. CASE NothingReceived(m)
  <2>1. \A type \in {"TIMED_OUT", "EMPTY"} :
           /\ Failure(type) \in Message /\ Failure(type).type \notin WireTypes
           /\ Failure(type).type # "SYSCALL_INTERRUPTED"
    BY MadeUpMessages DEF Types, Failure, WireTypes, Signals, DataTypes
  <2>2. PICK type \in {"TIMED_OUT", "EMPTY"} : Handle(m, Failure(type))
    BY <1>2 DEF NothingReceived
  <2>3. Waiting(m) /\ queue' = queue
    BY <1>2 DEF NothingReceived
  <2> QED  BY <2>1, <2>2, <2>3, RoundTInv
<1>3. CASE SendImmediate(m)
  BY <1>3, SendImmediateTInv
<1>4. CASE ReturnFromSend(m)
  BY <1>4, ReturnFromSendTInv
<1>5. CASE ReturnFromReceive(m)
  BY <1>5, ReturnFromReceiveTInv
<1>6. CASE Owner(m)
  BY <1>6, SendTInv, SendConnectionlessTInv, ReceiveTInv DEF Owner, Listen
<1>7. CASE Fault(m)
  <2>1. ~Crash(m) /\ ~Restart(m)
    BY DEF NobodyIsKilled, Crash, Restart, TypeOK
  <2> QED  BY <1>7, <2>1, InterruptTInv DEF Fault
<1> QED  BY <1>1, <1>2, <1>3, <1>4, <1>5, <1>6, <1>7 DEF Progress

(* Nothing is on its way at the start.                                     *)
LEMMA InitTInv == Init => TInv
<1> SUFFICES ASSUME Init PROVE TInv
  OBVIOUS
<1>1. TypeOK
  BY InitInv DEF IInv
<1>2. \A m, d \in Mailboxes : Asked(m, d) = 0 /\ Cleared(m, d) = 0
                              /\ Letters(m, d) = 0 /\ Answers(m, d) = 0
  <2>1. \A P : Number(<<>>, P) = 0
    <3>1. \A P : Places(<<>>, P) = {}
      BY DEF Places
    <3> QED  BY <3>1, FS_EmptySet DEF Number
  <2>2. \A s, r \in Mailboxes, t \in WireTypes : InTransit(s, t, r) = 0
    BY <2>1, EmptyIsNoLetter DEF InTransit, Posted, InOutbox, Queued, Init
  <2>3. \A m, d \in Mailboxes : Held(m, d) = 0
    BY <2>1 DEF Held, Init
  <2> QED  BY <2>2, <2>3 DEF Asked, Cleared, Letters, Answers, WireTypes, Signals, DataTypes
<1>3. AllAddressed
  BY DEF AllAddressed, Addressed, Init
<1>4. AllTokens
  BY <1>2 DEF AllTokens, TokenOK
<1>5. AllExpect
  BY DEF AllExpect, ExpectOK, Init
<1>6. AllLetters
  BY DEF AllLetters, LettersOK, Init, EmptyMessage
<1>7. AllAnswered
  BY <1>2 DEF AllAnswered, AnsweredOK, Init
<1> QED  BY <1>3, <1>4, <1>5, <1>6, <1>7, TInvParts

LEMMA StutterTInv == TInv /\ UNCHANGED vars => TInv'
<1> SUFFICES ASSUME TInv, UNCHANGED vars PROVE TInv'
  OBVIOUS
<1>1. /\ queue' = queue /\ state' = state /\ errorStatus' = errorStatus /\ finished' = finished
      /\ buffer' = buffer /\ waitingList' = waitingList /\ outbox' = outbox
      /\ call' = call /\ received' = received
  BY DEF vars, automatonVars, ownerVars, faultVars
<1>2. \A n, d \in Mailboxes :
         /\ Asked(n, d)' = Asked(n, d) /\ Cleared(n, d)' = Cleared(n, d)
         /\ Letters(n, d)' = Letters(n, d) /\ Answers(n, d)' = Answers(n, d)
  BY <1>1 DEF Asked, Cleared, Letters, Answers, Held, InTransit, Posted, InOutbox, Queued
<1> QED
  BY <1>1, <1>2
  DEF TInv, Addressed, Wire, ExpectOK, LettersOK, AnsweredOK, TokenOK, Taken,
      Sane, Asking, Transferring, SendingTo

(* The invariant of the handshakes is inductive with IInv.                 *)
LEMMA NextTInv == NobodyIsKilled /\ IInv /\ TInv /\ [Next]_vars => TInv'
<1> SUFFICES ASSUME NobodyIsKilled, IInv, TInv, [Next]_vars PROVE TInv'
  OBVIOUS
<1>1. TypeOK /\ \A m \in Mailboxes : Coherent(m)
  BY DEF IInv
<1>2. TypeOK'
  BY NextInv DEF IInv
<1> QED  BY <1>1, <1>2, StepTInv, StutterTInv DEF Next

LEMMA TInvAlways == NobodyIsKilled => (Spec => [](IInv /\ TInv))
<1> SUFFICES ASSUME NobodyIsKilled PROVE Spec => [](IInv /\ TInv)
  OBVIOUS
<1>1. Init => IInv /\ TInv
  BY InitInv, InitTInv
<1>2. (IInv /\ TInv) /\ [Next]_vars => (IInv /\ TInv)'
  BY NextInv, NextTInv
<1> QED  BY <1>1, <1>2, PTL DEF Spec

-----------------------------------------------------------------------------
(* One step of m, seen from a mailbox whose send() returns.                *)
LEMMA SendReturnsDelivered ==
    ASSUME TypeOK, TypeOK', TInv, NEW w \in Mailboxes, Coherent(w), SendReturns(w),
           NEW m \in Mailboxes, Progress(m) \/ Owner(m) \/ Fault(m)
    PROVE  Delivered(buffer[w].dst, buffer[w]) \/ Wedged(w)'
<1>1. m = w /\ ReturnFromSend(w)
  <2>1. call[w] = "send" /\ call'[w] = "idle"
    BY DEF SendReturns
  <2>2. \A msg : Handle(m, msg) => call'[w] # "idle"
    BY <2>1 DEF Handle, Exit, ownerVars, TypeOK
  <2>3. ~ReceiveImmediate(m) /\ ~NothingReceived(m)
    <3>1. NothingReceived(m) => Handle(m, Failure("TIMED_OUT")) \/ Handle(m, Failure("EMPTY"))
      BY DEF NothingReceived
    <3>2. ReceiveImmediate(m) => Handle(m, Head(queue[m]))
      BY DEF ReceiveImmediate
    <3> QED  BY <2>1, <2>2, <3>1, <3>2
  <2>4. ~SendImmediate(m)
    BY <2>1 DEF SendImmediate, ownerVars
  <2>5. ~ReturnFromReceive(m)
    BY <2>1 DEF ReturnFromReceive, Completed, TypeOK
  <2>6. ~Owner(m)
    BY <2>1 DEF Owner, Listen, Send, SendConnectionless, Receive, Idle, TypeOK
  <2>7. ~Fault(m)
    <3>1. ~Exit(m)
      BY <2>1 DEF Exit, TypeOK
    <3>2. Interrupt(m) => Handle(m, Failure("SYSCALL_INTERRUPTED")) \/ Exit(m)
      BY DEF Interrupt
    <3>3. ~Restart(m)
      <4>1. Restart(m) => call[m] = "exited" /\ call' = [call EXCEPT ![m] = "idle"]
        BY DEF Restart
      <4>2. call \in [Mailboxes -> {"idle", "send", "receive", "exited"}]
        BY DEF TypeOK
      <4> QED  BY <2>1, <4>1, <4>2
    <3> QED  BY <2>1, <2>2, <3>1, <3>2, <3>3 DEF Fault, Crash
  <2>8. ReturnFromSend(m)
    BY <2>3, <2>4, <2>5, <2>6, <2>7 DEF Progress
  <2>9. m = w
    BY <2>1, <2>8 DEF ReturnFromSend, TypeOK
  <2> QED  BY <2>8, <2>9
<1>2. CASE Reject(w, ResetEvent(w), buffer[w])
  BY <1>2 DEF Reject, TypeOK, Wedged, SendReturns
<1>3. CASE Accept(w, ResetEvent(w), EmptyMessage, buffer[w])
  <2>1. Sane(w)
    BY <1>3, AcceptedIsSane DEF SendReturns, ResetEvent
  <2>2. finished[w]
    BY <1>1, <2>1 DEF ReturnFromSend, Completed, TaskCompleted, Sane
  <2>3. Taken(buffer[w].dst, buffer[w])
    BY <2>1, <2>2, TInvParts DEF AllAnswered, AnsweredOK, SendReturns
  <2> QED  BY <2>3 DEF Taken, Delivered
<1> QED  BY <1>1, <1>2, <1>3 DEF ReturnFromSend, ProcessEvent

(* In every topology and whatever signals interrupt: send() returns with   *)
(* the message delivered, or its mailbox stays behind wedged. It is never  *)
(* acknowledged by somebody who does not have the message. The assumption  *)
(* is needed: a receiver that is killed between its acknowledgement and    *)
(* the return of its receive() takes the message with it.                  *)
THEOREM SendDeliversOrWedgesItself == NobodyIsKilled => (Spec => SendDeliversOrWedges)
<1> SUFFICES ASSUME NobodyIsKilled PROVE Spec => SendDeliversOrWedges
  OBVIOUS
<1>1. IInv /\ IInv' /\ TInv /\ [Next]_vars
        => [\A m \in Mailboxes :
              SendReturns(m) => \/ Delivered(buffer[m].dst, buffer[m])
                                \/ Wedged(m)']_vars
  BY SendReturnsDelivered DEF Next, IInv
<1>2. Spec => [](IInv /\ TInv)
  BY TInvAlways
<1> QED  BY <1>1, <1>2, PTL DEF Spec, SendDeliversOrWedges
=============================================================================
