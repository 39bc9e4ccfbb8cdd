-------------------------- MODULE DeliveryProofs --------------------------
(***************************************************************************)
(* Theorems about what the mailboxes deliver: every send() ends well while *)
(* requests flow one way and nothing interrupts, messages arrive in order, *)
(* and the handshake keeps the promise of ReliableSend.                    *)
(*                                                                         *)
(* SInv is the invariant of a system in which nobody sends to a mailbox    *)
(* that sends to it. There the automaton never meets an event it has no    *)
(* transition for, so all mailboxes stay sane and the tokens of            *)
(* HandshakeProofs are neither lost nor out of place: the receiver of a    *)
(* clearance or a message waits for it, and a sender is told to HOLD at    *)
(* most once, before it is cleared.                                        *)
(*                                                                         *)
(* OInv is the invariant of the order. What a mailbox has handed out,      *)
(* holds and has queued of one sender is numbered upwards, and what the    *)
(* sender is about to queue is newer than all of that. It is inductive     *)
(* whatever signals and kills come between, if receive() hands out nothing *)
(* that its automaton did not receive.                                     *)
(***************************************************************************)
EXTENDS HandshakeProofs

(* Nobody sends to a mailbox that sends to it, and nobody sends to itself. *)
(* The commands and the requests of the system flow so; the replies of the *)
(* database gateway do not.                                                *)
OneWay == \A m, d \in Mailboxes : <<m, d>> \in Links => <<d, m>> \notin Links \cup Notices

(* The answers of d that m is on hold.                                     *)
Holds(m, d) == InTransit(d, "HOLD", m)

(* The request of m to d is on its way, or the answer that it is on hold.  *)
Unheld(m, d) == Holds(m, d) + InTransit(m, "RTS", d)

(* Whom the buffer of m names when m does not wait for a message: nobody,  *)
(* m itself, or somebody m sends to. FromPeer compares with this name.     *)
Peers(m) ==
    /\ call[m] = "send" => <<m, buffer[m].dst>> \in Links
    /\ state[m] # "WaitingMSG" =>
          buffer[m].dst \in {NoName, m} \cup {d \in Mailboxes : <<m, d>> \in Links \cup Notices}

(* While nothing goes wrong the token of a handshake is there, and a       *)
(* receiver that has cleared m waits for m.                                *)
WholeToken(m, d) ==
    /\ Asking(m, d) => Asked(m, d) + Cleared(m, d) = 1
    /\ Transferring(m, d) => Letters(m, d) + Answers(m, d) = 1
    /\ Cleared(m, d) + Letters(m, d) >= 1 => Expecting(d, m)

(* In the queue of m the answer that it is on hold stands before the       *)
(* clearance.                                                              *)
HoldFirst(m, d) ==
    \A i, j \in DOMAIN queue[m] :
       /\ queue[m][i].type = "HOLD" /\ queue[m][i].src = d
       /\ queue[m][j].type = "CTS" /\ queue[m][j].src = d
       => i < j

(* The answer that m is on hold comes once, while m waits for it.          *)
HoldOK(m, d) ==
    /\ Unheld(m, d) <= 1
    /\ Unheld(m, d) >= 1 => Asking(m, d) /\ state[m] = "RTS_Sent"
    /\ InOutbox(d, "HOLD", m) => Queued(d, "CTS", m) = 0
    /\ HoldFirst(m, d)

(* The parts of the invariant, each for all mailboxes.                     *)
AllSane == \A m \in Mailboxes : Sane(m)
AllPeers == \A m \in Mailboxes : Peers(m)
AllWhole == \A m, d \in Mailboxes : WholeToken(m, d)
AllHolds == \A m, d \in Mailboxes : HoldOK(m, d)

(* The invariant of a system in which requests flow one way. It is         *)
(* inductive with IInv and TInv.                                           *)
SInv == AllSane /\ AllPeers /\ AllWhole /\ AllHolds

-----------------------------------------------------------------------------
(* The answers of a receiver when m has done a step.                       *)

(* Typed, and what a step does to the count.                               *)
UnheldTyped == \A m, d \in Mailboxes : Unheld(m, d) \in Nat

LEMMA UnheldIsNat == TypeOK => UnheldTyped
BY CountsAreNat DEF UnheldTyped, Unheld, Holds, WireTypes, Signals

LEMMA ExchangeUnheld ==
    ASSUME TypeOK, AllAddressed, NEW m \in Mailboxes, NEW x, NEW y, Exchange(m, x, y)
    PROVE  \A n, d \in Mailboxes :
              Unheld(n, d)' = Unheld(n, d) - Is(x, d, "HOLD", n) - Is(x, n, "RTS", d)
                                           + Is(y, d, "HOLD", n) + Is(y, n, "RTS", d)
<1> SUFFICES ASSUME NEW n \in Mailboxes, NEW d \in Mailboxes
             PROVE  Unheld(n, d)' = Unheld(n, d) - Is(x, d, "HOLD", n) - Is(x, n, "RTS", d)
                                                 + Is(y, d, "HOLD", n) + Is(y, n, "RTS", d)
  OBVIOUS
<1>1. "HOLD" \in WireTypes /\ "RTS" \in WireTypes
  BY DEF WireTypes, Signals
<1>2. /\ InTransit(d, "HOLD", n)' = InTransit(d, "HOLD", n) - Is(x, d, "HOLD", n) + Is(y, d, "HOLD", n)
      /\ InTransit(n, "RTS", d)' = InTransit(n, "RTS", d) - Is(x, n, "RTS", d) + Is(y, n, "RTS", d)
  BY <1>1, ExchangeTransit
<1>3. /\ InTransit(d, "HOLD", n) \in Nat /\ InTransit(n, "RTS", d) \in Nat
      /\ Is(x, n, "RTS", d) \in Nat /\ Is(y, n, "RTS", d) \in Nat
      /\ Is(x, d, "HOLD", n) \in Nat /\ Is(y, d, "HOLD", n) \in Nat
  BY <1>1, CountsAreNat DEF Is
<1>4. /\ Unheld(n, d)' = InTransit(d, "HOLD", n)' + InTransit(n, "RTS", d)'
      /\ Unheld(n, d) = InTransit(d, "HOLD", n) + InTransit(n, "RTS", d)
  BY DEF Unheld, Holds
<1> QED  BY <1>2, <1>3, <1>4

(* A queue that loses its first message keeps its order.                   *)
LEMMA HoldFirstStays ==
    ASSUME TypeOK, NEW m \in Mailboxes, NEW x, NEW y, Exchange(m, x, y),
           NEW n \in Mailboxes, NEW d \in Mailboxes, HoldFirst(n, d)
    PROVE  HoldFirst(n, d)'
<1>1. CASE queue'[n] = queue[n]
  BY <1>1 DEF HoldFirst
<1>2. CASE n = m /\ queue[m] # <<>> /\ queue'[m] = Tail(queue[m])
  <2>1. queue[n] \in Seq(Message) /\ queue[n] # <<>> /\ queue'[n] = Tail(queue[n])
    BY <1>2 DEF TypeOK
  <2> SUFFICES ASSUME NEW i \in DOMAIN queue'[n], NEW j \in DOMAIN queue'[n],
                      queue'[n][i].type = "HOLD", queue'[n][i].src = d,
                      queue'[n][j].type = "CTS", queue'[n][j].src = d
               PROVE  i < j
    BY DEF HoldFirst
  <2>2. /\ i \in Nat /\ i + 1 \in DOMAIN queue[n] /\ queue'[n][i] = queue[n][i + 1]
        /\ j \in Nat /\ j + 1 \in DOMAIN queue[n] /\ queue'[n][j] = queue[n][j + 1]
    BY <2>1
  <2>3. i + 1 < j + 1
    BY <2>2 DEF HoldFirst
  <2> QED  BY <2>2, <2>3
<1> QED  BY <1>1, <1>2 DEF Exchange, TypeOK

(* The counts behind the tokens, as natural numbers.                       *)
CountsTyped ==
    \A s, r \in Mailboxes, t \in WireTypes :
       /\ Posted(s, t, r) \in Nat /\ Queued(s, t, r) \in Nat
       /\ InTransit(s, t, r) \in Nat

LEMMA CountsAreTyped == TypeOK => CountsTyped
BY CountsAreNat DEF CountsTyped

(* Taking a message out of a queue adds nothing to it.                     *)
LEMMA QueuedShrinks ==
    ASSUME TypeOK, AllAddressed, NEW m \in Mailboxes, NEW x, NEW y, Exchange(m, x, y),
           NEW s \in Mailboxes, NEW t \in WireTypes, NEW r \in Mailboxes
    PROVE  Queued(s, t, r)' <= Queued(s, t, r)
<1>1. Queued(s, t, r) \in Nat
  BY CountsAreNat
<1>2. CASE queue' = queue
  BY <1>1, <1>2 DEF Queued
<1>3. CASE queue[m] # <<>> /\ queue' = [queue EXCEPT ![m] = Tail(@)]
  <2>1. Queued(s, t, r)' = Queued(s, t, r) - Is(Head(queue[m]), s, t, r)
    BY <1>3, QueuedAfterTake DEF AllAddressed, Addressed
  <2>2. Is(Head(queue[m]), s, t, r) \in {0, 1}
    BY DEF Is
  <2> QED  BY <1>1, <2>1, <2>2
<1> QED  BY <1>2, <1>3 DEF Exchange

(* A step of m that puts someone on hold only while it has not cleared it, *)
(* and is itself where its own requests want it to be.                     *)
LEMMA HoldsStay ==
    ASSUME TypeOK, TypeOK', AllAddressed, AllHolds, NEW m \in Mailboxes, NEW x, NEW y,
           Exchange(m, x, y),
           y.type = "HOLD" => Cleared(y.dst, m)' = 0,
           \A n \in Mailboxes \ {m}, d \in Mailboxes : Unheld(n, d)' <= Unheld(n, d),
           \A d \in Mailboxes :
              /\ Unheld(m, d)' <= 1
              /\ Unheld(m, d)' >= 1 => Asking(m, d)' /\ state'[m] = "RTS_Sent"
    PROVE  AllHolds'
<1>0. UnheldTyped /\ UnheldTyped'
  BY UnheldIsNat, PTL
<1>a. CountsTyped /\ CountsTyped'
  BY CountsAreTyped, PTL
<1>b. "CTS" \in WireTypes /\ WireTypes' = WireTypes
  BY DEF WireTypes, Signals, DataTypes
<1> SUFFICES ASSUME NEW n \in Mailboxes, NEW d \in Mailboxes PROVE HoldOK(n, d)'
  BY DEF AllHolds
<1>1. HoldOK(n, d)
  BY DEF AllHolds
<1>2. HoldFirst(n, d)'
  BY <1>1, HoldFirstStays DEF HoldOK
<1>3. Unheld(n, d)' <= 1 /\ (Unheld(n, d)' >= 1 => Asking(n, d)' /\ state'[n] = "RTS_Sent")
  <2>1. CASE n = m
    BY <2>1
  <2>2. CASE n # m
    <3>1. Asking(n, d) => Asking(n, d)'
      BY <2>2 DEF Exchange, OthersStay, Asking, SendingTo
    <3>2. /\ Unheld(n, d)' <= Unheld(n, d) /\ state'[n] = state[n]
          /\ Unheld(n, d) \in Nat /\ Unheld(n, d)' \in Nat
      BY <1>0, <2>2 DEF Exchange, OthersStay, UnheldTyped
    <3> QED  BY <1>1, <3>1, <3>2 DEF HoldOK
  <2> QED  BY <2>1, <2>2
<1>4. InOutbox(d, "HOLD", n)' => Queued(d, "CTS", n)' = 0
  <2> SUFFICES ASSUME InOutbox(d, "HOLD", n)' PROVE Queued(d, "CTS", n)' = 0
    OBVIOUS
  <2>1. CASE d = m
    <3>1. y.type = "HOLD" /\ y.dst = n
      BY <2>1 DEF Exchange, InOutbox
    <3>2. Posted(d, "CTS", n)' + Queued(d, "CTS", n)' = 0
      BY <2>1, <3>1 DEF Cleared, InTransit
    <3> QED  BY <1>a, <1>b, <3>2 DEF CountsTyped
  <2>2. CASE d # m
    <3>1. InOutbox(d, "HOLD", n)
      BY <2>2 DEF Exchange, OthersStay, InOutbox
    <3>2. Queued(d, "CTS", n)' <= Queued(d, "CTS", n)
      BY <1>b, QueuedShrinks
    <3>3. Queued(d, "CTS", n) = 0
      BY <1>1, <3>1 DEF HoldOK
    <3> QED  BY <1>a, <1>b, <3>2, <3>3 DEF CountsTyped
  <2> QED  BY <2>1, <2>2
<1> QED  BY <1>2, <1>3, <1>4 DEF HoldOK

-----------------------------------------------------------------------------
(* Where the token is, when a step of m moves it.                          *)

(* The peers of m are where they were.                                     *)
LEMMA OthersToken ==
    ASSUME NEW m \in Mailboxes, OthersStay(m), NEW n \in Mailboxes \ {m}, NEW d
    PROVE  /\ Asking(n, d)' <=> Asking(n, d)
           /\ Transferring(n, d)' <=> Transferring(n, d)
           /\ Expecting(n, d)' <=> Expecting(n, d)
BY DEF OthersStay, Asking, Transferring, SendingTo, Expecting

(* The receivers that have cleared somebody, after each of the moves.      *)
LEMMA WholeUnmoved ==
    ASSUME AllWhole, NEW m \in Mailboxes, OthersStay(m), Unmoved,
           \A d \in Mailboxes : /\ Asking(m, d)' => Asking(m, d)
                                /\ Transferring(m, d)' => Transferring(m, d)
                                /\ Expecting(m, d) => Expecting(m, d)'
    PROVE  AllWhole'
<1> SUFFICES ASSUME NEW n \in Mailboxes, NEW d \in Mailboxes PROVE WholeToken(n, d)'
  BY DEF AllWhole
<1>1. WholeToken(n, d) /\ SameCounts(n, d)
  BY DEF AllWhole, Unmoved
<1>2. /\ Asking(n, d)' => Asking(n, d)
      /\ Transferring(n, d)' => Transferring(n, d)
      /\ Expecting(d, n) => Expecting(d, n)'
  BY OthersToken
<1> QED  BY <1>1, <1>2 DEF WholeToken, SameCounts

LEMMA WholeGranted ==
    ASSUME TypeOK, AllWhole, NEW m \in Mailboxes, NEW s \in Mailboxes, OthersStay(m),
           Granted(s, m), state[m] # "WaitingMSG", Expecting(m, s)', call'[m] # "send"
    PROVE  AllWhole'
<1> SUFFICES ASSUME NEW n \in Mailboxes, NEW d \in Mailboxes PROVE WholeToken(n, d)'
  BY DEF AllWhole
<1>1. WholeToken(n, d)
  BY DEF AllWhole
<1>2. /\ Asking(n, d)' => Asking(n, d)
      /\ Transferring(n, d)' => Transferring(n, d)
  <2>1. CASE n = m
    BY <2>1 DEF Asking, Transferring, SendingTo
  <2> QED  BY <2>1, OthersToken
<1>3. /\ Asked(n, d) \in Nat /\ Cleared(n, d) \in Nat
      /\ Letters(n, d) \in Nat /\ Answers(n, d) \in Nat
  BY TokensAreNat DEF TokensTyped
<1>4. Asked(n, d)' + Cleared(n, d)' = Asked(n, d) + Cleared(n, d)
  BY <1>3 DEF Granted, Unit
<1>5. Letters(n, d)' + Answers(n, d)' = Letters(n, d) + Answers(n, d)
  BY DEF Granted
<1>6. ASSUME Cleared(n, d)' + Letters(n, d)' >= 1 PROVE Expecting(d, n)'
  <2>1. CASE d = m /\ n = s
    BY <2>1
  <2>2. CASE ~(d = m /\ n = s)
    <3>1. Cleared(n, d)' = Cleared(n, d) /\ Letters(n, d)' = Letters(n, d)
      BY <1>3, <2>2 DEF Granted, Unit
    <3>2. Expecting(d, n)
      BY <1>1, <1>6, <3>1 DEF WholeToken
    <3>3. d # m
      BY <3>2 DEF Expecting
    <3> QED  BY <3>2, <3>3, OthersToken
  <2> QED  BY <2>1, <2>2
<1> QED  BY <1>1, <1>2, <1>4, <1>5, <1>6 DEF WholeToken

LEMMA WholeTransferred ==
    ASSUME TypeOK, AllTokens, AllWhole, NEW m \in Mailboxes, NEW s \in Mailboxes,
           OthersStay(m), Transferred(m, s), Cleared(m, s) >= 1,
           state[m] # "WaitingMSG", Transferring(m, s)'
    PROVE  AllWhole'
<1> SUFFICES ASSUME NEW n \in Mailboxes, NEW d \in Mailboxes PROVE WholeToken(n, d)'
  BY DEF AllWhole
<1>1. WholeToken(n, d) /\ TokenOK(n, d)
  BY DEF AllWhole, AllTokens
<1>2. /\ Asked(n, d) \in Nat /\ Cleared(n, d) \in Nat
      /\ Letters(n, d) \in Nat /\ Answers(n, d) \in Nat
  BY TokensAreNat DEF TokensTyped
<1>3. ASSUME Cleared(n, d)' + Letters(n, d)' >= 1 PROVE Expecting(d, n)'
  <2>1. Cleared(n, d)' + Letters(n, d)' = Cleared(n, d) + Letters(n, d)
    BY <1>2 DEF Transferred, Unit
  <2>2. Expecting(d, n)
    BY <1>1, <1>3, <2>1 DEF WholeToken
  <2>3. d # m
    BY <2>2 DEF Expecting
  <2> QED  BY <2>2, <2>3, OthersToken
<1>4. CASE n = m
  <2>1. ~Asking(m, d)' /\ (Transferring(m, d)' => d = s)
    BY DEF Asking, Transferring, SendingTo
  <2>2. d = s => Letters(n, d)' + Answers(n, d)' = 1
    <3>1. SUFFICES ASSUME d = s PROVE Letters(n, d)' + Answers(n, d)' = 1
      OBVIOUS
    <3>2. Letters(n, d) = 0 /\ Answers(n, d) = 0
      BY <1>1, <1>2, <1>4, <3>1 DEF TokenOK
    <3>3. Letters(n, d)' = Letters(n, d) + Unit(n, d, m, s) /\ Answers(n, d)' = Answers(n, d)
      BY DEF Transferred
    <3> QED  BY <1>4, <3>1, <3>2, <3>3 DEF Unit
  <2> QED  BY <1>3, <1>4, <2>1, <2>2 DEF WholeToken
<1>5. CASE n # m
  <2>1. /\ Asked(n, d)' = Asked(n, d) /\ Cleared(n, d)' = Cleared(n, d)
        /\ Letters(n, d)' = Letters(n, d) /\ Answers(n, d)' = Answers(n, d)
    BY <1>2, <1>5 DEF Transferred, Unit
  <2> QED  BY <1>1, <1>3, <1>5, <2>1, OthersToken DEF WholeToken
<1> QED  BY <1>4, <1>5

LEMMA WholeAccepted ==
    ASSUME TypeOK, AllTokens, AllWhole, NEW m \in Mailboxes, NEW s \in Mailboxes,
           OthersStay(m), Accepted(s, m), Letters(s, m) >= 1, call'[m] # "send"
    PROVE  AllWhole'
<1> SUFFICES ASSUME NEW n \in Mailboxes, NEW d \in Mailboxes PROVE WholeToken(n, d)'
  BY DEF AllWhole
<1>1. /\ WholeToken(n, d) /\ WholeToken(s, m) /\ TokenOK(s, m)
  BY DEF AllWhole, AllTokens
<1>2. /\ Asked(n, d) \in Nat /\ Cleared(n, d) \in Nat
      /\ Letters(n, d) \in Nat /\ Answers(n, d) \in Nat
      /\ Asked(s, m) \in Nat /\ Cleared(s, m) \in Nat
      /\ Letters(s, m) \in Nat /\ Answers(s, m) \in Nat
  BY TokensAreNat DEF TokensTyped
<1>3. /\ Asking(n, d)' => Asking(n, d)
      /\ Transferring(n, d)' => Transferring(n, d)
  <2>1. CASE n = m
    BY <2>1 DEF Asking, Transferring, SendingTo
  <2> QED  BY <2>1, OthersToken
<1>4. Asked(n, d)' + Cleared(n, d)' = Asked(n, d) + Cleared(n, d)
  BY DEF Accepted
<1>5. Letters(n, d)' + Answers(n, d)' = Letters(n, d) + Answers(n, d)
  BY <1>2 DEF Accepted, Unit
<1>6. ASSUME Cleared(n, d)' + Letters(n, d)' >= 1 PROVE Expecting(d, n)'
  <2>1. /\ Cleared(n, d)' = Cleared(n, d)
        /\ Letters(n, d)' = Letters(n, d) - Unit(n, d, s, m)
    BY DEF Accepted
  <2>2. Expecting(d, n)
    BY <1>1, <1>2, <1>6, <2>1 DEF WholeToken, Unit
  <2>3. d # m
    <3> SUFFICES ASSUME d = m PROVE FALSE
      OBVIOUS
    <3>1. Expecting(m, s)
      BY <1>1, <1>2 DEF WholeToken
    <3>2. n = s
      BY <2>2, <3>1 DEF Expecting
    <3>3. Cleared(s, m) = 0 /\ Letters(s, m) = 1
      BY <1>1, <1>2 DEF TokenOK
    <3> QED  BY <1>6, <2>1, <3>2, <3>3 DEF Unit
  <2> QED  BY <2>2, <2>3, OthersToken
<1> QED  BY <1>1, <1>3, <1>4, <1>5, <1>6 DEF WholeToken

LEMMA WholeAnswered ==
    ASSUME TypeOK, AllWhole, NEW m \in Mailboxes, NEW s \in Mailboxes, OthersStay(m),
           Answered(m, s), state[m] # "WaitingMSG", state'[m] = "ActionSuccessfulyEnded"
    PROVE  AllWhole'
<1> SUFFICES ASSUME NEW n \in Mailboxes, NEW d \in Mailboxes PROVE WholeToken(n, d)'
  BY DEF AllWhole
<1>1. WholeToken(n, d)
  BY DEF AllWhole
<1>2. ASSUME Cleared(n, d)' + Letters(n, d)' >= 1 PROVE Expecting(d, n)'
  <2>1. Cleared(n, d)' = Cleared(n, d) /\ Letters(n, d)' = Letters(n, d)
    BY DEF Answered
  <2>2. Expecting(d, n)
    BY <1>1, <1>2, <2>1 DEF WholeToken
  <2>3. d # m
    BY <2>2 DEF Expecting
  <2> QED  BY <2>2, <2>3, OthersToken
<1>3. CASE n = m
  BY <1>2, <1>3 DEF WholeToken, Asking, Transferring
<1>4. CASE n # m
  <2>1. Answers(n, d) \in Nat
    BY TokensAreNat DEF TokensTyped
  <2>2. /\ Asked(n, d)' = Asked(n, d) /\ Cleared(n, d)' = Cleared(n, d)
        /\ Letters(n, d)' = Letters(n, d) /\ Answers(n, d)' = Answers(n, d)
    BY <1>4, <2>1 DEF Answered, Unit
  <2> QED  BY <1>1, <1>2, <1>4, <2>2, OthersToken DEF WholeToken
<1> QED  BY <1>3, <1>4

LEMMA WholeRequested ==
    ASSUME TypeOK, TInv, AllWhole, NEW m \in Mailboxes, NEW s \in Mailboxes, OthersStay(m),
           Sane(m), call[m] # "send", state[m] # "WaitingMSG",
           Requested(m, s), Asking(m, s)'
    PROVE  AllWhole'
<1> SUFFICES ASSUME NEW n \in Mailboxes, NEW d \in Mailboxes PROVE WholeToken(n, d)'
  BY DEF AllWhole
<1>1. WholeToken(n, d)
  BY DEF AllWhole
<1>2. ASSUME Cleared(n, d)' + Letters(n, d)' >= 1 PROVE Expecting(d, n)'
  <2>1. Cleared(n, d)' = Cleared(n, d) /\ Letters(n, d)' = Letters(n, d)
    BY DEF Requested
  <2>2. Expecting(d, n)
    BY <1>1, <1>2, <2>1 DEF WholeToken
  <2>3. d # m
    BY <2>2 DEF Expecting
  <2> QED  BY <2>2, <2>3, OthersToken
<1>3. CASE n = m
  <2>1. /\ Asked(m, d) = 0 /\ Cleared(m, d) = 0
    BY NothingUnderWay
  <2>2. ~Transferring(m, d)' /\ (Asking(m, d)' => d = s)
    BY DEF Asking, Transferring, SendingTo
  <2>3. d = s => Asked(m, d)' + Cleared(m, d)' = 1
    BY <2>1 DEF Requested, Unit
  <2> QED  BY <1>2, <1>3, <2>2, <2>3 DEF WholeToken
<1>4. CASE n # m
  <2>1. Asked(n, d) \in Nat
    BY TokensAreNat DEF TokensTyped
  <2>2. /\ Asked(n, d)' = Asked(n, d) /\ Cleared(n, d)' = Cleared(n, d)
        /\ Letters(n, d)' = Letters(n, d) /\ Answers(n, d)' = Answers(n, d)
    BY <1>4, <2>1 DEF Requested, Unit
  <2> QED  BY <1>1, <1>2, <1>4, <2>2, OthersToken DEF WholeToken
<1> QED  BY <1>3, <1>4

-----------------------------------------------------------------------------
(* Rounds of a mailbox that takes what comes.                              *)

(* A step that sends neither a request nor a hold leaves no more of them.  *)
LEMMA FewerUnheld ==
    ASSUME TypeOK, AllAddressed, NEW m \in Mailboxes, NEW x, NEW y, Exchange(m, x, y),
           y.type \notin {"RTS", "HOLD"}
    PROVE  \A n, d \in Mailboxes : Unheld(n, d)' <= Unheld(n, d)
<1> SUFFICES ASSUME NEW n \in Mailboxes, NEW d \in Mailboxes
             PROVE  Unheld(n, d)' <= Unheld(n, d)
  OBVIOUS
<1>1. Unheld(n, d)' = Unheld(n, d) - Is(x, d, "HOLD", n) - Is(x, n, "RTS", d)
                                   + Is(y, d, "HOLD", n) + Is(y, n, "RTS", d)
  BY ExchangeUnheld
<1>2. /\ Is(x, d, "HOLD", n) \in {0, 1} /\ Is(x, n, "RTS", d) \in {0, 1}
      /\ Is(y, d, "HOLD", n) = 0 /\ Is(y, n, "RTS", d) = 0
  BY DEF Is
<1>3. Unheld(n, d) \in Nat
  BY UnheldIsNat DEF UnheldTyped
<1> QED  BY <1>1, <1>2, <1>3

(* Nothing of this is on its way to a mailbox that does not wait for it.   *)
LEMMA NothingUnheld ==
    ASSUME TypeOK, AllHolds, NEW m \in Mailboxes, call[m] # "send" \/ state[m] # "RTS_Sent"
    PROVE  \A d \in Mailboxes : Unheld(m, d) = 0
<1> SUFFICES ASSUME NEW d \in Mailboxes PROVE Unheld(m, d) = 0
  OBVIOUS
<1>1. HoldOK(m, d) /\ Unheld(m, d) \in Nat
  BY UnheldIsNat DEF AllHolds, UnheldTyped
<1> QED  BY <1>1 DEF HoldOK, Asking, SendingTo

(* What is on its way to m does not grow, and m does not move before it    *)
(* has come.                                                               *)
LEMMA HoldsShrink ==
    ASSUME TypeOK, TypeOK', AllAddressed, AllHolds, NEW m \in Mailboxes, NEW x, NEW y,
           Exchange(m, x, y),
           y.type = "HOLD" => Cleared(y.dst, m)' = 0,
           \A n, d \in Mailboxes : Unheld(n, d)' <= Unheld(n, d),
           \A d \in Mailboxes : Unheld(m, d)' >= 1 =>
              /\ state'[m] = state[m] /\ call'[m] = call[m]
              /\ buffer'[m].dst = buffer[m].dst
    PROVE  AllHolds'
<1>1. ASSUME NEW d \in Mailboxes
      PROVE  /\ Unheld(m, d)' <= 1
             /\ Unheld(m, d)' >= 1 => Asking(m, d)' /\ state'[m] = "RTS_Sent"
  <2>1. HoldOK(m, d) /\ Unheld(m, d) \in Nat /\ Unheld(m, d)' <= Unheld(m, d)
    BY UnheldIsNat DEF AllHolds, UnheldTyped
  <2>2. UnheldTyped'
    BY UnheldIsNat, PTL
  <2>3. Unheld(m, d)' \in Nat
    BY <2>2 DEF UnheldTyped
  <2> QED  BY <2>1, <2>3 DEF HoldOK, Asking, SendingTo
<1> QED  BY <1>1, HoldsStay

(* The same when nothing is on its way to m and m sends no request.        *)
LEMMA NoneUnheld ==
    ASSUME TypeOK, TypeOK', AllAddressed, AllHolds, NEW m \in Mailboxes, NEW x, NEW y,
           Exchange(m, x, y), y.type # "RTS", y.type # "HOLD",
           \A d \in Mailboxes : Unheld(m, d) = 0
    PROVE  AllHolds'
<1>1. \A n, d \in Mailboxes : Unheld(n, d)' <= Unheld(n, d)
  BY FewerUnheld
<1>2. ASSUME NEW d \in Mailboxes PROVE ~(Unheld(m, d)' >= 1)
  <2>1. UnheldTyped'
    BY UnheldIsNat, PTL
  <2>2. Unheld(m, d)' \in Nat /\ Unheld(m, d)' <= Unheld(m, d) /\ Unheld(m, d) = 0
    BY <1>1, <2>1 DEF UnheldTyped
  <2> QED  BY <2>2
<1> QED  BY <1>1, <1>2, HoldsShrink

(* What the tokens and the holds do not cover, for one round.              *)
LEMMA RoundSInv ==
    ASSUME NEW m \in Mailboxes, NEW x, Round(m, x), SInv, errorStatus'[m] = "AUT_OK",
           AllWhole', AllHolds',
           \/ state'[m] = "WaitingMSG" \/ buffer'[m].dst \in {NoName, m}
           \/ buffer'[m].dst = buffer[m].dst /\ state[m] # "WaitingMSG",
           call[m] = "send" => buffer'[m].dst = buffer[m].dst
    PROVE  SInv'
<1>1. OthersStay(m) /\ call' = call
  BY DEF Round
<1>2. AllSane'
  <2> SUFFICES ASSUME NEW n \in Mailboxes PROVE Sane(n)'
    BY DEF AllSane
  <2> QED  BY <1>1 DEF SInv, AllSane, Sane, OthersStay
<1>3. AllPeers'
  <2> SUFFICES ASSUME NEW n \in Mailboxes PROVE Peers(n)'
    BY DEF AllPeers
  <2>1. Peers(n)
    BY DEF SInv, AllPeers
  <2>2. CASE n = m
    BY <1>1, <2>1, <2>2 DEF Peers
  <2>3. CASE n # m
    BY <2>1, <2>3, <1>1 DEF Peers, OthersStay
  <2> QED  BY <2>2, <2>3
<1> QED  BY <1>2, <1>3 DEF SInv

(* The eight kinds of accepted rounds keep the invariant.                  *)
LEMMA HoldSInv ==
    ASSUME NEW m \in Mailboxes, NEW x, Round(m, x), SInv, errorStatus'[m] = "AUT_OK",
           HoldStep(m, x)
    PROVE  SInv'
<1> DEFINE y == Signal(m, x.src, "HOLD")
<1>1. /\ x.src \in Mailboxes /\ x.dst = m
      /\ Exchange(m, x, y) /\ y.src = m /\ y.type = "HOLD" /\ y.dst = x.src
      /\ buffer'[m] = buffer[m] /\ call'[m] = call[m] /\ Unmoved
  BY HoldFacts
<1>2. /\ TypeOK /\ TypeOK' /\ OthersStay(m) /\ x.type = "RTS" /\ state'[m] = state[m]
      /\ AllAddressed /\ AllTokens /\ AllWhole /\ AllHolds
  BY RoundStart DEF Round, HoldStep, SInv
<1> HIDE DEF y
<1>3. AllWhole'
  BY <1>1, <1>2, WholeUnmoved DEF Asking, Transferring, SendingTo, Expecting
<1>4. Cleared(x.src, m)' = 0
  <2>1. InTransit(x.src, "RTS", m) >= 1
    BY <1>2, RoundCame DEF WireTypes, Signals
  <2>2. Asked(x.src, m) >= 1
    BY <1>1, <1>2, <2>1, CountsAreNat DEF Asked, WireTypes, Signals
  <2>3. TokenOK(x.src, m) /\ SameCounts(x.src, m)
    BY <1>1, <1>2 DEF AllTokens, Unmoved
  <2>4. /\ Asked(x.src, m) \in Nat /\ Cleared(x.src, m) \in Nat
        /\ Letters(x.src, m) \in Nat /\ Answers(x.src, m) \in Nat
    BY <1>1, RoundStart DEF TokensTyped
  <2> QED  BY <2>2, <2>3, <2>4 DEF TokenOK, SameCounts
<1>5. \A n, d \in Mailboxes : Unheld(n, d)' <= Unheld(n, d)
  <2> SUFFICES ASSUME NEW n \in Mailboxes, NEW d \in Mailboxes
               PROVE  Unheld(n, d)' <= Unheld(n, d)
    OBVIOUS
  <2>1. /\ Is(x, d, "HOLD", n) = 0 /\ Is(x, n, "RTS", d) = Unit(n, d, x.src, m)
        /\ Is(y, d, "HOLD", n) = Unit(n, d, x.src, m) /\ Is(y, n, "RTS", d) = 0
        /\ Unit(n, d, x.src, m) \in Nat
    BY <1>1, <1>2 DEF Is, Unit
  <2>2. Unheld(n, d) \in Nat
    BY <1>2, UnheldIsNat DEF UnheldTyped
  <2>3. Unheld(n, d)' = Unheld(n, d) - Is(x, d, "HOLD", n) - Is(x, n, "RTS", d)
                                     + Is(y, d, "HOLD", n) + Is(y, n, "RTS", d)
    BY <1>1, <1>2, ExchangeUnheld
  <2> QED  BY <2>1, <2>2, <2>3
<1>6. AllHolds'
  BY <1>1, <1>2, <1>4, <1>5, HoldsShrink
<1>7. state'[m] = "WaitingMSG" \/ state[m] # "WaitingMSG"
  BY <1>2
<1> QED  BY <1>1, <1>3, <1>6, <1>7, RoundSInv

LEMMA GrantSInv ==
    ASSUME NEW m \in Mailboxes, NEW x, Round(m, x), SInv, errorStatus'[m] = "AUT_OK",
           GrantStep(m, x)
    PROVE  SInv'
<1> DEFINE y == Signal(m, x.src, "CTS")
<1>1. /\ x.src \in Mailboxes /\ Exchange(m, x, y) /\ y.type = "CTS"
      /\ buffer'[m].dst = x.src /\ call'[m] = call[m] /\ Granted(x.src, m)
  BY GrantFacts
<1>2. /\ TypeOK /\ TypeOK' /\ OthersStay(m) /\ AllAddressed /\ AllWhole /\ AllHolds
      /\ state[m] = "WaitingRTS" /\ state'[m] = "WaitingMSG"
  BY RoundStart DEF Round, GrantStep, SInv
<1> HIDE DEF y
<1>3. call[m] = "receive"
  BY <1>2, RoundStart
<1>4. AllWhole'
  BY <1>1, <1>2, <1>3, WholeGranted DEF Expecting
<1>5. AllHolds'
  <2>1. \A d \in Mailboxes : Unheld(m, d) = 0
    BY <1>2, NothingUnheld
  <2>2. y.type # "RTS" /\ y.type # "HOLD"
    BY <1>1, <1>2
  <2> QED  BY <1>1, <1>2, <2>1, <2>2, NoneUnheld
<1> QED  BY <1>2, <1>3, <1>4, <1>5, RoundSInv

(* A clearance overtakes no hold: the sender has been told already, if it  *)
(* was put on hold at all.                                                 *)
LEMMA ClearedNotHeld ==
    ASSUME NEW m \in Mailboxes, NEW x, Round(m, x), SInv, TransferStep(m, x)
    PROVE  \A d \in Mailboxes : Unheld(m, d) = 0
<1>1. /\ TypeOK /\ AllAddressed /\ AllTokens /\ AllHolds /\ TokensTyped
      /\ x.type = "CTS" /\ x.src = buffer[m].dst /\ call[m] = "send"
      /\ x.src \in Mailboxes /\ Cleared(m, x.src) >= 1
  BY RoundStart, TransferFacts DEF Round, TransferStep, SInv
<1> DEFINE s == x.src
<1>2. ASSUME NEW d \in Mailboxes, Unheld(m, d) # 0 PROVE d = s
  BY <1>1, <1>2, UnheldIsNat DEF AllHolds, HoldOK, UnheldTyped, Asking, SendingTo
<1>3. Unheld(m, s) = 0
  <2>1. /\ queue[m] # <<>> /\ x = Head(queue[m]) /\ queue[m] \in Seq(Message)
        /\ 1 \in DOMAIN queue[m] /\ x = queue[m][1]
    BY <1>1 DEF Round, WireTypes, Signals, TypeOK
  <2>2. InTransit(m, "RTS", s) = 0
    <3>1. TokenOK(m, s) /\ Asked(m, s) \in Nat /\ Cleared(m, s) \in Nat
          /\ Letters(m, s) \in Nat /\ Answers(m, s) \in Nat
      BY <1>1 DEF AllTokens, TokensTyped
    <3>2. Asked(m, s) = 0
      BY <1>1, <3>1 DEF TokenOK
    <3> QED  BY <1>1, <3>2, CountsAreNat DEF Asked, WireTypes, Signals
  <2>3. Posted(s, "HOLD", m) = 0
    <3>1. Queued(s, "CTS", m) >= 1
      BY <1>1, <2>1, TakenWasCounted
    <3>2. InOutbox(s, "HOLD", m) => Queued(s, "CTS", m) = 0
      BY <1>1 DEF AllHolds, HoldOK
    <3> QED  BY <3>1, <3>2 DEF Posted
  <2>4. Queued(s, "HOLD", m) = 0
    <3>1. HoldFirst(m, s)
      BY <1>1 DEF AllHolds, HoldOK
    <3>2. ASSUME NEW i \in DOMAIN queue[m] PROVE ~(queue[m][i].type = "HOLD" /\ queue[m][i].src = s)
      BY <1>1, <2>1, <3>1 DEF HoldFirst
    <3>3. Places(queue[m], Kind("HOLD", s)) = {}
      BY <3>2 DEF Places, Kind
    <3> QED  BY <2>1, <3>3, NumberIsNat DEF Queued
  <2> QED  BY <2>2, <2>3, <2>4 DEF Unheld, Holds, InTransit
<1> QED  BY <1>2, <1>3

LEMMA TransferSInv ==
    ASSUME NEW m \in Mailboxes, NEW x, Round(m, x), SInv, errorStatus'[m] = "AUT_OK",
           TransferStep(m, x)
    PROVE  SInv'
<1>1. /\ x.src \in Mailboxes /\ Cleared(m, x.src) >= 1 /\ buffer[m].dst = x.src
      /\ Exchange(m, x, buffer[m]) /\ buffer[m].type = "MESSAGE"
      /\ buffer'[m] = buffer[m] /\ call'[m] = call[m] /\ call[m] = "send"
      /\ Transferred(m, x.src)
  BY TransferFacts
<1>2. /\ TypeOK /\ TypeOK' /\ OthersStay(m)
      /\ AllAddressed /\ AllTokens /\ AllWhole /\ AllHolds
      /\ state[m] \in {"RTS_Sent", "HoldState"} /\ state'[m] = "WaitingACK"
  BY RoundStart DEF Round, TransferStep, SInv
<1>3. AllWhole'
  <2>1. Transferring(m, x.src)'
    BY <1>1, <1>2 DEF Transferring, SendingTo
  <2> QED  BY <1>1, <1>2, <2>1, WholeTransferred
<1>4. AllHolds'
  <2>1. \A d \in Mailboxes : Unheld(m, d) = 0
    BY ClearedNotHeld
  <2>2. buffer[m].type # "RTS" /\ buffer[m].type # "HOLD"
    BY <1>1, <1>2
  <2> QED  BY <1>1, <1>2, <2>1, <2>2, NoneUnheld
<1> QED  BY <1>1, <1>2, <1>3, <1>4, RoundSInv

LEMMA FinishSInv ==
    ASSUME NEW m \in Mailboxes, NEW x, Round(m, x), SInv, errorStatus'[m] = "AUT_OK",
           FinishStep(m, x)
    PROVE  SInv'
<1>1. /\ x.src \in Mailboxes /\ Exchange(m, x, EmptyMessage)
      /\ buffer'[m] = buffer[m] /\ call'[m] = call[m] /\ call[m] = "send"
      /\ Answered(m, x.src)
  BY FinishFacts
<1>2. /\ TypeOK /\ TypeOK' /\ OthersStay(m) /\ AllAddressed /\ AllWhole /\ AllHolds
      /\ state[m] = "WaitingACK" /\ state'[m] = "ActionSuccessfulyEnded"
      /\ EmptyMessage.type \notin {"RTS", "HOLD"}
  BY RoundStart DEF Round, FinishStep, SInv, EmptyMessage
<1>3. AllWhole'
  BY <1>1, <1>2, WholeAnswered
<1>4. AllHolds'
  <2>1. \A d \in Mailboxes : Unheld(m, d) = 0
    BY <1>2, NothingUnheld
  <2>2. EmptyMessage.type # "RTS" /\ EmptyMessage.type # "HOLD"
    BY <1>1, <1>2
  <2> QED  BY <1>1, <1>2, <2>1, <2>2, NoneUnheld
<1> QED  BY <1>1, <1>2, <1>3, <1>4, RoundSInv

LEMMA AcceptSInv ==
    ASSUME NEW m \in Mailboxes, NEW x, Round(m, x), SInv, errorStatus'[m] = "AUT_OK",
           AcceptStep(m, x), x.type = "SYSCALL_INTERRUPTED" => x.src = NoName
    PROVE  SInv'
<1> DEFINE y == Signal(m, x.src, "ACK")
<1>1. /\ x.src \in Mailboxes /\ x.dst = m /\ Letters(x.src, m) >= 1
      /\ Exchange(m, x, y) /\ y.type = "ACK"
      /\ buffer'[m] = x /\ call'[m] = call[m] /\ call[m] = "receive"
      /\ Accepted(x.src, m)
  BY AcceptFacts
<1>2. /\ TypeOK /\ TypeOK' /\ OthersStay(m)
      /\ AllAddressed /\ AllTokens /\ AllWhole /\ AllHolds
  BY RoundStart DEF Round, SInv
<1> HIDE DEF y
<1>3. AllWhole'
  BY <1>1, <1>2, WholeAccepted
<1>4. AllHolds'
  <2>1. \A d \in Mailboxes : Unheld(m, d) = 0
    BY <1>1, <1>2, NothingUnheld
  <2>2. y.type # "RTS" /\ y.type # "HOLD"
    BY <1>1, <1>2
  <2> QED  BY <1>1, <1>2, <2>1, <2>2, NoneUnheld
<1> QED  BY <1>1, <1>3, <1>4, RoundSInv

LEMMA QuietSInv ==
    ASSUME NEW m \in Mailboxes, NEW x, Round(m, x), SInv, errorStatus'[m] = "AUT_OK",
           HeldStep(m, x) \/ IgnoreStep(m, x) \/ SaveStep(m, x),
           x.type \notin WireTypes => x.dst = NoName
    PROVE  SInv'
<1>1. /\ Exchange(m, x, EmptyMessage) /\ Unmoved /\ call'[m] = call[m]
      /\ \/ /\ buffer'[m] = buffer[m]
            /\ \/ state'[m] = state[m]
               \/ state[m] = "RTS_Sent" /\ state'[m] = "HoldState"
         \/ call[m] = "receive" /\ state'[m] = "ActionSuccessfulyEnded"
  BY QuietFacts
<1>2. /\ TypeOK /\ TypeOK' /\ OthersStay(m)
      /\ AllAddressed /\ AllWhole /\ AllHolds
      /\ EmptyMessage.type \notin {"RTS", "HOLD"}
  BY RoundStart DEF Round, SInv, EmptyMessage
<1>3. \A n, d \in Mailboxes : Unheld(n, d)' <= Unheld(n, d)
  BY <1>1, <1>2, FewerUnheld
<1>4. CASE IgnoreStep(m, x)
  <2>1. buffer'[m] = buffer[m] /\ state'[m] = state[m]
    BY <1>2, <1>4 DEF IgnoreStep, DoVoid, TypeOK
  <2>2. AllWhole'
    BY <1>1, <1>2, <2>1, WholeUnmoved DEF Asking, Transferring, SendingTo, Expecting
  <2>3. AllHolds'
    BY <1>1, <1>2, <1>3, <2>1, HoldsShrink
  <2>4. state'[m] = "WaitingMSG" \/ state[m] # "WaitingMSG"
    BY <2>1
  <2> QED  BY <2>1, <2>2, <2>3, <2>4, RoundSInv
<1>5. CASE SaveStep(m, x)
  <2>1. /\ state[m] = "WaitingRTS" /\ call[m] = "receive" /\ buffer'[m] = x
        /\ x.type \in {"MESSAGE_CONNECTIONLESS", "TIMED_OUT", "EMPTY"}
    BY <1>2, <1>5, RoundStart DEF SaveStep, DoSaveMessage, TypeOK
  <2>2. AllWhole'
    BY <1>1, <1>2, <2>1, WholeUnmoved DEF Asking, Transferring, SendingTo, Expecting
  <2>3. AllHolds'
    <3>1. \A d \in Mailboxes : Unheld(m, d) = 0
      BY <1>2, <2>1, NothingUnheld
    <3>2. EmptyMessage.type # "RTS" /\ EmptyMessage.type # "HOLD"
      BY <1>2
    <3> QED  BY <1>1, <1>2, <3>1, <3>2, NoneUnheld
  <2>4. x.dst \in {NoName, m}
    BY <2>1, RoundCame
  <2> QED  BY <2>1, <2>2, <2>3, <2>4, RoundSInv
<1>6. CASE HeldStep(m, x)
  <2>1. /\ state[m] = "RTS_Sent" /\ state'[m] = "HoldState" /\ buffer'[m] = buffer[m]
        /\ x.type = "HOLD" /\ x.src = buffer[m].dst
    BY <1>2, <1>6 DEF HeldStep, DoVoid, TypeOK
  <2>2. AllWhole'
    BY <1>1, <1>2, <2>1, WholeUnmoved DEF Asking, Transferring, SendingTo, Expecting
  <2>3. x.src \in Mailboxes /\ x.dst = m
    BY <2>1, RoundCame DEF WireTypes, Signals
  <2>4. \A d \in Mailboxes : ~(Unheld(m, d)' >= 1)
    <3> SUFFICES ASSUME NEW d \in Mailboxes PROVE ~(Unheld(m, d)' >= 1)
      OBVIOUS
    <3>1. Unheld(m, d) \in Nat /\ HoldOK(m, d)
      BY <1>2, UnheldIsNat DEF UnheldTyped, AllHolds
    <3>2. CASE d = x.src
      <4>1. /\ Is(x, d, "HOLD", m) = 1 /\ Is(x, m, "RTS", d) = 0
            /\ Is(EmptyMessage, d, "HOLD", m) = 0 /\ Is(EmptyMessage, m, "RTS", d) = 0
        BY <1>2, <2>1, <2>3, <3>2 DEF Is
      <4>2. Unheld(m, d)' = Unheld(m, d) - Is(x, d, "HOLD", m) - Is(x, m, "RTS", d)
                            + Is(EmptyMessage, d, "HOLD", m) + Is(EmptyMessage, m, "RTS", d)
        BY <1>1, <1>2, ExchangeUnheld
      <4> QED  BY <3>1, <4>1, <4>2 DEF HoldOK
    <3>3. CASE d # x.src
      <4>1. Unheld(m, d) = 0
        BY <2>1, <3>1, <3>3 DEF HoldOK, Asking, SendingTo
      <4>2. UnheldTyped'
        BY <1>2, UnheldIsNat, PTL
      <4>3. Unheld(m, d)' \in Nat /\ Unheld(m, d)' <= Unheld(m, d)
        BY <1>3, <4>2 DEF UnheldTyped
      <4> QED  BY <4>1, <4>3
    <3> QED  BY <3>2, <3>3
  <2>5. AllHolds'
    BY <1>1, <1>2, <1>3, <2>4, HoldsShrink
  <2> QED  BY <2>1, <2>2, <2>5, RoundSInv
<1> QED  BY <1>4, <1>5, <1>6

-----------------------------------------------------------------------------
(* Every message a mailbox takes while it waits has a transition.          *)

(* The transitions for what may come.                                      *)
LEMMA RowsOfTable ==
    /\ \A q \in {"RTS_Sent", "HoldState", "WaitingACK", "WaitingRTS", "WaitingMSG"} :
          /\ \E row \in TransitionTable : row[1] = q /\ row[2] = "RTS_Received"
          /\ \E row \in TransitionTable : row[1] = q /\ row[2] = "ValidMsgConnectionless"
    /\ \A q \in {"RTS_Sent", "HoldState"} :
          \E row \in TransitionTable : row[1] = q /\ row[2] = "CTS_Received"
    /\ \E row \in TransitionTable : row[1] = "RTS_Sent" /\ row[2] = "HOLD_Received"
    /\ \E row \in TransitionTable : row[1] = "WaitingACK" /\ row[2] = "ACK_Received"
    /\ \E row \in TransitionTable : row[1] = "WaitingMSG" /\ row[2] = "ValidMsg"
    /\ \A q \in {"WaitingRTS", "WaitingMSG"} :
          \E row \in TransitionTable : row[1] = q /\ row[2] = "TimedOut"
BY DEF TransitionTable

(* The lemma the rest is for: whatever a waiting mailbox takes from its    *)
(* queue is recognised by parseMessage and has a transition.               *)
LEMMA NeverRejected ==
    ASSUME OneWay, TypeOK, TInv, SInv, NEW m \in Mailboxes, Coherent(m), Waiting(m), NEW x,
           \/ queue[m] # <<>> /\ x = Head(queue[m])
           \/ call[m] = "receive" /\ x.type \in {"TIMED_OUT", "EMPTY"}
    PROVE  ParseMessage(m, x) # "FatalError" /\ Rows(m, ParseMessage(m, x)) # {}
<1>1. /\ Sane(m) /\ ~finished[m]
      /\ AllAddressed /\ AllTokens /\ AllExpect /\ AllPeers /\ AllWhole /\ AllHolds
      /\ TokensTyped /\ UnheldTyped
  BY TInvParts, TokensAreNat, UnheldIsNat DEF SInv, AllSane, Sane, Waiting, TaskCompleted
<1>2. /\ state[m] \in {"RTS_Sent", "HoldState", "WaitingACK", "WaitingRTS", "WaitingMSG"}
      /\ call[m] = "receive" => state[m] \in {"WaitingRTS", "WaitingMSG"}
  BY <1>1 DEF Waiting, Coherent, SendStates, ReceiveStates, Sane
<1>3. ASSUME NEW e, e # "FatalError", ParseMessage(m, x) = e,
             \E row \in TransitionTable : row[1] = state[m] /\ row[2] = e
      PROVE  ParseMessage(m, x) # "FatalError" /\ Rows(m, ParseMessage(m, x)) # {}
  BY <1>3 DEF Rows
<1>4. CASE call[m] = "receive" /\ x.type \in {"TIMED_OUT", "EMPTY"}
  <2>1. ParseMessage(m, x) = "TimedOut"
    BY <1>4 DEF ParseMessage
  <2> QED  BY <1>2, <1>3, <1>4, <2>1, RowsOfTable
<1>5. CASE queue[m] # <<>> /\ x = Head(queue[m])
  <2> DEFINE s == x.src
  <2>1. /\ Wire(x) /\ x.dst = m /\ s \in Mailboxes /\ InTransit(s, x.type, m) >= 1
    BY <1>1, <1>5, TakenWasCounted DEF Wire
  <2>2. x.type \in {"RTS", "CTS", "HOLD", "ACK", "MESSAGE", "MESSAGE_CONNECTIONLESS"}
    BY <2>1 DEF Wire, WireTypes, Signals, DataTypes
  <2>a. {"RTS", "CTS", "HOLD", "ACK", "MESSAGE"} \subseteq WireTypes
    BY DEF WireTypes, Signals, DataTypes
  <2>b. /\ TokenOK(m, s) /\ TokenOK(s, m) /\ ExpectOK(m) /\ WholeToken(s, m)
        /\ HoldOK(m, s) /\ HoldOK(s, m) /\ Peers(m) /\ Peers(s)
    BY <1>1, <2>1 DEF AllTokens, AllExpect, AllWhole, AllHolds, AllPeers
  <2>c. /\ Asked(m, s) \in Nat /\ Cleared(m, s) \in Nat
        /\ Letters(m, s) \in Nat /\ Answers(m, s) \in Nat
        /\ Asked(s, m) \in Nat /\ Cleared(s, m) \in Nat
        /\ Letters(s, m) \in Nat /\ Answers(s, m) \in Nat
        /\ Unheld(m, s) \in Nat /\ Unheld(s, m) \in Nat
    BY <1>1, <2>1 DEF TokensTyped, UnheldTyped
  <2>d. /\ InTransit(s, "RTS", m) \in Nat /\ Held(s, m) \in Nat
        /\ InTransit(m, "RTS", s) \in Nat /\ InTransit(m, "HOLD", s) \in Nat
        /\ InTransit(s, "HOLD", m) \in Nat
    BY <2>1, CountsAreNat, HeldIsNat DEF HeldTyped, WireTypes, Signals
  <2> HIDE DEF s
  <2>3. CASE x.type = "RTS"
    <3>1. Asked(s, m) >= 1 /\ Unheld(s, m) >= 1
      BY <2>1, <2>3, <2>d DEF Asked, Unheld, Holds
    <3>2. <<s, m>> \in Links
      BY <2>b, <3>1 DEF HoldOK, Asking, SendingTo, Peers
    <3>3. s # buffer[m].dst
      <4>1. CASE state[m] = "WaitingMSG"
        BY <1>1, <2>b, <3>1, <4>1 DEF ExpectOK
      <4>2. CASE state[m] # "WaitingMSG"
        <5>1. s # NoName /\ <<m, s>> \notin Links \cup Notices
          BY <2>1, <3>2, MailboxAssumption DEF OneWay
        <5> QED  BY <2>b, <3>2, <4>2, <5>1 DEF Peers
      <4> QED  BY <4>1, <4>2
    <3>4. ParseMessage(m, x) = "RTS_Received"
      BY <2>3, <3>3 DEF ParseMessage, FromPeer, s
    <3> QED  BY <1>2, <1>3, <3>4, RowsOfTable
  <2>4. CASE x.type = "CTS"
    <3>1. Cleared(m, s) >= 1
      BY <2>1, <2>4 DEF Cleared
    <3>2. Asking(m, s)
      <4>1. Asked(m, s) + Cleared(m, s) <= IF Asking(m, s) THEN 1 ELSE 0
        BY <1>1, <2>b DEF TokenOK
      <4> QED  BY <2>c, <3>1, <4>1
    <3>3. ParseMessage(m, x) = "CTS_Received" /\ state[m] \in {"RTS_Sent", "HoldState"}
      BY <2>4, <3>2 DEF ParseMessage, FromPeer, s, Asking, SendingTo
    <3> QED  BY <1>3, <3>3, RowsOfTable
  <2>5. CASE x.type = "HOLD"
    <3>1. Unheld(m, s) >= 1
      BY <2>1, <2>5, <2>d DEF Unheld, Holds
    <3>2. Asking(m, s) /\ state[m] = "RTS_Sent"
      BY <2>b, <3>1 DEF HoldOK
    <3>3. ParseMessage(m, x) = "HOLD_Received"
      BY <2>5, <3>2 DEF ParseMessage, FromPeer, s, Asking, SendingTo
    <3> QED  BY <1>3, <3>2, <3>3, RowsOfTable
  <2>6. CASE x.type = "ACK"
    <3>1. Answers(m, s) >= 1
      BY <2>1, <2>6 DEF Answers
    <3>2. Transferring(m, s)
      <4>1. Letters(m, s) + Answers(m, s) <= IF Transferring(m, s) THEN 1 ELSE 0
        BY <1>1, <2>b DEF TokenOK
      <4> QED  BY <2>c, <3>1, <4>1
    <3>3. ParseMessage(m, x) = "ACK_Received" /\ state[m] = "WaitingACK"
      BY <2>6, <3>2 DEF ParseMessage, FromPeer, s, Transferring, SendingTo
    <3> QED  BY <1>3, <3>3, RowsOfTable
  <2>7. CASE x.type = "MESSAGE"
    <3>1. Letters(s, m) >= 1
      BY <2>1, <2>7 DEF Letters
    <3>2. Expecting(m, s)
      BY <2>b, <2>c, <3>1 DEF WholeToken
    <3>3. ParseMessage(m, x) = "ValidMsg" /\ state[m] = "WaitingMSG"
      BY <2>7, <3>2 DEF ParseMessage, FromPeer, s, Expecting
    <3> QED  BY <1>3, <3>3, RowsOfTable
  <2>8. CASE x.type = "MESSAGE_CONNECTIONLESS"
    <3>1. ParseMessage(m, x) = "ValidMsgConnectionless"
      BY <2>8 DEF ParseMessage
    <3> QED  BY <1>2, <1>3, <3>1, RowsOfTable
  <2> QED  BY <2>2, <2>3, <2>4, <2>5, <2>6, <2>7, <2>8
<1> QED  BY <1>4, <1>5

(* Such a round is one of the eight steps of the handshake.                *)
LEMMA RoundAccepted ==
    ASSUME OneWay, TypeOK, TypeOK', TInv, SInv, NEW m \in Mailboxes, Coherent(m), Waiting(m),
           NEW x \in Message, Handle(m, x),
           \/ queue[m] # <<>> /\ x = Head(queue[m]) /\ queue' = [queue EXCEPT ![m] = Tail(@)]
           \/ call[m] = "receive" /\ x.type \in {"TIMED_OUT", "EMPTY"} /\ x.dst = NoName
                 /\ queue' = queue
    PROVE  /\ Round(m, x)
           /\ x.type = "SYSCALL_INTERRUPTED" => x.src = NoName
           /\ x.type \notin WireTypes => x.dst = NoName
           /\ errorStatus'[m] = "AUT_OK"
           /\ \/ HoldStep(m, x) \/ GrantStep(m, x) \/ TransferStep(m, x) \/ FinishStep(m, x)
              \/ AcceptStep(m, x) \/ HeldStep(m, x) \/ IgnoreStep(m, x) \/ SaveStep(m, x)
<1>1. AutomatonTypeOK /\ AllAddressed
  BY TypeOfAutomaton, TInvParts
<1>2. ParseMessage(m, x) # "FatalError" /\ Rows(m, ParseMessage(m, x)) # {}
  BY NeverRejected
<1>3. UNCHANGED ownerVars /\ Accept(m, ParseMessage(m, x), x, buffer[m])
  BY <1>2 DEF Handle, ProcessEvent, Reject
<1>4. call' = call /\ received' = received
  BY <1>3 DEF ownerVars
<1>5. OthersStay(m)
  BY <1>1, <1>3, <1>4, EventOthers
<1>6. Round(m, x)
  <2>1. x.type \in {"TIMED_OUT", "EMPTY"} => x.type \notin WireTypes
    BY DEF WireTypes, Signals, DataTypes
  <2> QED  BY <1>4, <1>5, <2>1 DEF Round
<1>7. /\ x.type = "SYSCALL_INTERRUPTED" => x.src = NoName
      /\ x.type \notin WireTypes => x.dst = NoName
  <2>1. queue[m] # <<>> /\ x = Head(queue[m]) => x.type \in WireTypes
    BY <1>1, TakenWasCounted DEF Wire
  <2>2. x.type \in {"TIMED_OUT", "EMPTY"} \cup WireTypes => x.type # "SYSCALL_INTERRUPTED"
    BY DEF WireTypes, Signals, DataTypes
  <2> QED  BY <2>1, <2>2
<1>8. state[m] \in {"RTS_Sent", "HoldState", "WaitingACK", "WaitingRTS", "WaitingMSG"}
  BY <1>6, RoundStart
<1>9. /\ errorStatus'[m] = "AUT_OK"
      /\ \/ HoldStep(m, x) \/ GrantStep(m, x) \/ TransferStep(m, x) \/ FinishStep(m, x)
         \/ AcceptStep(m, x) \/ HeldStep(m, x) \/ IgnoreStep(m, x) \/ SaveStep(m, x)
  BY <1>1, <1>3, <1>8, StepsOfRound
<1> QED  BY <1>6, <1>7, <1>9

(* So a round of send() and receive() goes well.                           *)
LEMMA RoundIsSInv ==
    ASSUME OneWay, TypeOK, TypeOK', TInv, SInv, NEW m \in Mailboxes, Coherent(m), Waiting(m),
           NEW x \in Message, Handle(m, x),
           \/ queue[m] # <<>> /\ x = Head(queue[m]) /\ queue' = [queue EXCEPT ![m] = Tail(@)]
           \/ call[m] = "receive" /\ x.type \in {"TIMED_OUT", "EMPTY"} /\ x.dst = NoName
                 /\ queue' = queue
    PROVE  SInv'
BY RoundAccepted, HoldSInv, GrantSInv, TransferSInv, FinishSInv, AcceptSInv, QuietSInv

-----------------------------------------------------------------------------
(* The calls of the API are never rejected either.                         *)

LEMMA RowsOfCalls ==
    /\ \A q \in IdleStates, e \in {"InitSending", "StartReceiving", "StartReceivingIgnoreQueue"} :
          \E row \in TransitionTable : row[1] = q /\ row[2] = e
    /\ \A e \in {"ResetQueueEmpty", "ResetQueueNotEmpty"} :
          \E row \in TransitionTable : row[1] = "ActionSuccessfulyEnded" /\ row[2] = e
BY DEF TransitionTable, IdleStates

(* The events that start and end a call have a transition.                 *)
LEMMA CallAccepted ==
    ASSUME TypeOK, NEW m \in Mailboxes, Coherent(m), Sane(m), call[m] = "idle",
           NEW e \in {"InitSending", "StartReceiving", "StartReceivingIgnoreQueue"},
           NEW x, NEW b, ProcessEvent(m, e, x, b)
    PROVE  errorStatus'[m] = "AUT_OK"
<1>1. state[m] \in IdleStates
  BY DEF Coherent, Sane
<1>2. Rows(m, e) # {}
  BY <1>1, RowsOfCalls DEF Rows
<1>3. Accept(m, e, x, b)
  BY <1>2 DEF ProcessEvent, Reject
<1> QED  BY <1>3 DEF Accept, TypeOK

(* So does the event that ends a call.                                     *)
LEMMA ReturnAccepted ==
    ASSUME TypeOK, NEW m \in Mailboxes, Coherent(m), Sane(m), TaskCompleted(m)
    PROVE  Rows(m, ResetEvent(m)) # {}
<1>1. state[m] = "ActionSuccessfulyEnded"
  BY DEF Coherent, Sane, TaskCompleted
<1>2. ResetEvent(m) \in {"ResetQueueEmpty", "ResetQueueNotEmpty"}
  BY DEF ResetEvent
<1> QED  BY <1>1, <1>2, RowsOfCalls DEF Rows

(* What the tokens and the holds do not cover, for one call.               *)
LEMMA CallSInv ==
    ASSUME SInv, NEW m \in Mailboxes, OthersStay(m), Sane(m)', Peers(m)', AllWhole', AllHolds'
    PROVE  SInv'
<1>1. AllSane'
  BY DEF AllSane, SInv, Sane, OthersStay
<1>2. AllPeers'
  <2> SUFFICES ASSUME NEW n \in Mailboxes PROVE Peers(n)'
    BY DEF AllPeers
  <2>1. Peers(n)
    BY DEF SInv, AllPeers
  <2>2. CASE n # m
    BY <2>1, <2>2 DEF Peers, OthersStay
  <2> QED  BY <2>2
<1> QED  BY <1>1, <1>2 DEF SInv

LEMMA SendConnectionlessSInv ==
    ASSUME TypeOK, TypeOK', TInv, SInv, NEW m \in Mailboxes, Coherent(m),
           NEW d \in Mailboxes, SendConnectionless(m, d)
    PROVE  SInv'
<1> DEFINE y == [type |-> "MESSAGE_CONNECTIONLESS", src |-> m, dst |-> d, id |-> sent[m] + 1]
<1>1. /\ <<m, d>> \in Notices /\ y.dst = d /\ y.type = "MESSAGE_CONNECTIONLESS"
      /\ Exchange(m, EmptyMessage, y) /\ OthersStay(m)
      /\ call[m] = "idle" /\ call'[m] = "idle"
      /\ state'[m] = state[m] /\ errorStatus'[m] = errorStatus[m]
      /\ buffer'[m] = y /\ Unmoved
  BY NoticeFacts
<1> HIDE DEF y
<1>2. /\ AllAddressed /\ AllWhole /\ AllHolds /\ Sane(m)
      /\ y.type # "RTS" /\ y.type # "HOLD"
  BY <1>1, TInvParts DEF SInv, AllSane
<1>3. state[m] \in IdleStates
  BY <1>1, <1>2 DEF Coherent, Sane
<1>4. Sane(m)' /\ Peers(m)'
  BY <1>1, <1>2 DEF Sane, Peers
<1>5. AllWhole'
  BY <1>1, <1>2, <1>3, WholeUnmoved DEF Asking, Transferring, SendingTo, Expecting, IdleStates
<1>6. \A n \in Mailboxes : Unheld(m, n) = 0
  BY <1>1, <1>2, NothingUnheld
<1>7. AllHolds'
  BY <1>1, <1>2, <1>6, NoneUnheld
<1> QED  BY <1>1, <1>4, <1>5, <1>7, CallSInv

LEMMA SendSInv ==
    ASSUME TypeOK, TypeOK', TInv, SInv, NEW m \in Mailboxes, Coherent(m),
           NEW d \in Mailboxes, Send(m, d)
    PROVE  SInv'
<1> DEFINE y == Signal(m, d, "RTS")
<1>0. /\ AllAddressed /\ AllWhole /\ AllHolds /\ Sane(m) /\ call[m] = "idle"
  BY TInvParts DEF SInv, AllSane, Send, Idle
<1>a. errorStatus'[m] = "AUT_OK"
  <2>1. \E msg : ProcessEvent(m, "InitSending", msg, msg)
    BY DEF Send
  <2> QED  BY <1>0, <2>1, CallAccepted
<1>1. /\ <<m, d>> \in Links /\ y.src = m /\ y.type = "RTS" /\ y.dst = d
      /\ Exchange(m, EmptyMessage, y) /\ OthersStay(m)
      /\ call'[m] = "send" /\ Sane(m)' /\ state'[m] = "RTS_Sent"
      /\ buffer'[m] = Letter(m, d)
      /\ Requested(m, d)
  BY <1>a, SendFacts
<1> HIDE DEF y
<1>2. buffer'[m].dst = d
  BY <1>1, LetterFields
<1>3. Asking(m, d)'
  BY <1>1, <1>2 DEF Asking, SendingTo
<1>4. Peers(m)'
  BY <1>1, <1>2 DEF Peers
<1>5. AllWhole'
  <2>1. state[m] # "WaitingMSG"
    BY <1>0 DEF Coherent, Sane, IdleStates
  <2> QED  BY <1>0, <1>1, <1>3, <2>1, WholeRequested
<1>6. \A n, e \in Mailboxes : Unheld(n, e)' = Unheld(n, e) + Unit(n, e, m, d)
  <2> SUFFICES ASSUME NEW n \in Mailboxes, NEW e \in Mailboxes
               PROVE  Unheld(n, e)' = Unheld(n, e) + Unit(n, e, m, d)
    OBVIOUS
  <2>1. Unheld(n, e)' = Unheld(n, e) - Is(EmptyMessage, e, "HOLD", n) - Is(EmptyMessage, n, "RTS", e)
                                     + Is(y, e, "HOLD", n) + Is(y, n, "RTS", e)
    BY <1>0, <1>1, ExchangeUnheld
  <2>2. EmptyMessage.type # "HOLD" /\ EmptyMessage.type # "RTS"
    BY DEF EmptyMessage
  <2>3. /\ Is(EmptyMessage, e, "HOLD", n) = 0 /\ Is(EmptyMessage, n, "RTS", e) = 0
        /\ Is(y, e, "HOLD", n) = 0 /\ Is(y, n, "RTS", e) = Unit(n, e, m, d)
    BY <1>1, <2>2 DEF Is, Unit
  <2>4. Unheld(n, e) \in Nat /\ Unit(n, e, m, d) \in Nat
    BY UnheldIsNat DEF UnheldTyped, Unit
  <2> QED  BY <2>1, <2>3, <2>4
<1>7. AllHolds'
  <2>1. \A n \in Mailboxes \ {m}, e \in Mailboxes : Unheld(n, e)' <= Unheld(n, e)
    BY <1>6, UnheldIsNat DEF Unit, UnheldTyped
  <2>2. \A e \in Mailboxes : Unheld(m, e) = 0
    BY <1>0, NothingUnheld
  <2>3. \A e \in Mailboxes : /\ Unheld(m, e)' <= 1
                             /\ Unheld(m, e)' >= 1 => Asking(m, e)' /\ state'[m] = "RTS_Sent"
    <3> SUFFICES ASSUME NEW e \in Mailboxes
                 PROVE  /\ Unheld(m, e)' <= 1
                        /\ Unheld(m, e)' >= 1 => Asking(m, e)' /\ state'[m] = "RTS_Sent"
      OBVIOUS
    <3>1. Unheld(m, e)' = Unit(m, e, m, d)
      BY <1>6, <2>2 DEF Unit
    <3>2. CASE e = d
      BY <1>1, <1>3, <3>1, <3>2 DEF Unit
    <3>3. CASE e # d
      BY <3>1, <3>3 DEF Unit
    <3> QED  BY <3>2, <3>3
  <2>4. y.type # "HOLD"
    BY <1>1
  <2> QED  BY <1>0, <1>1, <2>1, <2>3, <2>4, HoldsStay
<1> QED  BY <1>1, <1>4, <1>5, <1>7, CallSInv

LEMMA ReceiveSInv ==
    ASSUME TypeOK, TypeOK', TInv, SInv, NEW m \in Mailboxes, Coherent(m),
           NEW flags, Receive(m, flags)
    PROVE  SInv'
<1>0. /\ AllAddressed /\ AllWhole /\ AllHolds /\ AllPeers /\ Sane(m) /\ call[m] = "idle"
  BY TInvParts DEF SInv, AllSane, Receive, Idle
<1>a. errorStatus'[m] = "AUT_OK"
  BY <1>0, CallAccepted DEF Receive
<1>1. /\ OthersStay(m) /\ call'[m] = "receive" /\ Sane(m)' /\ state[m] \in IdleStates
      /\ \/ /\ state'[m] = "WaitingRTS" /\ buffer'[m] = buffer[m]
            /\ Exchange(m, EmptyMessage, EmptyMessage) /\ Unmoved
         \/ /\ state'[m] = "WaitingMSG"
            /\ \E s \in Mailboxes :
                  /\ buffer'[m] = [buffer[m] EXCEPT !.dst = s]
                  /\ Exchange(m, EmptyMessage, Signal(m, s, "CTS"))
                  /\ Asked(s, m) >= 1 /\ Granted(s, m)
  BY <1>a, ReceiveFacts
<1>2. state[m] # "WaitingMSG"
  BY <1>1 DEF IdleStates
<1>3. \A n \in Mailboxes : Unheld(m, n) = 0
  BY <1>0, NothingUnheld
<1>4. CASE /\ state'[m] = "WaitingRTS" /\ buffer'[m] = buffer[m]
           /\ Exchange(m, EmptyMessage, EmptyMessage) /\ Unmoved
  <2>1. Peers(m)'
    BY <1>0, <1>1, <1>2, <1>4 DEF AllPeers, Peers
  <2>2. AllWhole'
    BY <1>0, <1>1, <1>2, <1>4, WholeUnmoved DEF Asking, Transferring, SendingTo, Expecting
  <2>3. EmptyMessage.type # "RTS" /\ EmptyMessage.type # "HOLD"
    BY DEF EmptyMessage
  <2>4. AllHolds'
    BY <1>0, <1>3, <1>4, <2>3, NoneUnheld
  <2> QED  BY <1>1, <2>1, <2>2, <2>4, CallSInv
<1>5. ASSUME state'[m] = "WaitingMSG", NEW s \in Mailboxes,
             buffer'[m] = [buffer[m] EXCEPT !.dst = s],
             Exchange(m, EmptyMessage, Signal(m, s, "CTS")), Granted(s, m)
      PROVE  SInv'
  <2>1. Peers(m)'
    BY <1>1, <1>5 DEF Peers
  <2>2. Expecting(m, s)'
    <3>1. buffer[m] \in Message
      BY DEF TypeOK
    <3>2. buffer'[m].dst = s
      BY <1>5, <3>1 DEF Message
    <3> QED  BY <1>5, <3>2 DEF Expecting
  <2>3. AllWhole'
    BY <1>0, <1>1, <1>2, <1>5, <2>2, WholeGranted
  <2>4. Signal(m, s, "CTS").type # "RTS" /\ Signal(m, s, "CTS").type # "HOLD"
    BY DEF Signal
  <2>5. AllHolds'
    BY <1>0, <1>3, <1>5, <2>4, NoneUnheld
  <2> QED  BY <1>1, <2>1, <2>3, <2>5, CallSInv
<1> QED  BY <1>1, <1>4, <1>5

LEMMA ReturnSInv ==
    ASSUME TypeOK, TypeOK', TInv, SInv, NEW m \in Mailboxes, Coherent(m),
           ReturnFromSend(m) \/ ReturnFromReceive(m)
    PROVE  SInv'
<1>0. /\ AllAddressed /\ AllWhole /\ AllHolds /\ Sane(m) /\ AutomatonTypeOK
  BY TInvParts, TypeOfAutomaton DEF SInv, AllSane
<1>1. /\ TaskCompleted(m) /\ outbox[m] = EmptyMessage /\ call[m] \in {"send", "receive"}
      /\ call'[m] = "idle" /\ queue' = queue
      /\ \A n \in Mailboxes \ {m} : call'[n] = call[n] /\ received'[n] = received[n]
  BY DEF ReturnFromSend, ReturnFromReceive, Completed, TypeOK
<1>2. Rows(m, ResetEvent(m)) # {}
  BY <1>0, <1>1, ReturnAccepted
<1>3. \E b : Accept(m, ResetEvent(m), EmptyMessage, b)
  BY <1>2 DEF ReturnFromSend, ReturnFromReceive, ProcessEvent, Reject
<1>4. PICK b : Accept(m, ResetEvent(m), EmptyMessage, b)
  BY <1>3
<1>5. OthersStay(m)
  BY <1>0, <1>1, <1>4, EventOthers
<1>6. /\ Sane(m)' /\ state[m] = "ActionSuccessfulyEnded" /\ state'[m] \in IdleStates
      /\ buffer'[m] = EmptyMessage
      /\ Exchange(m, EmptyMessage, EmptyMessage) /\ Unmoved
  BY <1>1, <1>4, <1>5, ReturnFacts
<1>7. /\ EmptyMessage.type # "RTS" /\ EmptyMessage.type # "HOLD" /\ EmptyMessage.dst = NoName
  BY DEF EmptyMessage
<1>8. Peers(m)'
  BY <1>1, <1>6, <1>7 DEF Peers
<1>9. AllWhole'
  BY <1>0, <1>1, <1>5, <1>6, WholeUnmoved DEF Asking, Transferring, SendingTo, Expecting
<1>10. \A n \in Mailboxes : Unheld(m, n) = 0
  BY <1>0, <1>6, NothingUnheld
<1>11. AllHolds'
  BY <1>0, <1>6, <1>7, <1>10, NoneUnheld
<1> QED  BY <1>5, <1>6, <1>8, <1>9, <1>11, CallSInv

(* A message that enters a queue: nothing changes place but between the    *)
(* two ends of one way.                                                    *)
LEMMA SendImmediateSInv ==
    ASSUME TypeOK, TypeOK', TInv, SInv, NEW m \in Mailboxes, SendImmediate(m)
    PROVE  SInv'
<1> DEFINE x == outbox[m]
<1>1. /\ AllAddressed /\ AllSane /\ AllPeers /\ AllWhole /\ AllHolds
  BY TInvParts DEF SInv
<1>2. /\ \A s, r \in Mailboxes, t \in WireTypes : InTransit(s, t, r)' = InTransit(s, t, r)
      /\ Wire(x) /\ x.src = m /\ x \in Message /\ x.dst \in Mailboxes
      /\ queue' = [queue EXCEPT ![x.dst] = Append(@, x)]
      /\ outbox' = [outbox EXCEPT ![m] = EmptyMessage]
  BY <1>1, SendImmediateTransit DEF TypeOK, Wire
<1>3. /\ state' = state /\ errorStatus' = errorStatus /\ finished' = finished
      /\ buffer' = buffer /\ waitingList' = waitingList
      /\ call' = call /\ received' = received
  BY DEF SendImmediate, automatonVars, ownerVars
<1>4. {"RTS", "CTS", "MESSAGE", "ACK", "HOLD"} \subseteq WireTypes
  BY DEF WireTypes, Signals, DataTypes
<1>5. \A n, d \in Mailboxes : SameCounts(n, d) /\ Unheld(n, d)' = Unheld(n, d)
  BY <1>2, <1>3, <1>4 DEF SameCounts, Asked, Cleared, Letters, Answers, Held, Unheld, Holds
<1>6. AllSane' /\ AllPeers'
  BY <1>1, <1>3 DEF AllSane, Sane, AllPeers, Peers
<1>7. AllWhole'
  <2> SUFFICES ASSUME NEW n \in Mailboxes, NEW d \in Mailboxes PROVE WholeToken(n, d)'
    BY DEF AllWhole
  <2>1. WholeToken(n, d) /\ SameCounts(n, d)
    BY <1>1, <1>5 DEF AllWhole
  <2> QED  BY <1>3, <2>1 DEF WholeToken, SameCounts, Asking, Transferring, SendingTo, Expecting
<1>8. \A n \in Mailboxes : \A i \in DOMAIN queue'[n] :
         \/ i \in DOMAIN queue[n] /\ queue'[n][i] = queue[n][i]
         \/ n = x.dst /\ i = Len(queue[n]) + 1 /\ queue'[n][i] = x
  BY <1>2, QueueAfterPut
<1>9. \A n, d \in Mailboxes : InOutbox(d, "HOLD", n)' => InOutbox(d, "HOLD", n) /\ d # m
  BY <1>2 DEF InOutbox, EmptyMessage, TypeOK
<1> HIDE DEF x
<1>10. ASSUME NEW n \in Mailboxes, NEW d \in Mailboxes PROVE HoldFirst(n, d)'
  <2> SUFFICES ASSUME NEW i \in DOMAIN queue'[n], NEW j \in DOMAIN queue'[n],
                      queue'[n][i].type = "HOLD", queue'[n][i].src = d,
                      queue'[n][j].type = "CTS", queue'[n][j].src = d
               PROVE  i < j
    BY DEF HoldFirst
  <2>1. HoldOK(n, d) /\ queue[n] \in Seq(Message)
    BY <1>1 DEF AllHolds, TypeOK
  <2>2. CASE i \in DOMAIN queue[n] /\ queue'[n][i] = queue[n][i]
    <3>1. CASE j \in DOMAIN queue[n] /\ queue'[n][j] = queue[n][j]
      BY <2>1, <2>2, <3>1 DEF HoldOK, HoldFirst
    <3>2. CASE j = Len(queue[n]) + 1
      BY <2>1, <2>2, <3>2
    <3> QED  BY <1>8, <3>1, <3>2
  <2>3. CASE n = x.dst /\ i = Len(queue[n]) + 1 /\ queue'[n][i] = x
    <3>1. InOutbox(d, "HOLD", n) /\ d = m
      BY <1>2, <2>3 DEF InOutbox, x
    <3>2. Queued(d, "CTS", n) = 0
      BY <2>1, <3>1 DEF HoldOK
    <3>3. Places(queue[n], Kind("CTS", d)) = {}
      BY <2>1, <3>2, NumberIsNat DEF Queued
    <3>4. ~(j \in DOMAIN queue[n] /\ queue'[n][j] = queue[n][j])
      <4>1. j \in DOMAIN queue[n] => queue[n][j] \in Message
        BY <2>1
      <4> QED  BY <3>3, <4>1 DEF Places, Kind
    <3>5. queue'[n][j] = x
      BY <1>8, <3>4
    <3> QED  BY <2>3, <3>5
  <2> QED  BY <1>8, <2>2, <2>3
<1>11. AllHolds'
  <2> SUFFICES ASSUME NEW n \in Mailboxes, NEW d \in Mailboxes PROVE HoldOK(n, d)'
    BY DEF AllHolds
  <2>1. HoldOK(n, d)
    BY <1>1 DEF AllHolds
  <2>2. InOutbox(d, "HOLD", n)' => Queued(d, "CTS", n)' = 0
    <3> SUFFICES ASSUME InOutbox(d, "HOLD", n)' PROVE Queued(d, "CTS", n)' = 0
      OBVIOUS
    <3>1. Queued(d, "CTS", n) = 0 /\ d # m
      BY <1>9, <2>1 DEF HoldOK
    <3>2. Queued(d, "CTS", n)' = Queued(d, "CTS", n) + Is(x, d, "CTS", n)
      BY <1>2, QueuedAfterPut DEF x
    <3>3. Is(x, d, "CTS", n) = 0
      BY <1>2, <3>1 DEF Is
    <3> QED  BY <3>1, <3>2, <3>3
  <2>3. Unheld(n, d)' = Unheld(n, d) /\ (Asking(n, d)' <=> Asking(n, d)) /\ state' = state
    BY <1>3, <1>5 DEF Asking, SendingTo
  <2>4. HoldFirst(n, d)'
    BY <1>10
  <2> QED  BY <2>1, <2>2, <2>3, <2>4 DEF HoldOK
<1> QED  BY <1>6, <1>7, <1>11 DEF SInv

-----------------------------------------------------------------------------
(* No mailbox sends to one that sends to it, and nothing interrupts.       *)
QuietOneWay == OneWay /\ MaxSignals = 0 /\ MaxCrashes = 0

(* Every step of every mailbox keeps the invariant.                        *)
LEMMA StepSInv ==
    ASSUME QuietOneWay, TypeOK, TypeOK', TInv, SInv, NEW m \in Mailboxes, Coherent(m),
           Progress(m) \/ Owner(m) \/ Fault(m)
    PROVE  SInv'
<1>0. OneWay /\ AllAddressed
  BY TInvParts DEF QuietOneWay
<1>1. CASE ReceiveImmediate(m)
  <2>1. /\ queue[m] # <<>> /\ Waiting(m) /\ Handle(m, Head(queue[m]))
        /\ queue' = [queue EXCEPT ![m] = Tail(@)]
    BY <1>1 DEF ReceiveImmediate
  <2>2. Head(queue[m]) \in Message
    BY <1>0, <2>1, TakenWasCounted
  <2> QED  BY <1>0, <2>1, <2>2, RoundIsSInv
<1>2. CASE NothingReceived(m)
  <2>1. \A type \in {"TIMED_OUT", "EMPTY"} :
           /\ Failure(type) \in Message /\ Failure(type).type = type
           /\ Failure(type).dst = NoName
    BY MadeUpMessages DEF Types, Failure
  <2>2. PICK type \in {"TIMED_OUT", "EMPTY"} : Handle(m, Failure(type))
    BY <1>2 DEF NothingReceived
  <2>3. /\ Waiting(m) /\ queue' = queue
        /\ "TIMED" \in ReceiveOptions(m) \/ "NONBLOCKING" \in ReceiveOptions(m)
    BY <1>2 DEF NothingReceived
  <2>4. call[m] = "receive"
    BY <2>3 DEF ReceiveOptions, Waiting
  <2> HIDE DEF Failure
  <2> QED  BY <1>0, <2>1, <2>2, <2>3, <2>4, RoundIsSInv
<1>3. CASE SendImmediate(m)
  BY <1>3, SendImmediateSInv
<1>4. CASE ReturnFromSend(m) \/ ReturnFromReceive(m)
  BY <1>4, ReturnSInv
<1>5. CASE Owner(m)
  BY <1>5, SendSInv, SendConnectionlessSInv, ReceiveSInv DEF Owner, Listen
<1>6. CASE Fault(m)
  BY <1>6 DEF Fault, Interrupt, Crash, Restart, QuietOneWay, TypeOK
<1> QED  BY <1>1, <1>2, <1>3, <1>4, <1>5, <1>6 DEF Progress

LEMMA InitSInv == Init => SInv
<1> SUFFICES ASSUME Init PROVE SInv
  OBVIOUS
<1>1. \A P : Number(<<>>, P) = 0
  <2>1. \A P : Places(<<>>, P) = {}
    BY DEF Places
  <2> QED  BY <2>1, FS_EmptySet DEF Number
<1>2. \A s, r \in Mailboxes, t \in WireTypes : InTransit(s, t, r) = 0
  BY <1>1, EmptyIsNoLetter DEF InTransit, Posted, InOutbox, Queued, Init
<1>3. {"RTS", "CTS", "MESSAGE", "HOLD"} \subseteq WireTypes
  BY DEF WireTypes, Signals, DataTypes
<1>4. AllSane
  BY DEF AllSane, Sane, Init
<1>5. AllPeers
  BY DEF AllPeers, Peers, Init, EmptyMessage
<1>6. AllWhole
  BY <1>2, <1>3 DEF AllWhole, WholeToken, Asking, Transferring, SendingTo, Cleared, Letters, Init
<1>7. AllHolds
  BY <1>2, <1>3 DEF AllHolds, HoldOK, HoldFirst, Unheld, Holds, InOutbox, Init, EmptyMessage
<1> QED  BY <1>4, <1>5, <1>6, <1>7 DEF SInv

LEMMA StutterSInv == SInv /\ UNCHANGED vars => SInv'
<1> SUFFICES ASSUME SInv, UNCHANGED vars PROVE SInv'
  OBVIOUS
<1>1. /\ queue' = queue /\ state' = state /\ errorStatus' = errorStatus /\ finished' = finished
      /\ buffer' = buffer /\ waitingList' = waitingList /\ outbox' = outbox
      /\ call' = call /\ received' = received
  BY DEF vars, automatonVars, ownerVars, faultVars
<1>2. \A n, d \in Mailboxes : SameCounts(n, d) /\ Unheld(n, d)' = Unheld(n, d)
  BY <1>1
  DEF SameCounts, Asked, Cleared, Letters, Answers, Held, Unheld, Holds, InTransit, Posted,
      InOutbox, Queued
<1>3. AllSane' /\ AllPeers'
  BY <1>1 DEF SInv, AllSane, Sane, AllPeers, Peers
<1>4. AllWhole'
  BY <1>1, <1>2
  DEF SInv, AllWhole, WholeToken, SameCounts, Asking, Transferring, SendingTo, Expecting
<1>5. AllHolds'
  BY <1>1, <1>2 DEF SInv, AllHolds, HoldOK, HoldFirst, Asking, SendingTo, InOutbox, Queued
<1> QED  BY <1>3, <1>4, <1>5 DEF SInv

(* The invariant is inductive with IInv and TInv.                          *)
LEMMA NextSInv == QuietOneWay /\ IInv /\ TInv /\ SInv /\ [Next]_vars => SInv'
<1> SUFFICES ASSUME QuietOneWay, IInv, TInv, SInv, [Next]_vars PROVE SInv'
  OBVIOUS
<1>1. TypeOK /\ \A m \in Mailboxes : Coherent(m)
  BY DEF IInv
<1>2. TypeOK'
  BY NextInv DEF IInv
<1> QED  BY <1>1, <1>2, StepSInv, StutterSInv DEF Next

LEMMA SInvAlways == QuietOneWay => (Spec => [](IInv /\ TInv /\ SInv))
<1> SUFFICES ASSUME QuietOneWay PROVE Spec => [](IInv /\ TInv /\ SInv)
  OBVIOUS
<1>1. Spec => [](IInv /\ TInv)
  BY TInvAlways DEF QuietOneWay, NobodyIsKilled
<1>2. (IInv /\ TInv) /\ SInv /\ [Next]_vars => SInv'
  BY NextSInv
<1>3. Init => SInv
  BY InitSInv
<1> QED  BY <1>1, <1>2, <1>3, PTL DEF Spec

(* While requests flow one way and nothing interrupts, no process dies of  *)
(* a message that its mailbox does not expect (Fatal_Error).               *)
THEOREM NobodyMeetsAFatalError == QuietOneWay => (Spec => []NoFatalError)
<1> SUFFICES ASSUME QuietOneWay PROVE Spec => []NoFatalError
  OBVIOUS
<1>1. IInv /\ TInv /\ SInv => NoFatalError
  BY DEF SInv, AllSane, Sane, NoFatalError
<1> QED  BY <1>1, SInvAlways, PTL

(* While requests flow one way and nothing interrupts, the receiver has    *)
(* the message when send() returns, through holds and full queues.         *)
THEOREM SendDeliversAlways == QuietOneWay => (Spec => SendDelivers)
<1> SUFFICES ASSUME QuietOneWay PROVE Spec => SendDelivers
  OBVIOUS
<1>1. ASSUME IInv, IInv', TInv, SInv', [Next]_vars
      PROVE  [\A m \in Mailboxes :
                 SendReturns(m) => Delivered(buffer[m].dst, buffer[m])]_vars
  <2>1. \A m \in Mailboxes : ~Wedged(m)'
    BY <1>1 DEF SInv, AllSane, Sane, Wedged
  <2> QED  BY <1>1, <2>1, SendReturnsDelivered DEF Next, IInv
<1> QED  BY <1>1, SInvAlways, PTL DEF Spec, SendDelivers

-----------------------------------------------------------------------------
(* The places of the properties are what the counts of the proof count.    *)

(* A message that is about to be queued or is queued, as MailboxProps      *)
(* names its places.                                                       *)
OnItsWay(a, P, b, S) == ({a} \X {i \in {0} : P}) \cup ({b} \X S)

LEMMA CardinalityOfPlaces ==
    ASSUME NEW a, NEW P \in BOOLEAN, NEW b, NEW S, IsFiniteSet(S), a # b
    PROVE  /\ IsFiniteSet(OnItsWay(a, P, b, S))
           /\ Cardinality(OnItsWay(a, P, b, S)) = (IF P THEN 1 ELSE 0) + Cardinality(S)
<1> DEFINE T == {i \in {0} : P}
           A == {a} \X T
           B == {b} \X S
<1>a. (P => T = {0}) /\ (~P => T = {})
  OBVIOUS
<1> HIDE DEF T
<1>b. /\ IsFiniteSet({0}) /\ Cardinality({0}) = 1
      /\ IsFiniteSet({}) /\ Cardinality({}) = 0
  BY FS_Singleton, FS_EmptySet
<1>1. IsFiniteSet(T) /\ Cardinality(T) = IF P THEN 1 ELSE 0
  BY <1>a, <1>b
<1>2. /\ IsFiniteSet({a}) /\ Cardinality({a}) = 1
      /\ IsFiniteSet({b}) /\ Cardinality({b}) = 1
  BY FS_Singleton
<1>3. /\ Cardinality(S) \in Nat /\ Cardinality(T) \in Nat
  BY <1>1, FS_CardinalityType
<1>4. /\ IsFiniteSet(A) /\ Cardinality(A) = 1 * Cardinality(T)
      /\ IsFiniteSet(B) /\ Cardinality(B) = 1 * Cardinality(S)
  BY <1>1, <1>2, FS_Product
<1>5. A \cap B = {}
  OBVIOUS
<1> HIDE DEF A, B
<1>6. /\ IsFiniteSet(A \cup B)
      /\ Cardinality(A \cup B) = Cardinality(A) + Cardinality(B) - Cardinality({})
  BY <1>4, <1>5, FS_Union
<1>7. Cardinality({}) = 0
  BY FS_EmptySet
<1>8. Cardinality(A \cup B) = (IF P THEN 1 ELSE 0) + Cardinality(S)
  BY <1>1, <1>3, <1>4, <1>6, <1>7
<1> QED  BY <1>6, <1>8 DEF OnItsWay, A, B, T

LEMMA OccurrencesAreQueued ==
    ASSUME TypeOK, NEW s, NEW type, NEW r \in Mailboxes
    PROVE  /\ IsFiniteSet(Occurrences(r, type, s))
           /\ Cardinality(Occurrences(r, type, s)) = Queued(s, type, r)
<1>1. queue[r] \in Seq(Message)
  BY DEF TypeOK
<1>2. Occurrences(r, type, s) = Places(queue[r], Kind(type, s))
  <2>1. \A i \in DOMAIN queue[r] : queue[r][i] \in Message
    BY <1>1
  <2> QED  BY <2>1 DEF Occurrences, Places, Kind
<1> QED  BY <1>1, <1>2, NumberIsNat DEF Queued, Number

(* Requests, clearances, transfers and acknowledgements.                   *)
LEMMA PlacesOfHandshake ==
    ASSUME TypeOK, NEW m \in Mailboxes, NEW d \in Mailboxes
    PROVE  /\ Cardinality(Requests(m, d)) = Asked(m, d)
           /\ Cardinality(Clearances(m, d)) = Cleared(m, d)
           /\ Cardinality(Transfers(m, d)) = Letters(m, d)
           /\ Cardinality(Acknowledgements(m, d)) = Answers(m, d)
           /\ Clearances(m, d) = {} <=> Cleared(m, d) = 0
           /\ Transfers(m, d) = {} <=> Letters(m, d) = 0
<1>0. \A x, t, y : InOutbox(x, t, y) \in BOOLEAN
  BY DEF InOutbox
<1>1. /\ IsFiniteSet(Clearances(m, d)) /\ Cardinality(Clearances(m, d)) = Cleared(m, d)
  <2> DEFINE sender == "cts outbox"
             line == "cts queue"
  <2>a. sender # line
    OBVIOUS
  <2>1. Clearances(m, d) = OnItsWay(sender, InOutbox(d, "CTS", m), line, Occurrences(m, "CTS", d))
    BY DEF Clearances, OnItsWay
  <2> HIDE DEF sender, line
  <2>2. /\ IsFiniteSet(Occurrences(m, "CTS", d))
        /\ Cardinality(Occurrences(m, "CTS", d)) = Queued(d, "CTS", m)
    BY OccurrencesAreQueued
  <2>3. /\ IsFiniteSet(Clearances(m, d))
        /\ Cardinality(Clearances(m, d)) = (IF InOutbox(d, "CTS", m) THEN 1 ELSE 0) + Queued(d, "CTS", m)
    <3>1. /\ IsFiniteSet(OnItsWay(sender, InOutbox(d, "CTS", m), line, Occurrences(m, "CTS", d)))
          /\ Cardinality(OnItsWay(sender, InOutbox(d, "CTS", m), line, Occurrences(m, "CTS", d)))
                = (IF InOutbox(d, "CTS", m) THEN 1 ELSE 0) + Cardinality(Occurrences(m, "CTS", d))
      BY <1>0, <2>a, <2>2, CardinalityOfPlaces
    <3> QED  BY <2>1, <2>2, <3>1
  <2> QED  BY <2>3 DEF Cleared, InTransit, Posted
<1>2. /\ IsFiniteSet(Transfers(m, d)) /\ Cardinality(Transfers(m, d)) = Letters(m, d)
  <2> DEFINE sender == "msg outbox"
             line == "msg queue"
  <2>a. sender # line
    OBVIOUS
  <2>1. Transfers(m, d) = OnItsWay(sender, InOutbox(m, "MESSAGE", d), line, Occurrences(d, "MESSAGE", m))
    BY DEF Transfers, OnItsWay
  <2> HIDE DEF sender, line
  <2>2. /\ IsFiniteSet(Occurrences(d, "MESSAGE", m))
        /\ Cardinality(Occurrences(d, "MESSAGE", m)) = Queued(m, "MESSAGE", d)
    BY OccurrencesAreQueued
  <2>3. /\ IsFiniteSet(Transfers(m, d))
        /\ Cardinality(Transfers(m, d)) = (IF InOutbox(m, "MESSAGE", d) THEN 1 ELSE 0) + Queued(m, "MESSAGE", d)
    <3>1. /\ IsFiniteSet(OnItsWay(sender, InOutbox(m, "MESSAGE", d), line, Occurrences(d, "MESSAGE", m)))
          /\ Cardinality(OnItsWay(sender, InOutbox(m, "MESSAGE", d), line, Occurrences(d, "MESSAGE", m)))
                = (IF InOutbox(m, "MESSAGE", d) THEN 1 ELSE 0) + Cardinality(Occurrences(d, "MESSAGE", m))
      BY <1>0, <2>a, <2>2, CardinalityOfPlaces
    <3> QED  BY <2>1, <2>2, <3>1
  <2> QED  BY <2>3 DEF Letters, InTransit, Posted
<1>3. /\ IsFiniteSet(Acknowledgements(m, d)) /\ Cardinality(Acknowledgements(m, d)) = Answers(m, d)
  <2> DEFINE sender == "ack outbox"
             line == "ack queue"
  <2>a. sender # line
    OBVIOUS
  <2>1. Acknowledgements(m, d) = OnItsWay(sender, InOutbox(d, "ACK", m), line, Occurrences(m, "ACK", d))
    BY DEF Acknowledgements, OnItsWay
  <2> HIDE DEF sender, line
  <2>2. /\ IsFiniteSet(Occurrences(m, "ACK", d))
        /\ Cardinality(Occurrences(m, "ACK", d)) = Queued(d, "ACK", m)
    BY OccurrencesAreQueued
  <2>3. /\ IsFiniteSet(Acknowledgements(m, d))
        /\ Cardinality(Acknowledgements(m, d)) = (IF InOutbox(d, "ACK", m) THEN 1 ELSE 0) + Queued(d, "ACK", m)
    <3>1. /\ IsFiniteSet(OnItsWay(sender, InOutbox(d, "ACK", m), line, Occurrences(m, "ACK", d)))
          /\ Cardinality(OnItsWay(sender, InOutbox(d, "ACK", m), line, Occurrences(m, "ACK", d)))
                = (IF InOutbox(d, "ACK", m) THEN 1 ELSE 0) + Cardinality(Occurrences(m, "ACK", d))
      BY <1>0, <2>a, <2>2, CardinalityOfPlaces
    <3> QED  BY <2>1, <2>2, <3>1
  <2> QED  BY <2>3 DEF Answers, InTransit, Posted
<1>4. Cardinality(Requests(m, d)) = Asked(m, d)
  <2> DEFINE H == {i \in DOMAIN waitingList[d] : waitingList[d][i] = m}
             sentOut == OnItsWay("outbox", InOutbox(m, "RTS", d), "queue", Occurrences(d, "RTS", m))
             onHold == {"held"} \X H
  <2>1. /\ IsFiniteSet(sentOut) /\ Cardinality(sentOut) = InTransit(m, "RTS", d)
    <3>1. /\ IsFiniteSet(Occurrences(d, "RTS", m))
          /\ Cardinality(Occurrences(d, "RTS", m)) = Queued(m, "RTS", d)
      BY OccurrencesAreQueued
    <3>2. /\ IsFiniteSet(sentOut)
          /\ Cardinality(sentOut) = (IF InOutbox(m, "RTS", d) THEN 1 ELSE 0) + Queued(m, "RTS", d)
      BY <1>0, <3>1, CardinalityOfPlaces
    <3> QED  BY <3>2 DEF InTransit, Posted
  <2>2. IsFiniteSet(H) /\ Cardinality(H) = Held(m, d) /\ Held(m, d) \in Nat
    <3>1. H = Places(waitingList[d], {m}) /\ waitingList[d] \in Seq(Mailboxes \cup {NoName})
      BY DEF Places, TypeOK
    <3> QED  BY <3>1, NumberIsNat DEF Held, Number
  <2> HIDE DEF H
  <2>3. IsFiniteSet(onHold) /\ Cardinality(onHold) = Held(m, d)
    <3>1. IsFiniteSet({"held"}) /\ Cardinality({"held"}) = 1
      BY FS_Singleton
    <3>2. IsFiniteSet(onHold) /\ Cardinality(onHold) = 1 * Cardinality(H)
      BY <2>2, <3>1, FS_Product
    <3> QED  BY <2>2, <3>2
  <2>4. sentOut \cap onHold = {}
    BY DEF OnItsWay
  <2>5. Requests(m, d) = sentOut \cup onHold
    BY DEF Requests, H, OnItsWay
  <2> HIDE DEF sentOut, onHold
  <2>6. Cardinality(Requests(m, d)) = Cardinality(sentOut) + Cardinality(onHold) - Cardinality({})
    BY <2>1, <2>3, <2>4, <2>5, FS_Union
  <2>7. Cardinality({}) = 0
    BY FS_EmptySet
  <2>8. InTransit(m, "RTS", d) \in Nat
    BY CountsAreNat DEF WireTypes, Signals
  <2> QED  BY <2>1, <2>2, <2>3, <2>6, <2>7, <2>8 DEF Asked
<1> QED  BY <1>1, <1>2, <1>3, <1>4, FS_EmptySet

(* The invariant says of the counts what HandshakesIntact says of the      *)
(* places.                                                                 *)
LEMMA WholeIsIntact ==
    ASSUME TypeOK, TInv, SInv, \A m \in Mailboxes : Coherent(m)
    PROVE  HandshakesIntact
<1>1. /\ AllTokens /\ AllWhole /\ AllSane /\ TokensTyped
  BY TInvParts, TokensAreNat DEF SInv
<1>2. OneTokenPerHandshake
  <2> SUFFICES ASSUME NEW m \in Mailboxes, NEW d \in Mailboxes
               PROVE  /\ Cardinality(Requests(m, d)) + Cardinality(Clearances(m, d))
                           = (IF /\ call[m] = "send" /\ buffer[m].dst = d
                                 /\ state[m] \in {"RTS_Sent", "HoldState"} THEN 1 ELSE 0)
                      /\ Cardinality(Transfers(m, d)) + Cardinality(Acknowledgements(m, d))
                           = (IF /\ call[m] = "send" /\ buffer[m].dst = d
                                 /\ state[m] = "WaitingACK" THEN 1 ELSE 0)
    BY DEF OneTokenPerHandshake
  <2>1. /\ Asking(m, d) <=> /\ call[m] = "send" /\ buffer[m].dst = d
                            /\ state[m] \in {"RTS_Sent", "HoldState"}
        /\ Transferring(m, d) <=> /\ call[m] = "send" /\ buffer[m].dst = d
                                  /\ state[m] = "WaitingACK"
    BY DEF Asking, Transferring, SendingTo
  <2>2. /\ Asked(m, d) \in Nat /\ Cleared(m, d) \in Nat
        /\ Letters(m, d) \in Nat /\ Answers(m, d) \in Nat
    BY <1>1 DEF TokensTyped
  <2>3. /\ Asking(m, d) => Asked(m, d) + Cleared(m, d) = 1
        /\ Transferring(m, d) => Letters(m, d) + Answers(m, d) = 1
    BY <1>1 DEF AllWhole, WholeToken
  <2>4. /\ Asked(m, d) + Cleared(m, d) <= IF Asking(m, d) THEN 1 ELSE 0
        /\ Letters(m, d) + Answers(m, d) <= IF Transferring(m, d) THEN 1 ELSE 0
    BY <1>1 DEF AllTokens, TokenOK, AllSane
  <2>5. /\ ~Asking(m, d) => Asked(m, d) + Cleared(m, d) = 0
        /\ ~Transferring(m, d) => Letters(m, d) + Answers(m, d) = 0
    BY <2>2, <2>4
  <2> QED  BY <2>1, <2>3, <2>5, PlacesOfHandshake
<1>3. ClearedSenderIsExpected
  <2> SUFFICES ASSUME NEW m \in Mailboxes, NEW d \in Mailboxes,
                      Clearances(m, d) \cup Transfers(m, d) # {}
               PROVE  state[d] = "WaitingMSG" /\ buffer[d].dst = m /\ call[d] = "receive"
    BY DEF ClearedSenderIsExpected
  <2>1. Cleared(m, d) # 0 \/ Letters(m, d) # 0
    BY PlacesOfHandshake
  <2>2. Cleared(m, d) + Letters(m, d) >= 1
    BY <1>1, <2>1 DEF TokensTyped
  <2>3. Expecting(d, m)
    BY <1>1, <2>2 DEF AllWhole, WholeToken
  <2>4. Sane(d) /\ Coherent(d) /\ call[d] \in {"idle", "send", "receive", "exited"}
    BY <1>1 DEF AllSane, TypeOK
  <2> QED  BY <2>3, <2>4 DEF Expecting, Sane, Coherent, IdleStates, SendStates
<1> QED  BY <1>2, <1>3 DEF HandshakesIntact

(* While requests flow one way and nothing interrupts, no request,         *)
(* clearance, message or acknowledgement is lost or doubled, and no two    *)
(* senders are cleared for the same receiver.                              *)
THEOREM HandshakesStayIntact == QuietOneWay => (Spec => []HandshakesIntact)
<1> SUFFICES ASSUME QuietOneWay PROVE Spec => []HandshakesIntact
  OBVIOUS
<1>1. IInv /\ TInv /\ SInv => HandshakesIntact
  BY WholeIsIntact DEF IInv
<1> QED  BY <1>1, SInvAlways, PTL

-----------------------------------------------------------------------------
(* The order of messages.                                                  *)

(* The automaton of d has a message that receive() will hand out.          *)
Hand(d) == finished[d] /\ call[d] = "receive"

(* What d has received of each sender, holds of it and has queued of it is *)
(* numbered upwards, in this order, and was meant for d.                   *)
Sorted(d) ==
    /\ \A i \in DOMAIN received[d] : received[d][i].dst = d
    /\ \A i, j \in DOMAIN received[d] :
          i < j /\ received[d][i].src = received[d][j].src
             => received[d][i].id < received[d][j].id
    /\ Hand(d) /\ buffer[d].id # 0 =>
          /\ buffer[d].dst = d
          /\ \A i \in DOMAIN received[d] :
                received[d][i].src = buffer[d].src => received[d][i].id < buffer[d].id
    /\ \A j \in DOMAIN queue[d] : queue[d][j].id # 0 =>
          /\ queue[d][j].dst = d
          /\ \A i \in DOMAIN received[d] :
                received[d][i].src = queue[d][j].src => received[d][i].id < queue[d][j].id
          /\ Hand(d) /\ buffer[d].src = queue[d][j].src => buffer[d].id < queue[d][j].id
          /\ \A i \in DOMAIN queue[d] :
                i < j /\ queue[d][i].src = queue[d][j].src => queue[d][i].id < queue[d][j].id

(* All that d has of m has a number below k.                               *)
Before(m, d, k) ==
    /\ \A i \in DOMAIN received[d] : received[d][i].src = m => received[d][i].id < k
    /\ Hand(d) /\ buffer[d].src = m => buffer[d].id < k
    /\ \A i \in DOMAIN queue[d] : queue[d][i].src = m => queue[d][i].id < k

(* What m is about to queue is newer than all that has left it, and so is  *)
(* the message it still asks a clearance for.                              *)
Newer(m) ==
    /\ outbox[m].id # 0 => /\ outbox[m].src = m /\ outbox[m].dst \in Mailboxes
                           /\ outbox[m].id <= sent[m]
                           /\ Before(m, outbox[m].dst, outbox[m].id)
    /\ \A d \in Mailboxes : Before(m, d, sent[m] + 1)
    /\ Sane(m) /\ call[m] = "send" /\ state[m] \in {"RTS_Sent", "HoldState"} =>
          /\ outbox[m].id = 0 /\ buffer[m].id = sent[m] /\ buffer[m].id # 0
          /\ buffer[m].src = m
          /\ buffer[m].dst \in Mailboxes
          /\ \A d \in Mailboxes : Before(m, d, sent[m])

AllSorted == \A d \in Mailboxes : Sorted(d)
AllNewer == \A m \in Mailboxes : Newer(m)

OInv == AllSorted /\ AllNewer

(* receive() hands out nothing that its automaton did not receive.         *)
Clean == \A m \in Mailboxes : Completed(m, "receive") /\ buffer[m].id # 0 => finished[m]

(* Before, with the number of this step in the state of the next.          *)
After(m, d, k) ==
    /\ \A i \in DOMAIN received'[d] : received'[d][i].src = m => received'[d][i].id < k
    /\ Hand(d)' /\ buffer'[d].src = m => buffer'[d].id < k
    /\ \A i \in DOMAIN queue'[d] : queue'[d][i].src = m => queue'[d][i].id < k

(* A reader that receives nothing, or something that has no number, ...    *)
Stays(d) ==
    /\ received'[d] = received[d]
    /\ \/ queue'[d] \in {queue[d], <<>>}
       \/ queue[d] # <<>> /\ queue'[d] = Tail(queue[d])
    /\ Hand(d)' => buffer'[d].id = 0 \/ (Hand(d) /\ buffer'[d] = buffer[d])

(* ... that takes a message from its queue, ...                            *)
Takes(d) ==
    /\ received'[d] = received[d] /\ ~Hand(d)
    /\ queue[d] # <<>> /\ queue'[d] = Tail(queue[d])
    /\ buffer'[d] = Head(queue[d])

(* ... and that hands it out.                                              *)
Returns(d) ==
    /\ queue'[d] = queue[d] /\ Hand(d) /\ ~Hand(d)'
    /\ received'[d] = Append(received[d], buffer[d]) /\ buffer[d].id # 0

LEMMA TailPlaces ==
    ASSUME NEW X, NEW s \in Seq(X), s # <<>>
    PROVE  /\ \A i \in DOMAIN Tail(s) : i \in Nat /\ i + 1 \in DOMAIN s /\ Tail(s)[i] = s[i + 1]
           /\ 1 \in DOMAIN s /\ Head(s) = s[1]
           /\ \A i \in DOMAIN Tail(s) : 1 < i + 1
OBVIOUS

(* What is in a shorter queue was in the longer one, in this order.        *)
LEMMA QueueStays ==
    ASSUME TypeOK, NEW d \in Mailboxes,
           \/ queue'[d] \in {queue[d], <<>>}
           \/ queue[d] # <<>> /\ queue'[d] = Tail(queue[d])
    PROVE  \E k \in Nat : \A i \in DOMAIN queue'[d] :
              i \in Nat /\ i + k \in DOMAIN queue[d] /\ queue'[d][i] = queue[d][i + k]
<1>1. queue[d] \in Seq(Message)
  BY DEF TypeOK
<1>2. CASE queue'[d] = queue[d]
  <2>1. \A i \in DOMAIN queue'[d] :
           i \in Nat /\ i + 0 \in DOMAIN queue[d] /\ queue'[d][i] = queue[d][i + 0]
    BY <1>1, <1>2
  <2> QED  BY <2>1
<1>3. CASE queue'[d] = <<>>
  BY <1>3
<1>4. CASE queue[d] # <<>> /\ queue'[d] = Tail(queue[d])
  BY <1>1, <1>4, TailPlaces
<1> QED  BY <1>2, <1>3, <1>4

(* No reader makes a bound on the numbers wrong, ...                       *)
LEMMA BeforeStays ==
    ASSUME TypeOK, NEW d \in Mailboxes, Stays(d) \/ Takes(d) \/ Returns(d),
           NEW m, NEW k \in Nat \ {0}, Before(m, d, k)
    PROVE  After(m, d, k)
<1>1. queue[d] \in Seq(Message) /\ received[d] \in Seq(Message) /\ buffer[d] \in Message
  BY DEF TypeOK
<1>2. \A i \in DOMAIN queue'[d] : queue'[d][i].src = m => queue'[d][i].id < k
  <2>1. PICK c \in Nat : \A i \in DOMAIN queue'[d] :
              i \in Nat /\ i + c \in DOMAIN queue[d] /\ queue'[d][i] = queue[d][i + c]
    BY QueueStays DEF Stays, Takes, Returns
  <2> QED  BY <2>1 DEF Before
<1>3. CASE Stays(d)
  BY <1>2, <1>3 DEF Stays, Before, After
<1>4. CASE Takes(d)
  <2>1. buffer'[d] = queue[d][1] /\ 1 \in DOMAIN queue[d]
    BY <1>1, <1>4, TailPlaces DEF Takes
  <2> QED  BY <1>2, <1>4, <2>1 DEF Takes, Before, After
<1>5. CASE Returns(d)
  <2>1. \A i \in DOMAIN received'[d] :
           \/ i \in DOMAIN received[d] /\ received'[d][i] = received[d][i]
           \/ received'[d][i] = buffer[d]
    BY <1>1, <1>5 DEF Returns
  <2> QED  BY <1>2, <1>5, <2>1 DEF Returns, Before, After
<1> QED  BY <1>3, <1>4, <1>5

(* ... or disturbs the order.                                              *)
LEMMA SortedStays ==
    ASSUME TypeOK, NEW d \in Mailboxes, Sorted(d), Stays(d) \/ Takes(d) \/ Returns(d)
    PROVE  Sorted(d)'
<1>1. queue[d] \in Seq(Message) /\ received[d] \in Seq(Message) /\ buffer[d] \in Message
  BY DEF TypeOK
<1>2. PICK c \in Nat : \A i \in DOMAIN queue'[d] :
            i \in Nat /\ i + c \in DOMAIN queue[d] /\ queue'[d][i] = queue[d][i + c]
  BY QueueStays DEF Stays, Takes, Returns
<1>3. \A i, j \in DOMAIN queue'[d] :
         i < j /\ queue'[d][j].id # 0 /\ queue'[d][i].src = queue'[d][j].src
            => queue'[d][i].id < queue'[d][j].id
  <2> SUFFICES ASSUME NEW i \in DOMAIN queue'[d], NEW j \in DOMAIN queue'[d],
                      i < j, queue'[d][j].id # 0, queue'[d][i].src = queue'[d][j].src
               PROVE  queue'[d][i].id < queue'[d][j].id
    OBVIOUS
  <2>1. /\ i + c \in DOMAIN queue[d] /\ j + c \in DOMAIN queue[d] /\ i + c < j + c
        /\ queue'[d][i] = queue[d][i + c] /\ queue'[d][j] = queue[d][j + c]
    BY <1>2
  <2> QED  BY <2>1 DEF Sorted
<1>4. \A j \in DOMAIN queue'[d] : queue'[d][j].id # 0 =>
         /\ queue'[d][j].dst = d
         /\ \A i \in DOMAIN received[d] :
               received[d][i].src = queue'[d][j].src => received[d][i].id < queue'[d][j].id
         /\ Hand(d) /\ buffer[d].src = queue'[d][j].src => buffer[d].id < queue'[d][j].id
  <2> SUFFICES ASSUME NEW j \in DOMAIN queue'[d], queue'[d][j].id # 0
               PROVE
         /\ queue'[d][j].dst = d
         /\ \A i \in DOMAIN received[d] :
               received[d][i].src = queue'[d][j].src => received[d][i].id < queue'[d][j].id
         /\ Hand(d) /\ buffer[d].src = queue'[d][j].src => buffer[d].id < queue'[d][j].id
    OBVIOUS
  <2>1. j + c \in DOMAIN queue[d] /\ queue'[d][j] = queue[d][j + c]
    BY <1>2
  <2> QED  BY <2>1 DEF Sorted
<1>5. CASE Stays(d)
  <2>1. \A j \in DOMAIN queue'[d] : queue'[d][j].id # 0 =>
           (Hand(d)' /\ buffer'[d].src = queue'[d][j].src => buffer'[d].id < queue'[d][j].id)
    <3> SUFFICES ASSUME NEW j \in DOMAIN queue'[d], queue'[d][j].id # 0, Hand(d)',
                        buffer'[d].src = queue'[d][j].src
                 PROVE  buffer'[d].id < queue'[d][j].id
      OBVIOUS
    <3>1. queue'[d][j] \in Message
      BY <1>1, <1>2
    <3>2. queue'[d][j].id \in Nat
      BY <3>1, MailboxAssumption DEF Message
    <3>3. CASE buffer'[d].id = 0
      BY <3>2, <3>3
    <3>4. CASE Hand(d) /\ buffer'[d] = buffer[d]
      BY <1>4, <3>4
    <3> QED  BY <1>5, <3>3, <3>4 DEF Stays
  <2> QED  BY <1>3, <1>4, <1>5, <2>1 DEF Stays, Sorted
<1>6. CASE Takes(d)
  <2>1. /\ buffer'[d] = queue[d][1] /\ 1 \in DOMAIN queue[d]
        /\ \A j \in DOMAIN queue'[d] :
              /\ j + 1 \in DOMAIN queue[d] /\ queue'[d][j] = queue[d][j + 1] /\ 1 < j + 1
    BY <1>1, <1>6, TailPlaces DEF Takes
  <2>2. buffer'[d].id # 0 =>
           /\ buffer'[d].dst = d
           /\ \A i \in DOMAIN received[d] :
                 received[d][i].src = buffer'[d].src => received[d][i].id < buffer'[d].id
    BY <2>1 DEF Sorted
  <2>3. \A j \in DOMAIN queue'[d] : queue'[d][j].id # 0 =>
           (buffer'[d].src = queue'[d][j].src => buffer'[d].id < queue'[d][j].id)
    BY <2>1 DEF Sorted
  <2> QED  BY <1>3, <1>4, <1>6, <2>2, <2>3 DEF Takes, Sorted
<1>7. CASE Returns(d)
  <2>1. /\ queue'[d] = queue[d] /\ Hand(d) /\ ~Hand(d)' /\ buffer[d].id # 0
        /\ received'[d] = Append(received[d], buffer[d])
    BY <1>7 DEF Returns
  <2>2. \A i \in DOMAIN received'[d] :
           \/ i \in DOMAIN received[d] /\ received'[d][i] = received[d][i]
           \/ i = Len(received[d]) + 1 /\ received'[d][i] = buffer[d]
    BY <1>1, <2>1
  <2>3. \A i \in DOMAIN received'[d] : received'[d][i].dst = d
    BY <2>1, <2>2 DEF Sorted
  <2>4. \A i, j \in DOMAIN received'[d] :
           i < j /\ received'[d][i].src = received'[d][j].src
              => received'[d][i].id < received'[d][j].id
    <3> SUFFICES ASSUME NEW i \in DOMAIN received'[d], NEW j \in DOMAIN received'[d],
                        i < j, received'[d][i].src = received'[d][j].src
                 PROVE  received'[d][i].id < received'[d][j].id
      OBVIOUS
    <3>1. i \in DOMAIN received[d] /\ received'[d][i] = received[d][i]
      <4>1. j <= Len(received[d]) + 1 /\ Len(received[d]) \in Nat /\ i \in Nat /\ j \in Nat
        BY <1>1, <2>1
      <4> QED  BY <2>2, <4>1
    <3>2. CASE j \in DOMAIN received[d] /\ received'[d][j] = received[d][j]
      BY <3>1, <3>2 DEF Sorted
    <3>3. CASE received'[d][j] = buffer[d]
      BY <2>1, <3>1, <3>3 DEF Sorted
    <3> QED  BY <2>2, <3>2, <3>3
  <2>5. \A j \in DOMAIN queue'[d] : queue'[d][j].id # 0 =>
           \A i \in DOMAIN received'[d] :
              received'[d][i].src = queue'[d][j].src => received'[d][i].id < queue'[d][j].id
    BY <1>4, <2>1, <2>2
  <2> QED  BY <1>3, <1>4, <2>1, <2>3, <2>4, <2>5 DEF Sorted
<1> QED  BY <1>5, <1>6, <1>7

-----------------------------------------------------------------------------
(* What becomes of the order when m does a step.                           *)

(* m asks for a clearance.                                                 *)
Asks(m) == Sane(m) /\ call[m] = "send" /\ state[m] \in {"RTS_Sent", "HoldState"}

(* The bounds on the numbers of n that a step keeps: all, but what it puts *)
(* into a queue is newer than what was there.                              *)
Keeps(n, d) ==
    \A k \in Nat \ {0} :
       /\ Before(n, d, k)
       /\ outbox'[n] = outbox[n] \/ outbox[n].id = 0 \/ outbox[n].id < k
       => After(n, d, k)

(* What n is about to queue stays the newest when the step keeps the       *)
(* bounds of n.                                                            *)
LEMMA NewerStays ==
    ASSUME TypeOK, TypeOK', NEW n \in Mailboxes, Newer(n), sent'[n] = sent[n],
           \A d \in Mailboxes : Keeps(n, d),
           \/ outbox'[n] = outbox[n] \/ outbox'[n].id = 0
           \/ Asks(n) /\ outbox'[n] = buffer[n],
           Asks(n)' => /\ Asks(n) /\ buffer'[n] = buffer[n]
                       /\ outbox'[n] = outbox[n] \/ outbox'[n].id = 0
    PROVE  Newer(n)'
<1>1. /\ outbox[n] \in Message /\ buffer[n] \in Message /\ sent[n] \in 0 .. MaxSends
      /\ MaxSends \in Nat
  BY MailboxAssumption DEF TypeOK
<1>2. outbox[n].id \in Nat /\ buffer[n].id \in Nat /\ sent[n] \in Nat
  BY <1>1 DEF Message
<1>3. ASSUME NEW d \in Mailboxes PROVE After(n, d, sent[n] + 1)
  <2>1. sent[n] + 1 \in Nat \ {0} /\ Before(n, d, sent[n] + 1)
    BY <1>2 DEF Newer
  <2>2. outbox[n].id = 0 \/ outbox[n].id < sent[n] + 1
    BY <1>2 DEF Newer
  <2> QED  BY <2>1, <2>2 DEF Keeps
<1>4. \A d \in Mailboxes : Before(n, d, sent[n] + 1)'
  BY <1>3 DEF After, Before
<1>5. Asks(n) => /\ outbox[n].id = 0 /\ buffer[n].id = sent[n] /\ buffer[n].id # 0
                 /\ buffer[n].src = n /\ buffer[n].dst \in Mailboxes
                 /\ \A d \in Mailboxes : After(n, d, sent[n])
  BY <1>2 DEF Newer, Asks, Keeps
<1>6. Asks(n)' => /\ outbox'[n].id = 0 /\ buffer'[n].id = sent'[n] /\ buffer'[n].id # 0
                  /\ buffer'[n].src = n /\ buffer'[n].dst \in Mailboxes
                  /\ \A d \in Mailboxes : Before(n, d, sent[n])'
  BY <1>5 DEF After, Before
<1>7. outbox'[n].id # 0 => /\ outbox'[n].src = n /\ outbox'[n].dst \in Mailboxes
                           /\ outbox'[n].id <= sent'[n]
                           /\ Before(n, outbox[n].dst, outbox[n].id)'
  <2> SUFFICES ASSUME outbox'[n].id # 0
               PROVE  /\ outbox'[n].src = n /\ outbox'[n].dst \in Mailboxes
                      /\ outbox'[n].id <= sent'[n]
                      /\ Before(n, outbox[n].dst, outbox[n].id)'
    OBVIOUS
  <2>1. CASE outbox'[n] = outbox[n]
    <3>1. /\ outbox[n].src = n /\ outbox[n].dst \in Mailboxes /\ outbox[n].id <= sent[n]
          /\ Before(n, outbox[n].dst, outbox[n].id) /\ outbox[n].id \in Nat \ {0}
      BY <1>2, <2>1 DEF Newer
    <3>2. After(n, outbox[n].dst, outbox[n].id)
      BY <2>1, <3>1 DEF Keeps
    <3> QED  BY <2>1, <3>1, <3>2 DEF After, Before
  <2>2. CASE Asks(n) /\ outbox'[n] = buffer[n]
    <3>1. After(n, buffer[n].dst, buffer[n].id) /\ outbox'[n].id <= sent'[n]
      BY <1>2, <1>5, <2>2
    <3> QED  BY <1>5, <2>2, <3>1 DEF After, Before
  <2> QED  BY <2>1, <2>2
<1> QED  BY <1>4, <1>6, <1>7 DEF Newer, Asks

(* A step of m in which nothing is queued keeps the order.                 *)
LEMMA QuietOrder ==
    ASSUME TypeOK, TypeOK', OInv, NEW m \in Mailboxes, OthersStay(m), sent' = sent,
           Stays(m) \/ Takes(m) \/ Returns(m), \A d \in Mailboxes \ {m} : queue'[d] = queue[d],
           \/ outbox'[m] = outbox[m] \/ outbox'[m].id = 0
           \/ Asks(m) /\ outbox'[m] = buffer[m],
           Asks(m)' => /\ Asks(m) /\ buffer'[m] = buffer[m]
                       /\ outbox'[m] = outbox[m] \/ outbox'[m].id = 0
    PROVE  OInv'
<1>1. \A d \in Mailboxes \ {m} : Stays(d)
  BY DEF Stays, OthersStay, Hand
<1>2. ASSUME NEW d \in Mailboxes PROVE Sorted(d)'
  <2>1. Sorted(d)
    BY DEF OInv, AllSorted
  <2> QED  BY <1>1, <2>1, SortedStays
<1>3. ASSUME NEW n \in Mailboxes PROVE Newer(n)'
  <2>1. Newer(n)
    BY DEF OInv, AllNewer
  <2>2. \A d \in Mailboxes : Keeps(n, d)
    <3> SUFFICES ASSUME NEW d \in Mailboxes, NEW k \in Nat \ {0}, Before(n, d, k)
                 PROVE  After(n, d, k)
      BY DEF Keeps
    <3> QED  BY <1>1, BeforeStays
  <2>3. n # m => outbox'[n] = outbox[n] /\ (Asks(n)' => Asks(n) /\ buffer'[n] = buffer[n])
    BY DEF OthersStay, Asks, Sane
  <2> QED  BY <2>1, <2>2, <2>3, NewerStays
<1> QED  BY <1>2, <1>3 DEF OInv, AllSorted, AllNewer

(* mq_send: the message is newer than what its destination has of m.       *)
LEMMA PutOrder ==
    ASSUME TypeOK, TypeOK', OInv, NEW m \in Mailboxes, SendImmediate(m)
    PROVE  OInv'
<1> DEFINE x == outbox[m]
<1>1. /\ queue' = [queue EXCEPT ![x.dst] = Append(@, x)] /\ x \in Message
      /\ outbox' = [outbox EXCEPT ![m] = EmptyMessage] /\ sent' = sent
      /\ state' = state /\ errorStatus' = errorStatus /\ finished' = finished
      /\ buffer' = buffer /\ call' = call /\ received' = received
  BY DEF SendImmediate, automatonVars, ownerVars, TypeOK
<1>2. \A d \in Mailboxes : queue[d] \in Seq(Message)
  BY DEF TypeOK
<1>3. \A d \in Mailboxes : queue'[d] = IF d = x.dst THEN Append(queue[d], x) ELSE queue[d]
  BY <1>1 DEF TypeOK
<1>4. /\ outbox'[m].id = 0 /\ \A n \in Mailboxes \ {m} : outbox'[n] = outbox[n]
  BY <1>1 DEF TypeOK, EmptyMessage
<1>5. x.id \in Nat /\ Newer(m)
  BY <1>1, MailboxAssumption DEF Message, OInv, AllNewer
<1> HIDE DEF x
<1>6. \A d \in Mailboxes : \A i \in DOMAIN queue'[d] :
         /\ i \in Nat /\ i <= Len(queue[d]) + 1 /\ Len(queue[d]) \in Nat
         /\ \/ i \in DOMAIN queue[d] /\ queue'[d][i] = queue[d][i]
            \/ d = x.dst /\ i = Len(queue[d]) + 1 /\ queue'[d][i] = x
  <2> SUFFICES ASSUME NEW d \in Mailboxes, NEW i \in DOMAIN queue'[d]
               PROVE
         /\ i \in Nat /\ i <= Len(queue[d]) + 1 /\ Len(queue[d]) \in Nat
         /\ \/ i \in DOMAIN queue[d] /\ queue'[d][i] = queue[d][i]
            \/ d = x.dst /\ i = Len(queue[d]) + 1 /\ queue'[d][i] = x
    OBVIOUS
  <2>1. queue[d] \in Seq(Message)
    BY <1>2
  <2>2. CASE d = x.dst /\ queue'[d] = Append(queue[d], x)
    BY <1>1, <2>1, <2>2
  <2>3. CASE queue'[d] = queue[d]
    BY <2>1, <2>3
  <2> QED  BY <1>3, <2>2, <2>3
<1>7. ASSUME NEW n \in Mailboxes, NEW d \in Mailboxes PROVE Keeps(n, d)
  <2> SUFFICES ASSUME NEW k \in Nat \ {0}, Before(n, d, k),
                      outbox'[n] = outbox[n] \/ outbox[n].id = 0 \/ outbox[n].id < k
               PROVE  After(n, d, k)
    BY DEF Keeps
  <2>1. d = x.dst /\ x.src = n => x.id < k
    <3>1. CASE x.id = 0
      BY <3>1
    <3>2. CASE x.id # 0
      <4>1. x.src = m
        BY <1>5, <3>2 DEF Newer, x
      <4>2. outbox'[m] # outbox[m]
        BY <1>4, <3>2 DEF x
      <4> QED  BY <3>2, <4>1, <4>2 DEF x
    <3> QED  BY <3>1, <3>2
  <2>2. \A i \in DOMAIN queue'[d] : queue'[d][i].src = n => queue'[d][i].id < k
    BY <1>6, <2>1 DEF Before
  <2> QED  BY <1>1, <2>2 DEF Before, After, Hand
<1>8. ASSUME NEW d \in Mailboxes PROVE Sorted(d)'
  <2>0. Sorted(d)
    BY DEF OInv, AllSorted
  <2>1. x.id # 0 /\ d = x.dst => Before(x.src, d, x.id)
    BY <1>5 DEF Newer, x
  <2>2. \A j \in DOMAIN queue'[d] : queue'[d][j].id # 0 =>
          /\ queue'[d][j].dst = d
          /\ \A i \in DOMAIN received[d] :
                received[d][i].src = queue'[d][j].src => received[d][i].id < queue'[d][j].id
          /\ Hand(d) /\ buffer[d].src = queue'[d][j].src => buffer[d].id < queue'[d][j].id
    <3> SUFFICES ASSUME NEW j \in DOMAIN queue'[d], queue'[d][j].id # 0
                 PROVE
          /\ queue'[d][j].dst = d
          /\ \A i \in DOMAIN received[d] :
                received[d][i].src = queue'[d][j].src => received[d][i].id < queue'[d][j].id
          /\ Hand(d) /\ buffer[d].src = queue'[d][j].src => buffer[d].id < queue'[d][j].id
      OBVIOUS
    <3>1. CASE j \in DOMAIN queue[d] /\ queue'[d][j] = queue[d][j]
      BY <2>0, <3>1 DEF Sorted
    <3>2. CASE d = x.dst /\ queue'[d][j] = x
      BY <2>1, <3>2 DEF Before
    <3> QED  BY <1>6, <3>1, <3>2
  <2>3. \A i, j \in DOMAIN queue'[d] :
           queue'[d][j].id # 0 /\ i < j /\ queue'[d][i].src = queue'[d][j].src
              => queue'[d][i].id < queue'[d][j].id
    <3> SUFFICES ASSUME NEW i \in DOMAIN queue'[d], NEW j \in DOMAIN queue'[d],
                        queue'[d][j].id # 0, i < j, queue'[d][i].src = queue'[d][j].src
                 PROVE  queue'[d][i].id < queue'[d][j].id
      OBVIOUS
    <3>1. i \in DOMAIN queue[d] /\ queue'[d][i] = queue[d][i]
      <4>1. i \in Nat /\ j \in Nat /\ j <= Len(queue[d]) + 1 /\ Len(queue[d]) \in Nat
        BY <1>6
      <4> QED  BY <1>6, <4>1
    <3>2. CASE j \in DOMAIN queue[d] /\ queue'[d][j] = queue[d][j]
      BY <2>0, <3>1, <3>2 DEF Sorted
    <3>3. CASE d = x.dst /\ queue'[d][j] = x
      BY <2>1, <3>1, <3>3 DEF Before
    <3> QED  BY <1>6, <3>2, <3>3
  <2> QED  BY <1>1, <2>0, <2>2, <2>3 DEF Sorted, Hand
<1>9. ASSUME NEW n \in Mailboxes PROVE Newer(n)'
  <2>1. Newer(n) /\ sent'[n] = sent[n]
    BY <1>1 DEF OInv, AllNewer
  <2>2. outbox'[n] = outbox[n] \/ outbox'[n].id = 0
    BY <1>4
  <2>3. Asks(n)' => Asks(n) /\ buffer'[n] = buffer[n]
    BY <1>1 DEF Asks, Sane
  <2> QED  BY <1>7, <2>1, <2>2, <2>3, NewerStays
<1> QED  BY <1>8, <1>9 DEF OInv, AllSorted, AllNewer

(* A higher bound is a bound.                                              *)
LEMMA BeforeHigher ==
    ASSUME TypeOK, NEW d \in Mailboxes, NEW m, NEW k \in Nat, NEW l \in Nat, k <= l,
           Before(m, d, k)
    PROVE  Before(m, d, l)
<1>1. \A x \in Message : x.id \in Nat
  BY MailboxAssumption DEF Message
<1>2. queue[d] \in Seq(Message) /\ received[d] \in Seq(Message) /\ buffer[d] \in Message
  BY DEF TypeOK
<1>3. /\ \A i \in DOMAIN received[d] : received[d][i].id \in Nat
      /\ \A i \in DOMAIN queue[d] : queue[d][i].id \in Nat
      /\ buffer[d].id \in Nat
  BY <1>1, <1>2
<1>4. \A j \in Nat : j < k => j < l
  OBVIOUS
<1> QED  BY <1>3, <1>4 DEF Before

(* A call that begins to send: the message gets the next number.           *)
LEMMA NumberOrder ==
    ASSUME TypeOK, TypeOK', OInv, NEW m \in Mailboxes, OthersStay(m), queue' = queue,
           received' = received, sent' = [sent EXCEPT ![m] = @ + 1],
           ~Hand(m)',
           \/ /\ outbox'[m].id = sent[m] + 1 /\ outbox'[m].src = m
              /\ outbox'[m].dst \in Mailboxes /\ ~Asks(m)'
           \/ outbox'[m].id = 0 /\ ~Asks(m)'
           \/ /\ outbox'[m].id = 0 /\ buffer'[m].id = sent[m] + 1 /\ buffer'[m].src = m
              /\ buffer'[m].dst \in Mailboxes
    PROVE  OInv'
<1>1. /\ sent'[m] = sent[m] + 1 /\ sent[m] \in Nat
      /\ \A n \in Mailboxes \ {m} : sent'[n] = sent[n]
  BY DEF TypeOK
<1>2. \A d \in Mailboxes : Stays(d)
  BY DEF Stays, OthersStay, Hand
<1>3. ASSUME NEW d \in Mailboxes PROVE Sorted(d)'
  <2>1. Sorted(d)
    BY DEF OInv, AllSorted
  <2> QED  BY <1>2, <2>1, SortedStays
<1>4. ASSUME NEW n \in Mailboxes, NEW d \in Mailboxes, NEW k \in Nat \ {0}, Before(n, d, k)
      PROVE  After(n, d, k)
  BY <1>2, <1>4, BeforeStays
<1>5. ASSUME NEW n \in Mailboxes \ {m} PROVE Newer(n)'
  <2>1. Newer(n) /\ \A d \in Mailboxes : Keeps(n, d)
    BY <1>4 DEF OInv, AllNewer, Keeps
  <2>2. /\ outbox'[n] = outbox[n] /\ sent'[n] = sent[n]
        /\ Asks(n)' => Asks(n) /\ buffer'[n] = buffer[n]
    BY <1>1 DEF OthersStay, Asks, Sane
  <2> QED  BY <2>1, <2>2, NewerStays
<1>6. \A d \in Mailboxes : After(m, d, sent[m] + 1) /\ After(m, d, sent[m] + 2)
  <2> SUFFICES ASSUME NEW d \in Mailboxes
               PROVE  After(m, d, sent[m] + 1) /\ After(m, d, sent[m] + 2)
    OBVIOUS
  <2>1. Before(m, d, sent[m] + 1)
    BY DEF OInv, AllNewer, Newer
  <2>2. sent[m] + 1 \in Nat \ {0} /\ sent[m] + 2 \in Nat \ {0} /\ sent[m] + 1 <= sent[m] + 2
    BY <1>1
  <2>3. Before(m, d, sent[m] + 2)
    BY <2>1, <2>2, BeforeHigher
  <2> QED  BY <1>4, <2>1, <2>2, <2>3
<1>7. Newer(m)'
  <2>1. \A d \in Mailboxes : Before(m, d, sent[m])' /\ Before(m, d, sent[m] + 1)'
    <3> SUFFICES ASSUME NEW d \in Mailboxes
                 PROVE  Before(m, d, sent[m])' /\ Before(m, d, sent[m] + 1)'
      OBVIOUS
    <3>1. sent'[m] = sent[m] + 1 /\ sent'[m] + 1 = sent[m] + 2
      BY <1>1
    <3> QED  BY <1>6, <3>1 DEF After, Before
  <2>2. outbox'[m].id # 0 => /\ outbox'[m].src = m /\ outbox'[m].dst \in Mailboxes
                             /\ outbox'[m].id = sent'[m]
                             /\ Before(m, outbox[m].dst, outbox[m].id)'
    <3> SUFFICES ASSUME outbox'[m].id # 0
                 PROVE  /\ outbox'[m].src = m /\ outbox'[m].dst \in Mailboxes
                        /\ outbox'[m].id = sent'[m]
                        /\ Before(m, outbox[m].dst, outbox[m].id)'
      OBVIOUS
    <3>1. /\ outbox'[m].src = m /\ outbox'[m].dst \in Mailboxes
          /\ outbox'[m].id = sent[m] + 1
      OBVIOUS
    <3>2. PICK d \in Mailboxes : d = outbox'[m].dst
      BY <3>1
    <3>3. PICK k \in Nat : k = outbox'[m].id /\ k = sent[m] + 1
      BY <1>1, <3>1
    <3>4. Before(m, d, k)'
      BY <1>6, <3>3 DEF After, Before
    <3>5. Before(m, outbox[m].dst, outbox[m].id)'
      BY <3>2, <3>3, <3>4 DEF Before
    <3>6. outbox'[m].id = sent'[m]
      BY <1>1, <3>1
    <3> QED  BY <3>1, <3>5, <3>6
  <2>3. Asks(m)' =>
          /\ outbox'[m].id = 0 /\ buffer'[m].id = sent'[m] /\ buffer'[m].id # 0
          /\ buffer'[m].src = m /\ buffer'[m].dst \in Mailboxes
    BY <1>1
  <2>4. sent'[m] <= sent'[m]
    BY <1>1
  <2> QED  BY <2>1, <2>2, <2>3, <2>4 DEF Newer, Asks
<1> QED  BY <1>3, <1>5, <1>7 DEF OInv, AllSorted, AllNewer

(* A round of send() or receive().                                         *)
LEMMA SignalsHaveNoNumber == \A m, d, type : Signal(m, d, type).id = 0
BY DEF Signal

(* What an accepted event does to the order: the message of a sender that  *)
(* has been cleared goes out, a receiver takes what came, and otherwise    *)
(* only signals are sent.                                                  *)
LEMMA RoundOrderFacts ==
    ASSUME TypeOK, NEW m \in Mailboxes, NEW x, Coherent(m), Waiting(m),
           call' = call,
           HoldStep(m, x) \/ GrantStep(m, x) \/ TransferStep(m, x) \/ FinishStep(m, x)
              \/ AcceptStep(m, x) \/ HeldStep(m, x) \/ IgnoreStep(m, x) \/ SaveStep(m, x)
    PROVE  /\ Hand(m)' => buffer'[m] = x
           /\ \/ outbox'[m] = outbox[m] \/ outbox'[m].id = 0
              \/ Asks(m) /\ outbox'[m] = buffer[m]
           /\ Asks(m)' => /\ Asks(m) /\ buffer'[m] = buffer[m]
                          /\ outbox'[m] = outbox[m] \/ outbox'[m].id = 0
<1>1. /\ Sane(m) /\ ~finished[m] /\ call'[m] = call[m] /\ call[m] \in {"send", "receive"}
      /\ call[m] = "receive" => state[m] \in {"WaitingRTS", "WaitingMSG"}
      /\ call[m] = "send" => state[m] \in {"RTS_Sent", "HoldState", "WaitingACK"}
  BY DEF Waiting, TaskCompleted, Sane, Coherent, SendStates, ReceiveStates
<1>2. CASE HoldStep(m, x)
  <2>1. /\ buffer'[m] = buffer[m] /\ finished'[m] = finished[m] /\ state'[m] = state[m]
        /\ outbox'[m].id = 0
    BY <1>2, SignalsHaveNoNumber DEF HoldStep, DoEnqueueAndHold, TypeOK
  <2> QED  BY <1>1, <2>1 DEF Hand, Asks
<1>3. CASE GrantStep(m, x)
  <2>1. finished'[m] = finished[m] /\ outbox'[m].id = 0 /\ state'[m] = "WaitingMSG"
    BY <1>3, SignalsHaveNoNumber DEF GrantStep, DoSendCTS, TypeOK
  <2> QED  BY <1>1, <2>1 DEF Hand, Asks
<1>4. CASE TransferStep(m, x)
  <2>1. /\ finished'[m] = finished[m] /\ outbox'[m] = buffer[m] /\ state'[m] = "WaitingACK"
        /\ state[m] \in {"RTS_Sent", "HoldState"}
    BY <1>4 DEF TransferStep, DoSendMsg, TypeOK
  <2> QED  BY <1>1, <2>1 DEF Hand, Asks
<1>5. CASE FinishStep(m, x)
  <2>1. /\ outbox'[m] = outbox[m] /\ state'[m] = "ActionSuccessfulyEnded"
        /\ state[m] = "WaitingACK"
    BY <1>5 DEF FinishStep, DoSetFinishedFlag, TypeOK
  <2> QED  BY <1>1, <2>1 DEF Hand, Asks
<1>6. CASE AcceptStep(m, x)
  <2>1. /\ outbox'[m].id = 0 /\ state'[m] = "ActionSuccessfulyEnded" /\ buffer'[m] = x
    BY <1>6, SignalsHaveNoNumber DEF AcceptStep, DoSendACK, TypeOK
  <2> QED  BY <1>1, <2>1 DEF Hand, Asks
<1>7. CASE HeldStep(m, x)
  <2>1. /\ buffer'[m] = buffer[m] /\ finished'[m] = finished[m] /\ outbox'[m] = outbox[m]
        /\ state[m] = "RTS_Sent"
    BY <1>7 DEF HeldStep, DoVoid, TypeOK
  <2> QED  BY <1>1, <2>1 DEF Hand, Asks
<1>8. CASE IgnoreStep(m, x)
  <2>1. /\ buffer'[m] = buffer[m] /\ finished'[m] = finished[m] /\ outbox'[m] = outbox[m]
        /\ state'[m] = state[m]
    BY <1>8 DEF IgnoreStep, DoVoid, TypeOK
  <2> QED  BY <1>1, <2>1 DEF Hand, Asks
<1>9. CASE SaveStep(m, x)
  <2>1. /\ outbox'[m] = outbox[m] /\ state'[m] = "ActionSuccessfulyEnded" /\ buffer'[m] = x
    BY <1>9 DEF SaveStep, DoSaveMessage, TypeOK
  <2> QED  BY <1>1, <2>1 DEF Hand, Asks
<1> QED  BY <1>2, <1>3, <1>4, <1>5, <1>6, <1>7, <1>8, <1>9

(* m leaves its call because it dies.                                      *)
LEMMA ExitOrder ==
    ASSUME TypeOK, TypeOK', OInv, NEW m \in Mailboxes, Exit(m),
           \/ queue' = queue
           \/ queue[m] # <<>> /\ queue' = [queue EXCEPT ![m] = Tail(@)]
    PROVE  OInv'
<1>1. /\ OthersStay(m) /\ sent' = sent /\ received' = received
      /\ call'[m] = "exited" /\ outbox'[m] = EmptyMessage
  BY DEF Exit, OthersStay, automatonVars, TypeOK
<1>2. outbox'[m].id = 0 /\ ~Asks(m)' /\ ~Hand(m)'
  BY <1>1 DEF EmptyMessage, Asks, Hand
<1>3. /\ queue'[m] = queue[m] \/ (queue[m] # <<>> /\ queue'[m] = Tail(queue[m]))
      /\ \A d \in Mailboxes \ {m} : queue'[d] = queue[d]
  BY DEF TypeOK
<1>4. Stays(m)
  BY <1>1, <1>2, <1>3 DEF Stays
<1> QED  BY <1>1, <1>2, <1>3, <1>4, QuietOrder

LEMMA RoundOrder ==
    ASSUME TypeOK, TypeOK', OInv, NEW m \in Mailboxes, Coherent(m), Waiting(m),
           NEW x \in Message, Handle(m, x),
           \/ x.id = 0 /\ queue' = queue
           \/ queue[m] # <<>> /\ x = Head(queue[m]) /\ queue' = [queue EXCEPT ![m] = Tail(@)]
    PROVE  OInv'
<1>1. CASE Exit(m)
  BY <1>1, ExitOrder
<1>2. CASE /\ UNCHANGED ownerVars
           /\ \/ Accept(m, ParseMessage(m, x), x, buffer[m])
              \/ Reject(m, ParseMessage(m, x), buffer[m]) /\ UNCHANGED override
  <2>1. call' = call /\ received' = received /\ sent' = sent /\ AutomatonTypeOK
    BY <1>2, TypeOfAutomaton DEF ownerVars
  <2>2. OthersStay(m)
    BY <1>2, <2>1, EventOthers
  <2>3. /\ queue'[m] = queue[m] \/ (queue[m] # <<>> /\ queue'[m] = Tail(queue[m]))
        /\ \A d \in Mailboxes \ {m} : queue'[d] = queue[d]
    BY DEF TypeOK
  <2>4. ~Hand(m)
    BY DEF Waiting, TaskCompleted, Hand
  <2>5. CASE Reject(m, ParseMessage(m, x), buffer[m])
    <3>1. /\ finished'[m] = finished[m] /\ outbox'[m] = outbox[m]
          /\ errorStatus'[m] # "AUT_OK"
      BY <2>5 DEF Reject, TypeOK
    <3>2. ~Hand(m)' /\ ~Asks(m)'
      BY <3>1 DEF Hand, Asks, Sane, Waiting, TaskCompleted
    <3>3. Stays(m)
      BY <2>1, <2>3, <3>2 DEF Stays
    <3> QED  BY <2>1, <2>2, <2>3, <3>1, <3>2, <3>3, QuietOrder
  <2>6. CASE Accept(m, ParseMessage(m, x), x, buffer[m])
    <3>1. state[m] \in {"RTS_Sent", "HoldState", "WaitingACK", "WaitingRTS", "WaitingMSG"}
      BY DEF Waiting, TaskCompleted, Coherent, SendStates, ReceiveStates
    <3>2. HoldStep(m, x) \/ GrantStep(m, x) \/ TransferStep(m, x) \/ FinishStep(m, x)
             \/ AcceptStep(m, x) \/ HeldStep(m, x) \/ IgnoreStep(m, x) \/ SaveStep(m, x)
      BY <2>1, <2>6, <3>1, StepsOfRound
    <3>3. /\ Hand(m)' => buffer'[m] = x
          /\ \/ outbox'[m] = outbox[m] \/ outbox'[m].id = 0
             \/ Asks(m) /\ outbox'[m] = buffer[m]
          /\ Asks(m)' => /\ Asks(m) /\ buffer'[m] = buffer[m]
                         /\ outbox'[m] = outbox[m] \/ outbox'[m].id = 0
      BY <2>1, <3>2, RoundOrderFacts
    <3>4. Stays(m) \/ Takes(m)
      <4>1. CASE Hand(m)'
        <5>1. CASE x.id = 0 /\ queue' = queue
          BY <2>1, <2>3, <3>3, <4>1, <5>1 DEF Stays
        <5>2. CASE queue[m] # <<>> /\ x = Head(queue[m]) /\ queue' = [queue EXCEPT ![m] = Tail(@)]
          <6>1. queue'[m] = Tail(queue[m]) /\ received'[m] = received[m]
            BY <2>1, <5>2 DEF TypeOK
          <6> QED  BY <2>4, <3>3, <4>1, <5>2, <6>1 DEF Takes
        <5> QED  BY <5>1, <5>2
      <4>2. CASE ~Hand(m)'
        BY <2>1, <2>3, <4>2 DEF Stays
      <4> QED  BY <4>1, <4>2
    <3> QED  BY <2>1, <2>2, <2>3, <3>3, <3>4, QuietOrder
  <2> QED  BY <1>2, <2>5, <2>6
<1> QED  BY <1>1, <1>2 DEF Handle, ProcessEvent

-----------------------------------------------------------------------------
(* The calls, the faults, and the step.                                    *)

(* The action of an event that starts or ends a call.                      *)
LEMMA CallActions ==
    ASSUME AutomatonTypeOK, NEW m \in Mailboxes, NEW x, NEW b,
           NEW event \in {"InitSending", "StartReceiving", "StartReceivingIgnoreQueue",
                          "ResetQueueEmpty", "ResetQueueNotEmpty"},
           Accept(m, event, x, b)
    PROVE  /\ event = "InitSending" =>
                 outbox'[m] = Signal(m, x.dst, "RTS") /\ buffer'[m] = x
           /\ event \in {"StartReceiving", "StartReceivingIgnoreQueue"} =>
                 finished'[m] = finished[m] /\ (outbox'[m] = outbox[m] \/ outbox'[m].id = 0)
           /\ event \in {"ResetQueueEmpty", "ResetQueueNotEmpty"} => outbox'[m] = outbox[m]
<1>1. PICK row \in Rows(m, event) : Perform(row[4], m, x, b)
  BY DEF Accept
<1>2. row \in TransitionTable /\ row[2] = event
  BY RowOfEvent
<1>3. /\ event = "InitSending" => row[4] = "SendRTS"
      /\ event \in {"StartReceiving", "StartReceivingIgnoreQueue"} =>
            row[4] \in {"Void", "DequeueAndCTS"}
      /\ event \in {"ResetQueueEmpty", "ResetQueueNotEmpty"} => row[4] = "ClearFinishedFlag"
  BY <1>2 DEF TransitionTable
<1>4. row[4] = "SendRTS" => outbox'[m] = Signal(m, x.dst, "RTS") /\ buffer'[m] = x
  BY <1>1 DEF Perform, DoSendRTS, AutomatonTypeOK
<1>5. row[4] = "Void" => finished'[m] = finished[m] /\ outbox'[m] = outbox[m]
  BY <1>1 DEF Perform, DoVoid
<1>6. row[4] = "DequeueAndCTS" => finished'[m] = finished[m] /\ outbox'[m].id = 0
  BY <1>1, SignalsHaveNoNumber DEF Perform, DoDequeueAndCTS, AutomatonTypeOK
<1>7. row[4] = "ClearFinishedFlag" => outbox'[m] = outbox[m]
  BY <1>1 DEF Perform, DoClearFinishedFlag
<1> QED  BY <1>3, <1>4, <1>5, <1>6, <1>7

LEMMA RejectActions ==
    ASSUME TypeOK, NEW m \in Mailboxes, NEW event, NEW b, Reject(m, event, b)
    PROVE  /\ outbox'[m] = outbox[m] /\ finished'[m] = finished[m]
           /\ errorStatus'[m] # "AUT_OK"
BY DEF Reject, TypeOK

(* The calls of the API keep the order.                                    *)
LEMMA SendOrder ==
    ASSUME TypeOK, TypeOK', OInv, NEW m \in Mailboxes, NEW d \in Mailboxes,
           Send(m, d) \/ SendConnectionless(m, d)
    PROVE  OInv'
<1>1. CASE Send(m, d)
  <2>1. /\ outbox[m] = EmptyMessage /\ call'[m] = "send" /\ queue' = queue
        /\ received' = received /\ sent' = [sent EXCEPT ![m] = @ + 1]
        /\ \A n \in Mailboxes \ {m} : call'[n] = call[n] /\ received'[n] = received[n]
        /\ \/ Accept(m, "InitSending", Letter(m, d), Letter(m, d))
           \/ Reject(m, "InitSending", Letter(m, d))
    BY <1>1 DEF Send, Idle, TypeOK, ProcessEvent, Letter
  <2>2. OthersStay(m) /\ AutomatonTypeOK
    BY <2>1, TypeOfAutomaton, EventOthers
  <2>3. ~Hand(m)'
    BY <2>1 DEF Hand
  <2>4. CASE Accept(m, "InitSending", Letter(m, d), Letter(m, d))
    <3>1. /\ outbox'[m] = Signal(m, Letter(m, d).dst, "RTS") /\ buffer'[m] = Letter(m, d)
      BY <2>2, <2>4, CallActions
    <3>2. /\ outbox'[m].id = 0 /\ buffer'[m].id = sent[m] + 1 /\ buffer'[m].src = m
          /\ buffer'[m].dst \in Mailboxes
      BY <3>1, SignalsHaveNoNumber, LetterFields
    <3> QED  BY <2>1, <2>2, <2>3, <3>2, NumberOrder
  <2>5. CASE Reject(m, "InitSending", Letter(m, d))
    <3>1. outbox'[m].id = 0 /\ ~Asks(m)'
      BY <2>1, <2>5, RejectActions DEF EmptyMessage, Asks, Sane
    <3> QED  BY <2>1, <2>2, <2>3, <3>1, NumberOrder
  <2> QED  BY <2>1, <2>4, <2>5
<1>2. CASE SendConnectionless(m, d)
  <2>1. /\ call[m] = "idle" /\ call' = call /\ queue' = queue /\ received' = received
        /\ sent' = [sent EXCEPT ![m] = @ + 1] /\ OthersStay(m)
    BY <1>2 DEF SendConnectionless, Idle, TypeOK, OthersStay
  <2>2. /\ outbox'[m].id = sent[m] + 1 /\ outbox'[m].src = m /\ outbox'[m].dst \in Mailboxes
    BY <1>2 DEF SendConnectionless, TypeOK
  <2>3. ~Hand(m)' /\ ~Asks(m)'
    BY <2>1 DEF Hand, Asks
  <2> QED  BY <2>1, <2>2, <2>3, NumberOrder
<1> QED  BY <1>1, <1>2

LEMMA ReceiveOrder ==
    ASSUME TypeOK, TypeOK', OInv, NEW m \in Mailboxes, Coherent(m),
           NEW flags, Receive(m, flags)
    PROVE  OInv'
<1>1. PICK event \in {"StartReceiving", "StartReceivingIgnoreQueue"} :
         \/ Accept(m, event, EmptyMessage, buffer[m])
         \/ Reject(m, event, buffer[m])
  BY DEF Receive, ProcessEvent
<1>2. /\ call[m] = "idle" /\ call'[m] = "receive" /\ queue' = queue
      /\ received' = received /\ sent' = sent /\ AutomatonTypeOK
      /\ \A n \in Mailboxes \ {m} : call'[n] = call[n] /\ received'[n] = received[n]
  BY TypeOfAutomaton DEF Receive, Idle, TypeOK
<1>3. OthersStay(m)
  BY <1>1, <1>2, EventOthers
<1>4. ~finished[m]
  BY <1>2 DEF Coherent, IdleStates
<1>5. finished'[m] = finished[m] /\ (outbox'[m] = outbox[m] \/ outbox'[m].id = 0)
  BY <1>1, <1>2, CallActions, RejectActions
<1>6. ~Hand(m)' /\ ~Asks(m)'
  BY <1>2, <1>4, <1>5 DEF Hand, Asks
<1>7. Stays(m)
  BY <1>2, <1>6 DEF Stays
<1> QED  BY <1>2, <1>3, <1>5, <1>6, <1>7, QuietOrder

(* receive() hands out the message its automaton has taken.                *)
LEMMA ReturnOrder ==
    ASSUME TypeOK, TypeOK', OInv, Clean, NEW m \in Mailboxes,
           ReturnFromSend(m) \/ ReturnFromReceive(m)
    PROVE  OInv'
<1>1. /\ call[m] \in {"send", "receive"} /\ call'[m] = "idle" /\ queue' = queue /\ sent' = sent
      /\ \A n \in Mailboxes \ {m} : call'[n] = call[n] /\ received'[n] = received[n]
      /\ AutomatonTypeOK
  BY TypeOfAutomaton DEF ReturnFromSend, ReturnFromReceive, Completed, TypeOK
<1>2. ResetEvent(m) \in {"ResetQueueEmpty", "ResetQueueNotEmpty"}
  BY DEF ResetEvent
<1>3. PICK b : Accept(m, ResetEvent(m), EmptyMessage, b) \/ Reject(m, ResetEvent(m), b)
  BY DEF ReturnFromSend, ReturnFromReceive, ProcessEvent
<1>4. OthersStay(m)
  BY <1>1, <1>3, EventOthers
<1>5. outbox'[m] = outbox[m]
  BY <1>1, <1>2, <1>3, CallActions, RejectActions
<1>6. ~Hand(m)' /\ ~Asks(m)'
  BY <1>1 DEF Hand, Asks
<1>7. Stays(m) \/ Returns(m)
  <2>1. CASE received'[m] = received[m]
    BY <1>1, <1>6, <2>1 DEF Stays
  <2>2. CASE received'[m] # received[m]
    <3>1. /\ Completed(m, "receive") /\ buffer[m].id # 0
          /\ received'[m] = Append(received[m], buffer[m])
      BY <2>2 DEF ReturnFromSend, ReturnFromReceive, TypeOK
    <3>2. Hand(m)
      BY <3>1 DEF Clean, Hand, Completed
    <3> QED  BY <1>1, <1>6, <3>1, <3>2 DEF Returns
  <2> QED  BY <2>1, <2>2
<1> QED  BY <1>1, <1>4, <1>5, <1>6, <1>7, QuietOrder

LEMMA FaultOrder ==
    ASSUME TypeOK, TypeOK', OInv, NEW m \in Mailboxes, Coherent(m), Fault(m)
    PROVE  OInv'
<1>1. CASE Interrupt(m)
  <2>1. Failure("SYSCALL_INTERRUPTED") \in Message /\ Failure("SYSCALL_INTERRUPTED").id = 0
    BY MadeUpMessages DEF Types, Failure
  <2>2. queue' = queue
    BY <1>1 DEF Interrupt
  <2>3. CASE Waiting(m) /\ Handle(m, Failure("SYSCALL_INTERRUPTED"))
    BY <2>1, <2>2, <2>3, RoundOrder
  <2>4. CASE Exit(m)
    BY <2>2, <2>4, ExitOrder
  <2> QED  BY <1>1, <2>3, <2>4 DEF Interrupt
<1>2. CASE Crash(m)
  BY <1>2, ExitOrder DEF Crash
<1>3. CASE Restart(m)
  <2>1. /\ OthersStay(m) /\ sent' = sent /\ received' = received /\ outbox' = outbox
        /\ call'[m] = "idle" /\ queue'[m] = <<>>
        /\ \A d \in Mailboxes \ {m} : queue'[d] = queue[d]
    BY <1>3 DEF Restart, OthersStay, TypeOK
  <2>2. ~Hand(m)' /\ ~Asks(m)'
    BY <2>1 DEF Hand, Asks
  <2>3. Stays(m)
    BY <2>1, <2>2 DEF Stays
  <2> QED  BY <2>1, <2>2, <2>3, QuietOrder
<1> QED  BY <1>1, <1>2, <1>3 DEF Fault

LEMMA StepOInv ==
    ASSUME TypeOK, TypeOK', OInv, Clean, NEW m \in Mailboxes, Coherent(m),
           Progress(m) \/ Owner(m) \/ Fault(m)
    PROVE  OInv'
<1>1. CASE ReceiveImmediate(m)
  <2>1. /\ queue[m] # <<>> /\ Waiting(m) /\ Handle(m, Head(queue[m]))
        /\ queue' = [queue EXCEPT ![m] = Tail(@)] /\ queue[m] \in Seq(Message)
    BY <1>1 DEF ReceiveImmediate, TypeOK
  <2>2. Head(queue[m]) \in Message
    BY <2>1
  <2> QED  BY <2>1, <2>2, RoundOrder
<1>2. CASE NothingReceived(m)
  <2>1. \A type \in {"TIMED_OUT", "EMPTY"} : Failure(type) \in Message /\ Failure(type).id = 0
    BY MadeUpMessages DEF Types, Failure
  <2>2. PICK type \in {"TIMED_OUT", "EMPTY"} : Handle(m, Failure(type))
    BY <1>2 DEF NothingReceived
  <2>3. Waiting(m) /\ queue' = queue
    BY <1>2 DEF NothingReceived
  <2> QED  BY <2>1, <2>2, <2>3, RoundOrder
<1>3. CASE SendImmediate(m)
  BY <1>3, PutOrder
<1>4. CASE ReturnFromSend(m) \/ ReturnFromReceive(m)
  BY <1>4, ReturnOrder
<1>5. CASE Owner(m)
  BY <1>5, SendOrder, ReceiveOrder DEF Owner, Listen
<1>6. CASE Fault(m)
  BY <1>6, FaultOrder
<1> QED  BY <1>1, <1>2, <1>3, <1>4, <1>5, <1>6 DEF Progress

LEMMA InitOInv == Init => OInv
<1> SUFFICES ASSUME Init PROVE OInv
  OBVIOUS
<1>1. \A d \in Mailboxes : Sorted(d)
  BY DEF Sorted, Init, Hand
<1>2. \A n, d \in Mailboxes : \A k : Before(n, d, k)
  BY DEF Before, Init, Hand
<1>3. \A n \in Mailboxes : Newer(n)
  BY <1>2 DEF Newer, Init, EmptyMessage
<1> QED  BY <1>1, <1>3 DEF OInv, AllSorted, AllNewer

LEMMA StutterOInv == OInv /\ UNCHANGED vars => OInv'
BY DEF OInv, AllSorted, AllNewer, Sorted, Newer, Before, Hand, Sane, vars, automatonVars,
       ownerVars, faultVars

(* The order is inductive with IInv where Clean holds, whatever goes       *)
(* wrong.                                                                  *)
LEMMA NextOInv == IInv /\ Clean /\ OInv /\ [Next]_vars => OInv'
<1> SUFFICES ASSUME IInv, Clean, OInv, [Next]_vars PROVE OInv'
  OBVIOUS
<1>1. TypeOK /\ \A m \in Mailboxes : Coherent(m)
  BY DEF IInv
<1>2. TypeOK'
  BY NextInv DEF IInv
<1> QED  BY <1>1, <1>2, StepOInv, StutterOInv DEF Next

-----------------------------------------------------------------------------
(* Who hands out only what it has received: everybody while nothing goes   *)
(* wrong and requests flow one way, and whatever goes wrong a mailbox that *)
(* is only listened on.                                                    *)

(* A mailbox somebody calls receive() on is not sent from: the servers of  *)
(* the logs.                                                               *)
ListenersDoNotSend ==
    \A m \in Listeners, d \in Mailboxes : <<m, d>> \notin Links \cup Notices

(* The buffer of such a mailbox holds a message only when its automaton    *)
(* has finished with it.                                                   *)
OnlyListens(m) ==
    /\ call[m] = "receive" => m \in Listeners
    /\ m \in Listeners => call[m] # "send" /\ (buffer[m].id # 0 => finished[m])

BInv == \A m \in Mailboxes : OnlyListens(m)

(* The buffer after an event that ends in a message, or in none.           *)
LEMMA ListenerActions ==
    ASSUME TypeOK, NEW m \in Mailboxes, NEW event, NEW x, NEW b \in Message,
           Accept(m, event, x, b) \/ Reject(m, event, b),
           b.id # 0 => finished[m] /\ event \in {"ResetQueueEmpty", "ResetQueueNotEmpty"},
           event # "InitSending"
    PROVE  buffer'[m].id # 0 => finished'[m]
<1>0. AutomatonTypeOK /\ EmptyMessage.id = 0
  BY TypeOfAutomaton DEF EmptyMessage
<1>1. CASE Reject(m, event, b)
  BY <1>1 DEF Reject, TypeOK
<1>2. CASE Accept(m, event, x, b)
  <2>1. PICK row \in Rows(m, event) : Perform(row[4], m, x, b)
    BY <1>2 DEF Accept
  <2>2. row \in TransitionTable /\ row[2] = event
    BY RowOfEvent
  <2>3. /\ row[4] # "SendRTS"
        /\ event \in {"ResetQueueEmpty", "ResetQueueNotEmpty"} => row[4] = "ClearFinishedFlag"
    BY <2>2 DEF TransitionTable
  <2>4. [b EXCEPT !.dst = Head(waitingList[m])].id = b.id /\ [b EXCEPT !.dst = x.src].id = b.id
    BY DEF Message
  <2>a. CASE row[4] = "ClearFinishedFlag"
    BY <1>0, <2>1, <2>a DEF Perform, DoClearFinishedFlag, TypeOK
  <2>b. CASE b.id = 0 /\ row[4] # "ClearFinishedFlag"
    <3>1. DoVoid(m, b) \/ DoEnqueueAndHold(m, x, b) \/ DoSendMsg(m, b) => buffer'[m] = b
      BY DEF DoVoid, DoEnqueueAndHold, DoSendMsg, TypeOK
    <3>2. DoSetFinishedFlag(m, b) \/ DoSendACK(m, x) \/ DoSaveMessage(m, x) => finished'[m]
      BY DEF DoSetFinishedFlag, DoSendACK, DoSaveMessage, TypeOK
    <3>3. DoDequeueAndCTS(m, b) => buffer'[m] = [b EXCEPT !.dst = Head(waitingList[m])]
      BY DEF DoDequeueAndCTS, TypeOK
    <3>4. DoSendCTS(m, x, b) => buffer'[m] = [b EXCEPT !.dst = x.src]
      BY DEF DoSendCTS, TypeOK
    <3>5. \/ DoVoid(m, b) \/ DoEnqueueAndHold(m, x, b) \/ DoSendMsg(m, b)
          \/ DoSetFinishedFlag(m, b) \/ DoSendACK(m, x) \/ DoSaveMessage(m, x)
          \/ DoDequeueAndCTS(m, b) \/ DoSendCTS(m, x, b)
      BY <2>1, <2>3, <2>b DEF Perform
    <3> QED  BY <2>4, <2>b, <3>1, <3>2, <3>3, <3>4, <3>5
  <2> QED  BY <2>2, <2>3, <2>a, <2>b
<1> QED  BY <1>1, <1>2

LEMMA OthersOnlyListen ==
    ASSUME BInv, NEW m \in Mailboxes, OthersStay(m), OnlyListens(m)'
    PROVE  BInv'
<1>1. ASSUME NEW n \in Mailboxes, n # m PROVE OnlyListens(n)'
  BY <1>1 DEF BInv, OnlyListens, OthersStay
<1> QED  BY <1>1 DEF BInv

LEMMA ExitBInv ==
    ASSUME TypeOK, BInv, NEW m \in Mailboxes, Exit(m)
    PROVE  BInv'
<1>1. OthersStay(m) /\ call'[m] = "exited" /\ buffer' = buffer /\ finished' = finished
  BY DEF Exit, OthersStay, automatonVars, TypeOK
<1>2. OnlyListens(m)'
  BY <1>1 DEF BInv, OnlyListens
<1> QED  BY <1>1, <1>2, OthersOnlyListen

LEMMA RoundBInv ==
    ASSUME TypeOK, BInv, NEW m \in Mailboxes, Waiting(m), NEW x, Handle(m, x)
    PROVE  BInv'
<1>1. CASE Exit(m)
  BY <1>1, ExitBInv
<1>2. CASE /\ UNCHANGED ownerVars
           /\ \/ Accept(m, ParseMessage(m, x), x, buffer[m])
              \/ Reject(m, ParseMessage(m, x), buffer[m]) /\ UNCHANGED override
  <2>1. call' = call /\ received' = received /\ buffer[m] \in Message /\ AutomatonTypeOK
    BY <1>2, TypeOfAutomaton DEF ownerVars, TypeOK
  <2>2. OthersStay(m)
    BY <1>2, <2>1, EventOthers
  <2>3. m \in Listeners => ~(buffer[m].id # 0)
    BY DEF BInv, OnlyListens, Waiting, TaskCompleted
  <2>4. ParseMessage(m, x) # "InitSending"
    BY ParseFacts
  <2>5. m \in Listeners => (buffer'[m].id # 0 => finished'[m])
    BY <1>2, <2>1, <2>3, <2>4, ListenerActions
  <2>6. OnlyListens(m)'
    BY <2>1, <2>5 DEF BInv, OnlyListens
  <2> QED  BY <2>2, <2>6, OthersOnlyListen
<1> QED  BY <1>1, <1>2 DEF Handle, ProcessEvent

(* No call and no fault puts a message into the buffer of such a mailbox.  *)
LEMMA StepBInv ==
    ASSUME ListenersDoNotSend, TypeOK, BInv, NEW m \in Mailboxes, Coherent(m),
           Progress(m) \/ Owner(m) \/ Fault(m)
    PROVE  BInv'
<1>0. AutomatonTypeOK /\ OnlyListens(m) /\ buffer[m] \in Message
  BY TypeOfAutomaton DEF BInv, TypeOK
<1>1. CASE ReceiveImmediate(m) \/ NothingReceived(m)
  BY <1>1, RoundBInv DEF ReceiveImmediate, NothingReceived
<1>2. CASE SendImmediate(m)
  BY <1>2 DEF SendImmediate, BInv, OnlyListens, automatonVars, ownerVars
<1>3. CASE ReturnFromSend(m) \/ ReturnFromReceive(m)
  <2>1. /\ call[m] \in {"send", "receive"} /\ call'[m] = "idle"
        /\ \A n \in Mailboxes \ {m} : call'[n] = call[n] /\ received'[n] = received[n]
    BY <1>3 DEF ReturnFromSend, ReturnFromReceive, Completed, TypeOK
  <2>2. PICK b \in Message :
           /\ m \in Listeners => b.id = 0
           /\ Accept(m, ResetEvent(m), EmptyMessage, b) \/ Reject(m, ResetEvent(m), b)
    <3>1. CASE ReturnFromSend(m)
      BY <1>0, <3>1 DEF ReturnFromSend, ProcessEvent, Completed, OnlyListens
    <3>2. CASE ReturnFromReceive(m)
      <4>1. [buffer[m] EXCEPT !.id = 0] \in Message /\ [buffer[m] EXCEPT !.id = 0].id = 0
        BY <1>0, MailboxAssumption DEF Message
      <4> QED  BY <3>2, <4>1 DEF ReturnFromReceive
    <3> QED  BY <1>3, <3>1, <3>2
  <2>3. OthersStay(m)
    BY <1>0, <2>1, <2>2, EventOthers
  <2>4. ResetEvent(m) # "InitSending"
    BY DEF ResetEvent
  <2>5. m \in Listeners => (buffer'[m].id # 0 => finished'[m])
    BY <2>2, <2>4, ListenerActions
  <2>6. OnlyListens(m)'
    BY <2>1, <2>5 DEF OnlyListens
  <2> QED  BY <2>3, <2>6, OthersOnlyListen
<1>4. CASE \E d \in Mailboxes : Send(m, d) \/ SendConnectionless(m, d)
  <2>1. PICK d \in Mailboxes : Send(m, d) \/ SendConnectionless(m, d)
    BY <1>4
  <2>2. m \notin Listeners
    BY <2>1 DEF ListenersDoNotSend, Send, SendConnectionless
  <2>3. CASE Send(m, d)
    <3>1. /\ call'[m] = "send"
          /\ \A n \in Mailboxes \ {m} : call'[n] = call[n] /\ received'[n] = received[n]
          /\ \/ Accept(m, "InitSending", Letter(m, d), Letter(m, d))
             \/ Reject(m, "InitSending", Letter(m, d))
      BY <2>3 DEF Send, TypeOK, ProcessEvent, Letter
    <3>2. OthersStay(m)
      BY <1>0, <3>1, EventOthers
    <3>3. OnlyListens(m)'
      BY <2>2, <3>1 DEF OnlyListens
    <3> QED  BY <3>2, <3>3, OthersOnlyListen
  <2>4. CASE SendConnectionless(m, d)
    <3>1. call' = call /\ OthersStay(m)
      BY <2>4 DEF SendConnectionless, TypeOK, OthersStay
    <3>2. OnlyListens(m)'
      BY <1>0, <2>2, <3>1 DEF OnlyListens
    <3> QED  BY <3>1, <3>2, OthersOnlyListen
  <2> QED  BY <2>1, <2>3, <2>4
<1>5. CASE Listen(m)
  <2>1. PICK event \in {"StartReceiving", "StartReceivingIgnoreQueue"} :
           \/ Accept(m, event, EmptyMessage, buffer[m])
           \/ Reject(m, event, buffer[m])
    BY <1>5 DEF Listen, Receive, ProcessEvent
  <2>2. /\ call[m] = "idle" /\ call'[m] = "receive" /\ m \in Listeners
        /\ \A n \in Mailboxes \ {m} : call'[n] = call[n] /\ received'[n] = received[n]
    BY <1>5 DEF Listen, Receive, Idle, TypeOK
  <2>3. OthersStay(m)
    BY <1>0, <2>1, <2>2, EventOthers
  <2>4. ~(buffer[m].id # 0)
    BY <1>0, <2>2 DEF OnlyListens, Coherent, IdleStates
  <2>5. buffer'[m].id # 0 => finished'[m]
    BY <1>0, <2>1, <2>4, ListenerActions
  <2>6. OnlyListens(m)'
    BY <2>2, <2>5 DEF OnlyListens
  <2> QED  BY <2>3, <2>6, OthersOnlyListen
<1>6. CASE Interrupt(m) \/ Crash(m)
  BY <1>6, RoundBInv, ExitBInv DEF Interrupt, Crash
<1>7. CASE Restart(m)
  <2>1. /\ OthersStay(m) /\ call'[m] = "idle" /\ buffer'[m].id = 0
    BY <1>7 DEF Restart, OthersStay, TypeOK, EmptyMessage
  <2>2. OnlyListens(m)'
    BY <2>1 DEF OnlyListens
  <2> QED  BY <2>1, <2>2, OthersOnlyListen
<1> QED
  BY <1>1, <1>2, <1>3, <1>4, <1>5, <1>6, <1>7 DEF Progress, Owner, Fault

LEMMA BInvAlways == ListenersDoNotSend => (Spec => []BInv)
<1> SUFFICES ASSUME ListenersDoNotSend PROVE Spec => []BInv
  OBVIOUS
<1>1. Init => BInv
  BY DEF Init, BInv, OnlyListens, EmptyMessage
<1>2. IInv /\ BInv /\ [Next]_vars => BInv'
  <2> SUFFICES ASSUME IInv, BInv, [Next]_vars PROVE BInv'
    OBVIOUS
  <2>1. TypeOK /\ \A m \in Mailboxes : Coherent(m)
    BY DEF IInv
  <2>2. CASE UNCHANGED vars
    BY <2>2 DEF BInv, OnlyListens, vars, automatonVars, ownerVars
  <2> QED  BY <2>1, <2>2, StepBInv DEF Next
<1>3. Spec => []IInv
  BY InitInv, NextInv, PTL DEF Spec
<1> QED  BY <1>1, <1>2, <1>3, PTL DEF Spec

(* The owner of a mailbox gets the messages of one sender in the order in  *)
(* which they were sent, none twice and none that was meant for somebody   *)
(* else, through holds, full queues and time limits.  It does when nobody  *)
(* sends to a mailbox that sends to it and no signal and no kill comes     *)
(* between; and it does through signals, kills and restarts when the       *)
(* mailboxes that are listened on are not sent from.  Otherwise a mailbox  *)
(* that has been wedged in a send() hands its own message to its owner.    *)
THEOREM MessagesArriveInOrder ==
    QuietOneWay \/ ListenersDoNotSend => (Spec => []ReceivedInOrder)
<1> SUFFICES ASSUME QuietOneWay \/ ListenersDoNotSend PROVE Spec => []ReceivedInOrder
  OBVIOUS
<1>1. Spec => []IInv
  BY InitInv, NextInv, PTL DEF Spec
<1>2. Spec => []Clean
  <2>1. CASE QuietOneWay
    <3>1. SInv => Clean
      BY DEF SInv, AllSane, Sane, Clean, Completed, TaskCompleted
    <3> QED  BY <2>1, <3>1, SInvAlways, PTL
  <2>2. CASE ListenersDoNotSend
    <3>1. BInv => Clean
      BY DEF BInv, OnlyListens, Clean, Completed
    <3> QED  BY <2>2, <3>1, BInvAlways, PTL
  <2> QED  BY <2>1, <2>2
<1>3. (IInv /\ Clean) /\ OInv /\ [Next]_vars => OInv'
  BY NextOInv
<1>4. OInv => ReceivedInOrder
  BY DEF OInv, AllSorted, Sorted, ReceivedInOrder
<1> QED  BY <1>1, <1>2, <1>3, <1>4, InitOInv, PTL DEF Spec
-----------------------------------------------------------------------------
(* The promise of send(): the handshake implements ReliableSend.           *)

(* A message has been received, or its receiver is about to hand it out.   *)
Got(msg) ==
    \/ \E i \in DOMAIN received[msg.dst] : received[msg.dst][i] = msg
    \/ Hand(msg.dst) /\ buffer[msg.dst] = msg

(* While requests flow one way that is all that Delivered can mean: the    *)
(* buffer of a sender never holds a message it could receive.              *)
GotIsDelivered == \A msg \in LinkMessages : Delivered(msg.dst, msg) <=> Got(msg)

LEMMA LinkMessageFields ==
    /\ \A msg \in LinkMessages :
          /\ <<msg.src, msg.dst>> \in Links /\ msg.type = "MESSAGE" /\ msg.id # 0
          /\ msg.src \in Mailboxes /\ msg.dst \in Mailboxes
    /\ \A x \in Message :
          x.type = "MESSAGE" /\ x.id # 0 /\ <<x.src, x.dst>> \in Links => x \in LinkMessages
<1>1. Links \subseteq Mailboxes \X Mailboxes /\ MaxSends \in Nat
  BY MailboxAssumption
<1>2. ASSUME NEW msg \in LinkMessages
      PROVE  /\ <<msg.src, msg.dst>> \in Links /\ msg.type = "MESSAGE" /\ msg.id # 0
             /\ msg.src \in Mailboxes /\ msg.dst \in Mailboxes
  <2>1. PICK link \in Links, i \in 1 .. MaxSends :
           msg = [type |-> "MESSAGE", src |-> link[1], dst |-> link[2], id |-> i]
    BY <1>2 DEF LinkMessages
  <2>2. link = <<link[1], link[2]>> /\ link[1] \in Mailboxes /\ link[2] \in Mailboxes
    BY <1>1
  <2> QED  BY <1>1, <2>1, <2>2
<1>3. ASSUME NEW x \in Message, x.type = "MESSAGE", x.id # 0, <<x.src, x.dst>> \in Links
      PROVE  x \in LinkMessages
  <2>1. x = [type |-> x.type, src |-> x.src, dst |-> x.dst, id |-> x.id] /\ x.id \in 0 .. MaxSends
    BY DEF Message
  <2>2. x.id \in 1 .. MaxSends
    BY <1>1, <1>3, <2>1
  <2>3. PICK link \in Links : link = <<x.src, x.dst>>
    BY <1>3
  <2>4. x = [type |-> "MESSAGE", src |-> link[1], dst |-> link[2], id |-> x.id]
    BY <1>3, <2>1, <2>3
  <2> QED  BY <2>2, <2>4 DEF LinkMessages
<1> QED  BY <1>2, <1>3

(* Where nothing goes wrong the two meanings agree.                        *)
LEMMA DeliveredIsGot == OneWay /\ IInv /\ SInv => GotIsDelivered
<1> SUFFICES ASSUME OneWay, IInv, SInv, NEW msg \in LinkMessages
             PROVE  Delivered(msg.dst, msg) <=> Got(msg)
  BY DEF GotIsDelivered
<1>1. /\ <<msg.src, msg.dst>> \in Links /\ msg.dst \in Mailboxes
  BY LinkMessageFields
<1>2. PICK d \in Mailboxes : d = msg.dst
  BY <1>1
<1>3. Coherent(d) /\ Sane(d) /\ Peers(d) /\ TypeOK
  BY DEF IInv, SInv, AllSane, AllPeers
<1>4. finished[d] => call[d] \in {"send", "receive"}
  BY <1>3 DEF Coherent, Sane, IdleStates, TypeOK
<1>5. call[d] = "send" => buffer[d] # msg
  BY <1>2, <1>3 DEF Peers, OneWay
<1>6. finished[d] /\ buffer[d] = msg <=> Hand(d) /\ buffer[d] = msg
  BY <1>4, <1>5 DEF Hand
<1> QED  BY <1>2, <1>6 DEF Delivered, Got

(* What the promise sees of a step of m.                                   *)
SamePending == \A n \in Mailboxes : PendingOf(n)' = PendingOf(n)
SameGot == \A msg \in LinkMessages : Got(msg)' <=> Got(msg)

LEMMA OthersPending ==
    ASSUME NEW m \in Mailboxes, OthersStay(m)
    PROVE  /\ \A n \in Mailboxes \ {m} : PendingOf(n)' = PendingOf(n)
           /\ PendingOf(m)' = PendingOf(m) => SamePending
BY DEF PendingOf, OthersStay, SamePending

(* Only what belongs to m can change.                                      *)
LEMMA OthersGot ==
    ASSUME NEW m \in Mailboxes, OthersStay(m)
    PROVE  /\ \A msg \in LinkMessages : msg.dst # m => (Got(msg)' <=> Got(msg))
           /\ received'[m] = received[m] /\ ~Hand(m)
                 /\ (Hand(m)' => buffer'[m].type # "MESSAGE") => SameGot
<1>1. ASSUME NEW msg \in LinkMessages, msg.dst # m PROVE Got(msg)' <=> Got(msg)
  <2>1. PICK d \in Mailboxes \ {m} : d = msg.dst
    BY <1>1, LinkMessageFields
  <2> QED  BY <2>1 DEF Got, Hand, OthersStay
<1>2. ASSUME received'[m] = received[m], ~Hand(m), Hand(m)' => buffer'[m].type # "MESSAGE",
             NEW msg \in LinkMessages, msg.dst = m
      PROVE  Got(msg)' <=> Got(msg)
  BY <1>2, LinkMessageFields DEF Got
<1> QED  BY <1>1, <1>2 DEF SameGot

LEMMA PromiseTaken ==
    ASSUME GotIsDelivered, GotIsDelivered'
    PROVE  /\ TakenMessages = {msg \in LinkMessages : Got(msg)}
           /\ TakenMessages' = {msg \in LinkMessages : Got(msg)'}
BY DEF GotIsDelivered, TakenMessages

(* A step in which neither changes is not visible.                         *)
LEMMA PromiseStutters ==
    ASSUME GotIsDelivered, GotIsDelivered', SamePending, SameGot
    PROVE  UNCHANGED Promise!vars
<1>1. TakenMessages' = TakenMessages
  BY PromiseTaken DEF SameGot
<1>2. \A msg \in LinkMessages : PendingOf(msg.src)' = PendingOf(msg.src)
  BY LinkMessageFields DEF SamePending
<1>3. TakenMessages \subseteq LinkMessages
  BY DEF TakenMessages
<1>4. ReturnedMessages' = ReturnedMessages
  BY <1>1, <1>2, <1>3 DEF ReturnedMessages
<1> QED  BY <1>1, <1>4 DEF Promise!vars, SamePending

(* send() is called: the message is pending, and nobody has it yet.        *)
LEMMA SubmitStep ==
    ASSUME OneWay, TypeOK, TypeOK', TInv, SInv, OInv, GotIsDelivered, GotIsDelivered',
           NEW m \in Mailboxes, Coherent(m), NEW d \in Mailboxes, Send(m, d)
    PROVE  Promise!Next
<1> DEFINE x == Letter(m, d)
<1>1. Sane(m) /\ call[m] = "idle" /\ sent[m] < MaxSends /\ sent[m] \in Nat
  BY DEF SInv, AllSane, Send, Idle, TypeOK
<1>2. errorStatus'[m] = "AUT_OK"
  <2>1. \E msg : ProcessEvent(m, "InitSending", msg, msg)
    BY DEF Send
  <2> QED  BY <1>1, <2>1, CallAccepted
<1>3. /\ <<m, d>> \in Links /\ OthersStay(m) /\ call'[m] = "send" /\ buffer'[m] = x
      /\ ~finished[m] /\ ~finished'[m] /\ received' = received
  BY <1>2, SendFacts
<1>4. /\ x.type = "MESSAGE" /\ x.src = m /\ x.dst = d /\ x.id = sent[m] + 1 /\ x.id # 0
  BY LetterFields
<1>5. x \in Message
  BY <1>3 DEF TypeOK
<1> HIDE DEF x
<1>6. x \in LinkMessages
  BY <1>3, <1>4, <1>5, LinkMessageFields
<1>7. SameGot
  BY <1>3, OthersGot DEF Hand
<1>8. ~Got(x)
  <2>1. Before(m, d, sent[m] + 1) /\ ~(sent[m] + 1 < sent[m] + 1)
    BY <1>1 DEF OInv, AllNewer, Newer
  <2> QED  BY <1>4, <2>1 DEF Before, Got
<1>9. \A n \in Mailboxes : x \notin PendingOf(n)
  <2> SUFFICES ASSUME NEW n \in Mailboxes, x \in PendingOf(n) PROVE FALSE
    OBVIOUS
  <2>1. call[n] = "send" /\ buffer[n] = x /\ n # m /\ Sane(n)
    BY <1>1 DEF PendingOf, SInv, AllSane
  <2>2. buffer[n].src = n
    BY <2>1, TInvParts DEF AllLetters, LettersOK
  <2> QED  BY <1>4, <2>1, <2>2
<1>10. /\ PendingOf(m) = {} /\ PendingOf(m)' = {x}
       /\ \A n \in Mailboxes \ {m} : PendingOf(n)' = PendingOf(n)
  BY <1>1, <1>3, OthersPending DEF PendingOf
<1>11. TakenMessages' = TakenMessages /\ x \notin TakenMessages /\ x \notin ReturnedMessages
  BY <1>7, <1>8, PromiseTaken DEF SameGot, ReturnedMessages
<1>12. ReturnedMessages' = ReturnedMessages
  <2> SUFFICES ASSUME NEW msg \in TakenMessages
               PROVE  msg \notin PendingOf(msg.src)' <=> msg \notin PendingOf(msg.src)
    BY <1>11 DEF ReturnedMessages
  <2>1. PICK n \in Mailboxes : n = msg.src
    BY LinkMessageFields DEF TakenMessages
  <2>2. msg # x
    BY <1>11
  <2> QED  BY <1>10, <2>1, <2>2
<1>13. [n \in Mailboxes |-> PendingOf(n)]'
         = [[n \in Mailboxes |-> PendingOf(n)] EXCEPT ![m] = {x}]
  BY <1>10
<1>14. Promise!Submit(m, x)
  BY <1>9, <1>10, <1>11, <1>12, <1>13 DEF Promise!Submit
<1> QED  BY <1>6, <1>14 DEF Promise!Next

(* The receiver takes the message: its sender waits for that, and the      *)
(* receiver has nothing as new of it.                                      *)
LEMMA TakeStep ==
    ASSUME OneWay, SInv, OInv, GotIsDelivered, GotIsDelivered',
           NEW m \in Mailboxes, NEW x \in Message, Round(m, x), AcceptStep(m, x),
           x.type = "SYSCALL_INTERRUPTED" => x.src = NoName
    PROVE  Promise!Next
<1>1. /\ x.src \in Mailboxes \ {m} /\ x.dst = m /\ x.type = "MESSAGE"
      /\ Letters(x.src, m) >= 1 /\ \E i \in DOMAIN queue[m] : x = queue[m][i]
      /\ call[m] = "receive" /\ buffer'[m] = x /\ finished'[m] /\ call'[m] = call[m]
  BY AcceptFacts
<1>2. /\ AllTokens /\ AllLetters /\ TokensTyped /\ ~finished[m] /\ TypeOK
      /\ OthersStay(m) /\ received' = received
  BY RoundStart DEF Round
<1>3. PICK s \in Mailboxes \ {m} : s = x.src
  BY <1>1
<1>4. Sane(s) /\ Peers(s) /\ Sorted(m) /\ TokenOK(s, m) /\ LettersOK(s)
  BY <1>2 DEF SInv, AllSane, AllPeers, OInv, AllSorted, AllTokens, AllLetters
<1>5. Transferring(s, m)
  BY <1>1, <1>2, <1>3, <1>4 DEF TokenOK, TokensTyped
<1>6. x = buffer[s] /\ x.id # 0 /\ call[s] = "send" /\ <<s, m>> \in Links
  BY <1>1, <1>3, <1>4, <1>5 DEF LettersOK, Transferring, SendingTo, Peers
<1>7. x \in LinkMessages
  BY <1>1, <1>3, <1>6, LinkMessageFields
<1>8. ~Got(x)
  <2>1. ~Hand(m)
    BY <1>2 DEF Hand
  <2>2. \A i \in DOMAIN received[m] : received[m][i].src = x.src => received[m][i].id < x.id
    <3>1. PICK j \in DOMAIN queue[m] : queue[m][j] = x
      BY <1>1
    <3>2. queue[m][j].id # 0
      BY <1>6, <3>1
    <3>3. \A i \in DOMAIN received[m] :
             received[m][i].src = queue[m][j].src => received[m][i].id < queue[m][j].id
      BY <1>4, <3>2 DEF Sorted
    <3> QED  BY <3>1, <3>3
  <2>3. x.id \in Nat /\ ~(x.id < x.id)
    BY MailboxAssumption DEF Message
  <2> QED  BY <1>1, <2>1, <2>2, <2>3 DEF Got
<1>9. \A msg \in LinkMessages : Got(msg)' <=> Got(msg) \/ msg = x
  <2> SUFFICES ASSUME NEW msg \in LinkMessages PROVE Got(msg)' <=> Got(msg) \/ msg = x
    OBVIOUS
  <2>1. CASE msg.dst # m
    BY <1>1, <1>2, <2>1, OthersGot
  <2>2. CASE msg.dst = m
    BY <1>1, <1>2, <2>2 DEF Got, Hand
  <2> QED  BY <2>1, <2>2
<1>10. SamePending
  BY <1>1, <1>2, OthersPending DEF PendingOf
<1>11. TakenMessages' = TakenMessages \cup {x} /\ x \notin TakenMessages
  BY <1>7, <1>8, <1>9, PromiseTaken
<1>12. x \in PendingOf(s) /\ x \in PendingOf(s)'
  BY <1>6, <1>10 DEF PendingOf, SamePending
<1>13. ReturnedMessages' = ReturnedMessages
  <2>1. TakenMessages \subseteq LinkMessages
    BY DEF TakenMessages
  <2>2. \A msg \in LinkMessages : PendingOf(msg.src)' = PendingOf(msg.src)
    BY <1>10, LinkMessageFields DEF SamePending
  <2>3. x \in PendingOf(x.src)' /\ x \in PendingOf(x.src)
    BY <1>3, <1>12
  <2> QED  BY <1>7, <1>11, <2>1, <2>2, <2>3 DEF ReturnedMessages
<1>14. [n \in Mailboxes |-> PendingOf(n)]' = [n \in Mailboxes |-> PendingOf(n)]
  BY <1>10 DEF SamePending
<1>15. Promise!Take(s, x)
  BY <1>11, <1>12, <1>13, <1>14 DEF Promise!Take
<1> QED  BY <1>7, <1>15 DEF Promise!Next

(* send() returns, and the receiver has the message.                       *)
LEMMA ReturnFromSendStep ==
    ASSUME OneWay, TypeOK, TypeOK', TInv, SInv, GotIsDelivered, GotIsDelivered',
           NEW m \in Mailboxes, Coherent(m), ReturnFromSend(m)
    PROVE  Promise!Next
<1> DEFINE x == buffer[m]
<1>1. /\ Sane(m) /\ call[m] = "send" /\ call'[m] = "idle" /\ TaskCompleted(m)
      /\ outbox[m] = EmptyMessage /\ queue' = queue /\ received' = received
      /\ \A n \in Mailboxes \ {m} : call'[n] = call[n] /\ received'[n] = received[n]
  BY DEF SInv, AllSane, ReturnFromSend, Completed, TypeOK
<1>2. finished[m] /\ Peers(m)
  BY <1>1 DEF TaskCompleted, Sane, SInv, AllPeers
<1>3. OthersStay(m)
  BY <1>1, TypeOfAutomaton, EventOthers DEF ReturnFromSend, ProcessEvent
<1>4. /\ x.type = "MESSAGE" /\ x.id # 0 /\ x.src = m /\ x.dst \in Mailboxes
      /\ <<x.src, x.dst>> \in Links /\ x \in Message /\ Taken(x.dst, x)
  BY <1>1, <1>2, TInvParts DEF AllLetters, LettersOK, AllAnswered, AnsweredOK, Peers, TypeOK
<1> HIDE DEF x
<1>5. x \in LinkMessages
  BY <1>4, LinkMessageFields
<1>6. Got(x)
  BY <1>4, <1>5 DEF Taken, GotIsDelivered, Delivered
<1>7. SameGot
  <2>1. ~Hand(m) /\ ~Hand(m)' /\ received'[m] = received[m]
    BY <1>1 DEF Hand
  <2> QED  BY <1>3, <2>1, OthersGot
<1>8. /\ PendingOf(m) = {x} /\ PendingOf(m)' = {}
      /\ \A n \in Mailboxes \ {m} : PendingOf(n)' = PendingOf(n)
  BY <1>1, <1>3, OthersPending DEF PendingOf, x
<1>9. TakenMessages' = TakenMessages /\ x \in TakenMessages
  BY <1>5, <1>6, <1>7, PromiseTaken DEF SameGot
<1>10. ReturnedMessages' = ReturnedMessages \cup {x}
  <2>1. \A msg \in TakenMessages :
           msg \notin PendingOf(msg.src)' <=> msg \notin PendingOf(msg.src) \/ msg = x
    <3> SUFFICES ASSUME NEW msg \in TakenMessages
                 PROVE  msg \notin PendingOf(msg.src)' <=> msg \notin PendingOf(msg.src) \/ msg = x
      OBVIOUS
    <3>1. PICK n \in Mailboxes : n = msg.src
      BY LinkMessageFields DEF TakenMessages
    <3>2. CASE n = m
      BY <1>8, <3>1, <3>2
    <3>3. CASE n # m
      BY <1>4, <1>8, <3>1, <3>3
    <3> QED  BY <3>2, <3>3
  <2> QED  BY <1>9, <2>1 DEF ReturnedMessages
<1>11. [n \in Mailboxes |-> PendingOf(n)]'
         = [[n \in Mailboxes |-> PendingOf(n)] EXCEPT ![m] = {}]
  BY <1>8
<1>12. Promise!Return(m, x)
  BY <1>8, <1>9, <1>10, <1>11 DEF Promise!Return
<1> QED  BY <1>5, <1>12 DEF Promise!Next

(* Every other step is one the promise does not see.                       *)
LEMMA RoundPromise ==
    ASSUME OneWay, SInv, OInv, GotIsDelivered, GotIsDelivered',
           NEW m \in Mailboxes, NEW x \in Message, Round(m, x),
           x.type = "SYSCALL_INTERRUPTED" => x.src = NoName,
           HoldStep(m, x) \/ GrantStep(m, x) \/ TransferStep(m, x) \/ FinishStep(m, x)
              \/ AcceptStep(m, x) \/ HeldStep(m, x) \/ IgnoreStep(m, x) \/ SaveStep(m, x)
    PROVE  [Promise!Next]_(Promise!vars)
<1>1. /\ ~finished[m] /\ TypeOK /\ OthersStay(m) /\ received' = received /\ call' = call
      /\ call[m] \in {"send", "receive"}
      /\ call[m] = "send" => state[m] \in {"RTS_Sent", "HoldState", "WaitingACK"}
      /\ call[m] = "receive" => state[m] \in {"WaitingRTS", "WaitingMSG"}
  BY RoundStart DEF Round
<1>2. CASE AcceptStep(m, x)
  BY <1>2, TakeStep
<1>3. ASSUME finished'[m] /\ call[m] = "receive" => buffer'[m].type # "MESSAGE",
             call[m] = "send" => buffer'[m] = buffer[m]
      PROVE  UNCHANGED Promise!vars
  <2>1. SameGot
    BY <1>1, <1>3, OthersGot DEF Hand
  <2>2. SamePending
    BY <1>1, <1>3, OthersPending DEF PendingOf
  <2> QED  BY <2>1, <2>2, PromiseStutters
<1>4. CASE HoldStep(m, x)
  <2>1. buffer'[m] = buffer[m] /\ finished'[m] = finished[m]
    BY <1>1, <1>4 DEF HoldStep, DoEnqueueAndHold, TypeOK
  <2> QED  BY <1>1, <1>3, <2>1
<1>5. CASE GrantStep(m, x)
  <2>1. finished'[m] = finished[m] /\ call[m] # "send"
    BY <1>1, <1>5 DEF GrantStep, DoSendCTS
  <2> QED  BY <1>1, <1>3, <2>1
<1>6. CASE TransferStep(m, x) \/ FinishStep(m, x)
  <2>1. buffer'[m] = buffer[m] /\ call[m] = "send"
    BY <1>1, <1>6 DEF TransferStep, DoSendMsg, FinishStep, DoSetFinishedFlag, TypeOK
  <2> QED  BY <1>1, <1>3, <2>1
<1>7. CASE HeldStep(m, x) \/ IgnoreStep(m, x)
  <2>1. buffer'[m] = buffer[m] /\ finished'[m] = finished[m]
    BY <1>1, <1>7 DEF HeldStep, IgnoreStep, DoVoid, TypeOK
  <2> QED  BY <1>1, <1>3, <2>1
<1>8. CASE SaveStep(m, x)
  <2>1. buffer'[m] = x /\ call[m] # "send" /\ x.type # "MESSAGE"
    BY <1>1, <1>8 DEF SaveStep, DoSaveMessage, TypeOK
  <2> QED  BY <1>1, <1>3, <2>1
<1> QED  BY <1>2, <1>4, <1>5, <1>6, <1>7, <1>8

(* Neither are these calls.                                                *)
LEMMA CallPromise ==
    ASSUME OneWay, TypeOK, TypeOK', TInv, SInv, GotIsDelivered, GotIsDelivered',
           NEW m \in Mailboxes, Coherent(m),
           \/ SendImmediate(m) \/ ReturnFromReceive(m) \/ Listen(m)
           \/ \E d \in Mailboxes : SendConnectionless(m, d)
    PROVE  UNCHANGED Promise!vars
<1>1. CASE SendImmediate(m)
  <2>1. /\ buffer' = buffer /\ call' = call /\ received' = received /\ finished' = finished
    BY <1>1 DEF SendImmediate, automatonVars, ownerVars
  <2>2. SameGot /\ SamePending
    BY <2>1 DEF SameGot, Got, Hand, SamePending, PendingOf
  <2> QED  BY <2>2, PromiseStutters
<1>2. CASE Listen(m)
  <2>1. PICK event \in {"StartReceiving", "StartReceivingIgnoreQueue"} :
           \/ Accept(m, event, EmptyMessage, buffer[m])
           \/ Reject(m, event, buffer[m])
    BY <1>2 DEF Listen, Receive, ProcessEvent
  <2>2. /\ call[m] = "idle" /\ call'[m] = "receive" /\ received' = received /\ AutomatonTypeOK
        /\ \A n \in Mailboxes \ {m} : call'[n] = call[n] /\ received'[n] = received[n]
    BY <1>2, TypeOfAutomaton DEF Listen, Receive, Idle, TypeOK
  <2>3. OthersStay(m)
    BY <2>1, <2>2, EventOthers
  <2>4. ~finished[m] /\ finished'[m] = finished[m]
    BY <2>1, <2>2, CallActions, RejectActions DEF Coherent, IdleStates
  <2>5. SameGot
    BY <2>2, <2>3, <2>4, OthersGot DEF Hand
  <2>6. SamePending
    BY <2>2, <2>3, OthersPending DEF PendingOf
  <2> QED  BY <2>5, <2>6, PromiseStutters
<1>3. CASE \E d \in Mailboxes : SendConnectionless(m, d)
  <2>1. call[m] = "idle" /\ call' = call /\ received' = received /\ OthersStay(m)
    BY <1>3 DEF SendConnectionless, Idle, TypeOK, OthersStay
  <2>2. SameGot
    BY <2>1, OthersGot DEF Hand
  <2>3. SamePending
    BY <2>1, OthersPending DEF PendingOf
  <2> QED  BY <2>2, <2>3, PromiseStutters
<1>4. CASE ReturnFromReceive(m)
  <2>1. /\ call[m] = "receive" /\ call'[m] = "idle" /\ TaskCompleted(m) /\ Sane(m)
        /\ received'[m] = IF buffer[m].id = 0 THEN received[m] ELSE Append(received[m], buffer[m])
        /\ \A n \in Mailboxes \ {m} : call'[n] = call[n] /\ received'[n] = received[n]
    BY <1>4 DEF ReturnFromReceive, Completed, TypeOK, SInv, AllSane
  <2>2. Hand(m) /\ ~Hand(m)'
    BY <2>1 DEF Hand, TaskCompleted, Sane
  <2>3. OthersStay(m)
    BY <1>4, <2>1, TypeOfAutomaton, EventOthers DEF ReturnFromReceive
  <2>4. SameGot
    <3> SUFFICES ASSUME NEW msg \in LinkMessages PROVE Got(msg)' <=> Got(msg)
      BY DEF SameGot
    <3>1. CASE msg.dst # m
      BY <2>3, <3>1, OthersGot
    <3>2. CASE msg.dst = m
      <4>1. msg.id # 0 /\ received[m] \in Seq(Message)
        BY LinkMessageFields DEF TypeOK
      <4>2. CASE buffer[m].id = 0
        BY <2>1, <2>2, <3>2, <4>1, <4>2 DEF Got
      <4>3. CASE buffer[m].id # 0
        <5>1. received'[m] = Append(received[m], buffer[m])
          BY <2>1, <4>3
        <5>2. \A i \in DOMAIN received'[m] :
                 \/ i \in DOMAIN received[m] /\ received'[m][i] = received[m][i]
                 \/ received'[m][i] = buffer[m]
          BY <4>1, <5>1
        <5>3. \A i \in DOMAIN received[m] :
                 i \in DOMAIN received'[m] /\ received'[m][i] = received[m][i]
          BY <4>1, <5>1
        <5>4. Len(received[m]) + 1 \in DOMAIN received'[m]
              /\ received'[m][Len(received[m]) + 1] = buffer[m]
          BY <4>1, <5>1
        <5>5. (\E i \in DOMAIN received'[m] : received'[m][i] = msg)
                <=> (\E i \in DOMAIN received[m] : received[m][i] = msg) \/ buffer[m] = msg
          BY <5>2, <5>3, <5>4
        <5> QED  BY <2>2, <3>2, <5>5 DEF Got
      <4> QED  BY <4>2, <4>3
    <3> QED  BY <3>1, <3>2
  <2>5. SamePending
    BY <2>1, <2>3, OthersPending DEF PendingOf
  <2> QED  BY <2>4, <2>5, PromiseStutters
<1> QED  BY <1>1, <1>2, <1>3, <1>4

(* Every step is a step of the promise, or one it does not see.            *)
LEMMA StepPromise ==
    ASSUME QuietOneWay, TypeOK, TypeOK', TInv, SInv, OInv, GotIsDelivered, GotIsDelivered',
           NEW m \in Mailboxes, Coherent(m), Progress(m) \/ Owner(m) \/ Fault(m)
    PROVE  [Promise!Next]_(Promise!vars)
<1>0. OneWay /\ AllAddressed
  BY TInvParts DEF QuietOneWay
<1>1. CASE ReceiveImmediate(m)
  <2>1. /\ queue[m] # <<>> /\ Waiting(m) /\ Handle(m, Head(queue[m]))
        /\ queue' = [queue EXCEPT ![m] = Tail(@)]
    BY <1>1 DEF ReceiveImmediate
  <2>2. Head(queue[m]) \in Message
    BY <1>0, <2>1, TakenWasCounted
  <2> QED  BY <1>0, <2>1, <2>2, RoundAccepted, RoundPromise
<1>2. CASE NothingReceived(m)
  <2>1. \A type \in {"TIMED_OUT", "EMPTY"} :
           /\ Failure(type) \in Message /\ Failure(type).type = type
           /\ Failure(type).dst = NoName
    BY MadeUpMessages DEF Types, Failure
  <2>2. PICK type \in {"TIMED_OUT", "EMPTY"} : Handle(m, Failure(type))
    BY <1>2 DEF NothingReceived
  <2>3. /\ Waiting(m) /\ queue' = queue
        /\ "TIMED" \in ReceiveOptions(m) \/ "NONBLOCKING" \in ReceiveOptions(m)
    BY <1>2 DEF NothingReceived
  <2>4. call[m] = "receive"
    BY <2>3 DEF ReceiveOptions, Waiting
  <2> HIDE DEF Failure
  <2> QED  BY <1>0, <2>1, <2>2, <2>3, <2>4, RoundAccepted, RoundPromise
<1>3. CASE SendImmediate(m) \/ ReturnFromReceive(m)
  BY <1>0, <1>3, CallPromise
<1>4. CASE ReturnFromSend(m)
  BY <1>0, <1>4, ReturnFromSendStep
<1>5. CASE Owner(m)
  BY <1>0, <1>5, SubmitStep, CallPromise DEF Owner
<1>6. CASE Fault(m)
  BY <1>6 DEF Fault, Interrupt, Crash, Restart, QuietOneWay, TypeOK
<1> QED  BY <1>1, <1>2, <1>3, <1>4, <1>5, <1>6 DEF Progress

LEMMA StutterPromise == UNCHANGED vars => UNCHANGED Promise!vars
BY DEF vars, automatonVars, ownerVars, faultVars, Promise!vars, PendingOf, TakenMessages,
       ReturnedMessages, Delivered

LEMMA InitPromise == Init => Promise!Init
<1> SUFFICES ASSUME Init PROVE Promise!Init
  OBVIOUS
<1>1. \A m \in Mailboxes : PendingOf(m) = {}
  BY DEF Init, PendingOf
<1>2. TakenMessages = {}
  <2> SUFFICES ASSUME NEW msg \in LinkMessages PROVE ~Delivered(msg.dst, msg)
    BY DEF TakenMessages
  <2>1. PICK d \in Mailboxes : d = msg.dst
    BY LinkMessageFields
  <2> QED  BY <2>1 DEF Init, Delivered
<1> QED  BY <1>1, <1>2 DEF Promise!Init, ReturnedMessages

LEMMA OInvAlways == QuietOneWay => (Spec => []OInv)
<1> SUFFICES ASSUME QuietOneWay PROVE Spec => []OInv
  OBVIOUS
<1>1. SInv => Clean
  BY DEF SInv, AllSane, Sane, Clean, Completed, TaskCompleted
<1>2. (IInv /\ Clean) /\ OInv /\ [Next]_vars => OInv'
  BY NextOInv
<1> QED  BY <1>1, <1>2, SInvAlways, InitOInv, PTL DEF Spec

(* The handshake implements the promise of send(), step by step: a message *)
(* is submitted once, taken once and not before, and its send() returns    *)
(* only after that.  That every submitted message is taken and returned    *)
(* (the fairness of ReliableSend) is left to the model checker.            *)
THEOREM HandshakeKeepsThePromise ==
    QuietOneWay => (Spec => Promise!Init /\ [][Promise!Next]_(Promise!vars))
<1> SUFFICES ASSUME QuietOneWay
             PROVE  Spec => Promise!Init /\ [][Promise!Next]_(Promise!vars)
  OBVIOUS
<1>1. OneWay /\ IInv /\ SInv => GotIsDelivered
  BY DeliveredIsGot
<1>2. IInv /\ SInv => GotIsDelivered
  BY <1>1 DEF QuietOneWay
<1>3. IInv /\ IInv' /\ TInv /\ SInv /\ OInv /\ GotIsDelivered /\ GotIsDelivered' /\ [Next]_vars
        => [Promise!Next]_(Promise!vars)
  <2> SUFFICES ASSUME IInv, IInv', TInv, SInv, OInv, GotIsDelivered, GotIsDelivered',
                      [Next]_vars
               PROVE  [Promise!Next]_(Promise!vars)
    OBVIOUS
  <2>1. TypeOK /\ TypeOK' /\ \A m \in Mailboxes : Coherent(m)
    BY DEF IInv
  <2> QED  BY <2>1, StepPromise, StutterPromise DEF Next
<1> QED
  BY <1>2, <1>3, InitPromise, SInvAlways, OInvAlways, PTL DEF Spec
=============================================================================
