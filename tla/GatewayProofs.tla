---------------------------- MODULE GatewayProofs ----------------------------
(***************************************************************************)
(* Theorems about the database gateway, for every database, every set of   *)
(* identifiers and levels, every queue size and any number of requests and *)
(* restarts.                                                               *)
(*                                                                         *)
(* What requests that overtake the log do is not excluded, so that two     *)
(* kinds of invariant are needed: those that hold whatever the two threads *)
(* do to the statement they share, and those of a paced gateway, where the *)
(* log thread waits while the main thread works and the other way round.   *)
(***************************************************************************)
EXTENDS GatewayProps, SequenceTheorems, TLAPS

Busy == main.step # "idle"

Executing == main.step \in {"lock", "change", "assign"}

Executed == Busy /\ main.query \in {"author", "command"}

(* The request in hand, and the guest that waits for an identifier.        *)
RequestOK ==
    /\ Busy => main.request \in Requests
    /\ main.step = "decide" => main.query = "level"
    /\ main.step = "enqueue" => main.query = "command"
    /\ main.step = "reply" => main.query \in {"nothing", "author"}
    /\ Executing => /\ main.query = "level" /\ main.request.command \in Changing
                    /\ main.request.level # OutOfRange
    /\ main.step = "assign" =>
          /\ main.request.command = "ADD"
          /\ main.guest \in hired \cap Guests
          /\ owner[main.request.target] = NoOwner
          /\ \A id \in Identifiers : owner[id] # main.guest

GatewayInv == TypeOK /\ OwnersExist /\ RequestOK

(* One thread works at a time, each on its own statement.                  *)
TurnsTaken ==
    /\ dead => Overflowed
    /\ Len(queue) <= 1
    /\ Busy => LogThreadIsIdle
    /\ writer.step # "wait" => queue = <<>>
    /\ main.step = "bind" => current = "main"
    /\ main.step = "run" => main.pointer = "main"
    /\ writer.step = "bind" => current = "writer"
    /\ writer.step = "run" => bound = "writer"

(* What has been looked up is still so when it is relied upon.             *)
LookUpsHold ==
    /\ Busy /\ main.request.command \in Changing /\ main.query \in {"user", "level"}
          => main.required = Required[main.request.command]
    /\ Busy /\ main.query = "level" => main.user = owner[main.request.signer]
    /\ Executing \/ main.step = "decide" => main.level = SelectClearanceWhereId(main.user)
    /\ Executing => main.level >= main.required

Last == granted[Len(granted)]

AuthorOf(g) == IF g.resigns THEN NoOwner ELSE g.author

(* What was carried out last is the only thing that may not be in the log. *)
LogFollows ==
    /\ Len(rows) <= Len(granted)
    /\ Executing \/ Executed \/ queue # <<>> \/ writer.step # "wait"
          => Len(rows) < Len(granted)
    /\ Executing =>
          /\ Last.author = owner[main.request.signer]
          /\ Last.resigns <=> main.request.command = "REMOVE"
                              /\ main.request.target = main.request.signer
    /\ Executing \/ Executed => Last.command = main.request.command
    /\ Executed /\ main.query = "author" => owner[main.request.signer] = AuthorOf(Last)
    /\ Executed /\ main.query = "command" => main.user = AuthorOf(Last)
    /\ main.step = "enqueue" => main.command = main.request.command
    /\ queue # <<>> => Names(Head(queue), Last)
    /\ writer.step # "wait" => Names(writer.entry, Last)

GrantsEntitled == \A i \in DOMAIN granted : granted[i].entitled

PacedOK == TurnsTaken /\ LookUpsHold /\ GrantsEntitled /\ LogFollows /\ RowsNameAuthors

PacedInv == paced => PacedOK

-----------------------------------------------------------------------------
LEMMA RequestFields ==
    ASSUME GatewayAssumption, NEW r \in Requests
    PROVE  /\ r.command \in Commands
           /\ r.target \in Identifiers /\ r.signer \in Identifiers
           /\ r.level # OutOfRange => r.level \in Int \cup {Garbled}
           /\ r.command \notin Changing => r.target = r.signer
<1>1. TypedLevels \cup {0} \subseteq Int \cup {Garbled, OutOfRange}
  BY DEF GatewayAssumption, CInts
<1>2. /\ r \in [command : Commands, target : Identifiers, signer : Identifiers,
                level : TypedLevels \cup {0}]
      /\ r.command \notin Changing => r.target = r.signer
  BY DEF Requests
<1> QED
  BY <1>1, <1>2

LEMMA LevelIsClearance ==
    ASSUME GatewayAssumption, NEW level \in Int \cup {Garbled}
    PROVE  destringifyClearance(level) \in Clearances
<1>1. CASE level = Garbled
  BY <1>1 DEF destringifyClearance, Clearances, FAIL_SAFE_CLEARANCE
<1>2. CASE level # Garbled
  <2>1. (level + 128) % 256 \in 0 .. 255
    BY <1>2
  <2> QED
    BY <1>2, <2>1 DEF destringifyClearance, SignedChar, Clearances
<1> QED
  BY <1>1, <1>2

LEMMA SelectedIsClearance ==
    ASSUME TypeOK, NEW e
    PROVE  SelectClearanceWhereId(e) \in Clearances
BY DEF TypeOK, SelectClearanceWhereId, NO_CLEARANCE, Clearances

LEMMA RecordType ==
    ASSUME GatewayAssumption, TypeOK, NEW r \in Requests, Record(r)
    PROVE  granted' \in Seq(Grants)
<1>1. Entitled(r) \in BOOLEAN
  BY Zenon DEF Entitled
<1>2. (r.command = "REMOVE" /\ r.target = r.signer) \in BOOLEAN
  OBVIOUS
<1>3. owner[r.signer] \in Employees \cup {NoOwner}
  BY RequestFields DEF TypeOK
<1> DEFINE g == [command |-> r.command, author |-> owner[r.signer],
                 entitled |-> Entitled(r),
                 resigns |-> r.command = "REMOVE" /\ r.target = r.signer]
<1>4. g \in Grants
  BY <1>1, <1>2, <1>3, RequestFields, Zenon DEF Grants
<1>5. granted \in Seq(Grants) /\ granted' = Append(granted, g)
  BY DEF TypeOK, Record, Grants
<1> QED
  BY <1>4, <1>5

LEMMA IdleType == GatewayAssumption => Idle \in MainThreads
<1>1. NO_CLEARANCE \in Clearances
  BY DEF NO_CLEARANCE, Clearances
<1> QED
  BY <1>1 DEF MainThreads, Idle, MainSteps, Queries

LEMMA WaitingType == Waiting \in LogThreads
BY DEF Waiting, NoEntry, Entries, LogThreads

(* The main thread's record, as the look-ups and the actions change it.    *)
LEMMA MainUpdates ==
    ASSUME NEW m \in MainThreads, NEW s \in MainSteps
    PROVE  /\ [m EXCEPT !.step = s] \in MainThreads
           /\ \A q \in Queries :
                /\ [m EXCEPT !.step = s, !.query = q] \in MainThreads
                /\ \A c \in Clearances :
                      [m EXCEPT !.step = s, !.query = q, !.required = c] \in MainThreads
                /\ \A e \in Employees \cup {NoOwner} :
                      [m EXCEPT !.step = s, !.query = q, !.user = e] \in MainThreads
           /\ \A c \in Clearances : [m EXCEPT !.step = s, !.level = c] \in MainThreads
           /\ \A d \in Commands \cup {"none"} :
                [m EXCEPT !.step = s, !.command = d] \in MainThreads
           /\ \A w \in {"main", "writer"} : [m EXCEPT !.step = s, !.pointer = w] \in MainThreads
           /\ \A e \in Employees \cup {NoOwner} :
                [m EXCEPT !.step = s, !.guest = e] \in MainThreads
BY DEF MainThreads

LEMMA TypeAtStart ==
    ASSUME GatewayAssumption, Init
    PROVE  TypeOK
<1>1. Idle \in MainThreads /\ Waiting \in LogThreads
  BY IdleType, WaitingType
<1>2. \A e \in Employees :
          (IF e \in Staff THEN InitialClearance[e] ELSE NO_CLEARANCE) \in Clearances
  BY DEF GatewayAssumption, NO_CLEARANCE, Clearances
<1>3. clearance \in [Employees -> Clearances]
  BY <1>2 DEF Init
<1>4. owner \in [Identifiers -> Employees \cup {NoOwner}] /\ hired \in SUBSET Employees
  BY DEF Init, Employees, GatewayAssumption
<1>5. /\ queue \in Seq(Entries) /\ Len(queue) <= LogQueueSize
      /\ requests \in 0 .. MaxRequests[paced] /\ crashes \in 0 .. MaxCrashes
      /\ paced \in BOOLEAN
  BY DEF Init, GatewayAssumption
<1>6. rows \in Seq(Entries) /\ granted \in Seq(Grants)
  BY DEF Init
<1> QED
  BY <1>1, <1>3, <1>4, <1>5, <1>6 DEF Init, TypeOK

LEMMA TypePreserved ==
    ASSUME GatewayAssumption, GatewayInv, Next
    PROVE  TypeOK'
<1> TypeOK /\ main \in MainThreads
  BY DEF GatewayInv, TypeOK
<1> USE DEF TypeOK
<1>0. Busy => main.request \in Requests
  BY DEF GatewayInv, RequestOK
<1>a. /\ "new" \in MainSteps /\ "bind" \in MainSteps /\ "run" \in MainSteps
      /\ "decide" \in MainSteps /\ "lock" \in MainSteps /\ "change" \in MainSteps
      /\ "assign" \in MainSteps /\ "enqueue" \in MainSteps /\ "reply" \in MainSteps
  BY DEF MainSteps
<1>b. /\ "user" \in Queries /\ "level" \in Queries /\ "author" \in Queries
      /\ "command" \in Queries /\ "nothing" \in Queries
  BY DEF Queries
<1>1. ASSUME NEW r \in Requests, Receive(r) PROVE TypeOK'
  <2>1. [Idle EXCEPT !.step = "new", !.request = r,
            !.query = IF r.command = "AUTHENTICATE" THEN "user" ELSE "required"] \in MainThreads
    <3>1. \A q \in Queries :
             [Idle EXCEPT !.step = "new", !.request = r, !.query = q] \in MainThreads
      BY <1>a, IdleType DEF MainThreads
    <3> QED
      BY <3>1 DEF Queries
  <2>a. [Idle EXCEPT !.step = "reply", !.request = r, !.query = "nothing"] \in MainThreads
    BY <1>a, <1>b, IdleType DEF MainThreads
  <2>2. main' \in MainThreads
    BY <1>1, <2>1, <2>a DEF Receive
  <2>3. requests' \in 0 .. MaxRequests[paced']
    BY <1>1 DEF Receive, GatewayAssumption, history
  <2> QED
    BY <1>1, <2>2, <2>3 DEF Receive, tables, statements
<1>2. ASSUME NewQuery PROVE TypeOK'
  <2>1. main' \in MainThreads
    BY <1>2, <1>a, MainUpdates, Zenon DEF NewQuery
  <2> QED
    BY <1>2, <2>1 DEF NewQuery, tables, history
<1>3. ASSUME Bind PROVE TypeOK'
  <2>1. main' \in MainThreads
    BY <1>3, <1>a, MainUpdates, Zenon DEF Bind
  <2> QED
    BY <1>3, <2>1 DEF Bind, tables, history
<1>4. ASSUME RunFails PROVE TypeOK'
  BY <1>4 DEF RunFails, tables, statements, history
<1>5. ASSUME NEW q, Run(q), main' \in MainThreads PROVE TypeOK'
  <2>1. writer.entry \in Entries
    BY DEF LogThreads
  <2>2. rows' \in Seq(Entries)
    BY <1>5, <2>1 DEF Run
  <2> QED
    BY <1>5, <2>2 DEF Run, tables, statements, history
<1>6. ASSUME NEW q, Run(q) PROVE main.request \in Requests
  BY <1>0, <1>6 DEF Run, At, Busy
<1>7. ASSUME SelectRequired PROVE TypeOK'
  <2>1. Required[main.request.command] \in Clearances
    <3>1. main.request.command \in Commands
      BY <1>6, <1>7, RequestFields DEF SelectRequired
    <3> QED
      BY <3>1 DEF Clearances, GatewayAssumption, NO_CLEARANCE, MAX_CLEARANCE
  <2>2. Found(Required[main.request.command], SignedChar(255)) \in Clearances
    BY <2>1 DEF Found, SignedChar, Clearances
  <2>3. main' \in MainThreads
    <3>1. \A c \in Clearances :
             [main EXCEPT !.step = "new", !.query = "user", !.required = c] \in MainThreads
      BY <1>a, <1>b, MainUpdates, Zenon
    <3>2. main' = [main EXCEPT !.step = "new", !.query = "user",
                      !.required = Found(Required[main.request.command], SignedChar(255))]
      BY <1>7 DEF SelectRequired
    <3> QED
      BY <2>2, <3>1, <3>2
  <2> QED
    BY <1>5, <1>7, <2>3 DEF SelectRequired
<1>8. ASSUME NEW q, Run(q) 
      PROVE  Found(owner[main.request.signer], NoOwner) \in Employees \cup {NoOwner}
  BY <1>6, <1>8, RequestFields DEF Found
<1>9. ASSUME SelectOwner PROVE TypeOK'
  <2>1. main' \in MainThreads
    BY <1>8, <1>9, <1>a, <1>b, MainUpdates, Zenon DEF SelectOwner
  <2> QED
    BY <1>5, <1>9, <2>1 DEF SelectOwner
<1>10. ASSUME SelectAuthor PROVE TypeOK'
  <2>1. main' \in MainThreads
    BY <1>8, <1>10, <1>a, <1>b, MainUpdates, Zenon DEF SelectAuthor
  <2> QED
    BY <1>5, <1>10, <2>1 DEF SelectAuthor
<1>11. ASSUME SelectLevel PROVE TypeOK'
  <2>1. NO_CLEARANCE \in Clearances
    BY DEF NO_CLEARANCE, Clearances
  <2>2. Found(SelectClearanceWhereId(main.user), NO_CLEARANCE) \in Clearances
    BY <2>1, SelectedIsClearance, Zenon DEF Found
  <2>3. main' \in MainThreads
    BY <1>11, <1>a, <2>2, MainUpdates, Zenon DEF SelectLevel
  <2> QED
    BY <1>5, <1>11, <2>3 DEF SelectLevel
<1>12. ASSUME SelectCommand PROVE TypeOK'
  <2>1. Found(main.request.command, "none") \in Commands \cup {"none"}
    BY <1>6, <1>12, RequestFields DEF SelectCommand, Found
  <2>2. main' \in MainThreads
    BY <1>12, <1>a, <2>1, MainUpdates, Zenon DEF SelectCommand
  <2> QED
    BY <1>5, <1>12, <2>2 DEF SelectCommand
<1>14. ASSUME NEW q \in Queries, LookUp(q) \/ SendReply(q) PROVE main' \in MainThreads
  <2>1. CASE LookUp(q)
    BY <1>a, <2>1, MainUpdates, Zenon DEF LookUp
  <2>2. CASE SendReply(q)
    BY <1>a, <2>2, MainUpdates, Zenon DEF SendReply
  <2> QED
    BY <1>14, <2>1, <2>2
<1>13. ASSUME Refuse PROVE TypeOK'
  <2>1. main' \in MainThreads
    BY <1>13, <1>14, <1>b DEF Refuse
  <2> QED
    BY <1>13, <2>1 DEF Refuse, tables, statements, history
<1>33. ASSUME ReplyReturns PROVE TypeOK'
  <2>1. main' \in MainThreads
    BY <1>14, <1>33, IdleType DEF ReplyReturns, MainThreads
  <2> QED
    BY <1>33, <2>1 DEF ReplyReturns, tables, statements, history
<1>34. ASSUME LevelOverflows PROVE TypeOK'
  BY <1>34 DEF LevelOverflows, tables, statements, history
<1>15. ASSUME Answer PROVE TypeOK'
  <2>1. granted' \in Seq(Grants)
    BY <1>0, <1>15, RecordType, Zenon DEF Answer, At, Busy
  <2> QED
    BY <1>14, <1>15, <1>b, <2>1 DEF Answer, tables, statements
<1>16. ASSUME Authorize PROVE TypeOK'
  <2>1. main.request \in Requests
    BY <1>0, <1>16 DEF Authorize, Authorized, At, Busy
  <2>2. granted' \in Seq(Grants)
    BY <1>16, <2>1, RecordType, Zenon DEF Authorize
  <2>3. main' \in MainThreads
    <3>1. [main EXCEPT !.step = "lock"] \in MainThreads
      BY <1>a, MainUpdates
    <3> QED
      BY <1>14, <1>16, <1>b, <3>1 DEF Authorize
  <2> QED
    BY <1>16, <2>2, <2>3 DEF Authorize, tables, statements
<1>17. ASSUME TakeLock PROVE TypeOK'
  <2>1. main' \in MainThreads
    BY <1>17, <1>a, MainUpdates, Zenon DEF TakeLock
  <2> QED
    BY <1>17, <2>1 DEF TakeLock, tables, statements, history
<1>18. ASSUME NEW c, Change(c) PROVE Level \in Clearances
  <2>1. main.request \in Requests /\ main.request.level # OutOfRange
    BY <1>0, <1>18 DEF Change, At, Busy, GatewayInv, RequestOK, Executing
  <2> QED
    BY <2>1, RequestFields, LevelIsClearance, Zenon DEF Level
<1>19. ASSUME Finish PROVE main' \in MainThreads /\ lock' = "free"
  BY <1>14, <1>19, <1>b DEF Finish
<1>20. ASSUME AddExisting PROVE TypeOK'
  BY <1>19, <1>20 DEF AddExisting, Change, tables, history
<1>21. ASSUME AddGuest PROVE TypeOK'
  <2>1. PICK g \in Guests \ hired : /\ hired' = hired \cup {g}
                                    /\ clearance' = [clearance EXCEPT ![g] = Level]
                                    /\ main' = [main EXCEPT !.step = "assign", !.guest = g]
    BY <1>21 DEF AddGuest
  <2>2. g \in Employees
    BY DEF Employees
  <2>3. main' \in MainThreads
    BY <1>a, <2>1, <2>2, MainUpdates DEF MainThreads
  <2>4. Level \in Clearances
    BY <1>18, <1>21 DEF AddGuest
  <2> QED
    BY <1>21, <2>1, <2>2, <2>3, <2>4 DEF AddGuest, Change, history
<1>22. ASSUME AddIdentifier PROVE TypeOK'
  <2>1. owner' \in [Identifiers -> Employees \cup {NoOwner}]
    BY <1>22 DEF AddIdentifier, MainThreads
  <2> QED
    BY <1>19, <1>22, <2>1 DEF AddIdentifier, history
<1>23. ASSUME RemoveIdentifier PROVE TypeOK'
  BY <1>19, <1>23 DEF RemoveIdentifier, Change, history
<1>24. ASSUME SetClearance PROVE TypeOK'
  <2>1. clearance' \in [Employees -> Clearances]
    BY <1>18, <1>24 DEF SetClearance
  <2> QED
    BY <1>19, <1>24, <2>1 DEF SetClearance, Change, history
<1>25. ASSUME SetClearanceRejects PROVE TypeOK'
  BY <1>19, <1>25 DEF SetClearanceRejects, Change, tables, history
<1>26. ASSUME CreateLog PROVE TypeOK'
  <2>1. [user |-> main.user, command |-> main.command] \in Entries
    BY DEF MainThreads, Entries
  <2>2. queue' \in Seq(Entries) /\ Len(queue') <= LogQueueSize
    BY <1>26, <2>1 DEF CreateLog, GatewayAssumption
  <2> QED
    BY <1>26, <2>2, IdleType DEF CreateLog, tables, statements, history
<1>27. ASSUME TakeEntry PROVE TypeOK'
  <2>1. Head(queue) \in Entries /\ Tail(queue) \in Seq(Entries) /\ Len(Tail(queue)) <= LogQueueSize
    BY <1>27 DEF TakeEntry, GatewayAssumption
  <2>2. writer' \in LogThreads
    BY <1>27, <2>1 DEF TakeEntry, LogThreads
  <2> QED
    BY <1>27, <2>1, <2>2 DEF TakeEntry, tables, statements, history
<1>28. ASSUME WriterTakesLock PROVE TypeOK'
  <2>1. writer' \in LogThreads
    BY <1>28 DEF WriterTakesLock, LogThreads
  <2> QED
    BY <1>28, <2>1 DEF WriterTakesLock, tables, statements, history
<1>29. ASSUME WriterNewQuery PROVE TypeOK'
  <2>1. writer' \in LogThreads
    BY <1>29 DEF WriterNewQuery, LogThreads
  <2> QED
    BY <1>29, <2>1 DEF WriterNewQuery, tables, history
<1>30. ASSUME WriterBind PROVE TypeOK'
  <2>1. writer' \in LogThreads
    BY <1>30 DEF WriterBind, LogThreads
  <2> QED
    BY <1>30, <2>1 DEF WriterBind, tables, history
<1>31. ASSUME WriteLog PROVE TypeOK'
  <2>1. writer.entry \in Entries /\ writer' \in LogThreads
    BY <1>31 DEF WriteLog, LogThreads
  <2>2. rows' \in Seq(Entries) /\ lock' \in {"free", "main", "writer"} /\ dead' \in BOOLEAN
    <3>1. Append(rows, writer.entry) \in Seq(Entries)
      BY <2>1
    <3> QED
      BY <1>31, <3>1, Zenon DEF WriteLog
  <2> QED
    BY <1>31, <2>1, <2>2 DEF WriteLog, tables, statements, history
<1>32. ASSUME Restart PROVE TypeOK'
  <2>1. crashes' \in 0 .. MaxCrashes /\ queue' \in Seq(Entries) /\ Len(queue') <= LogQueueSize
    BY <1>32 DEF Restart, GatewayAssumption
  <2> QED
    BY <1>32, <2>1, IdleType, WaitingType DEF Restart, tables
<1> QED
  BY <1>1, <1>2, <1>3, <1>4, <1>7, <1>9, <1>10, <1>11, <1>12, <1>13, <1>15, <1>16, <1>17,
     <1>20, <1>21, <1>22, <1>23, <1>24, <1>25, <1>26, <1>27, <1>28, <1>29, <1>30, <1>31, <1>32,
     <1>33, <1>34
     DEF Next, LookUpStep, ExecuteStep, WriterStep

(* Whatever the threads do to the statement they share, only the main      *)
(* thread changes the tables, one request at a time.                       *)
LEMMA TablesPreserved ==
    ASSUME GatewayAssumption, GatewayInv, Next
    PROVE  OwnersExist' /\ RequestOK'
<1> TypeOK /\ main \in MainThreads /\ OwnersExist /\ RequestOK
  BY DEF GatewayInv, TypeOK
<1> USE DEF MainThreads
<1>1. ASSUME UNCHANGED tables PROVE OwnersExist'
  BY <1>1 DEF OwnersExist, tables
<1>2. ASSUME UNCHANGED main, UNCHANGED tables PROVE OwnersExist' /\ RequestOK'
  BY <1>2 DEF OwnersExist, RequestOK, tables, Busy, Executing
<1>3. ASSUME main' = Idle, UNCHANGED tables PROVE OwnersExist' /\ RequestOK'
  BY <1>3 DEF OwnersExist, RequestOK, tables, Busy, Executing, Idle
<1>4. ASSUME NEW r \in Requests, Receive(r) PROVE OwnersExist' /\ RequestOK'
  BY <1>4 DEF OwnersExist, RequestOK, Receive, tables, Busy, Executing, Idle
<1>5. ASSUME NewQuery \/ Bind PROVE OwnersExist' /\ RequestOK'
  BY <1>5 DEF OwnersExist, RequestOK, NewQuery, Bind, At, tables, Busy, Executing
<1>6. ASSUME NEW q, Run(q) PROVE UNCHANGED tables /\ Busy
  BY <1>6 DEF Run, At, Busy, tables
<1>7. ASSUME SelectRequired PROVE OwnersExist' /\ RequestOK'
  <2>1. OwnersExist' /\ main.request \in Requests
    BY <1>1, <1>6, <1>7, Zenon DEF SelectRequired, RequestOK
  <2>2. main'.step = "new" /\ main'.request = main.request
    BY <1>7 DEF SelectRequired
  <2> QED
    BY <2>1, <2>2 DEF RequestOK, Executing
<1>8. ASSUME SelectOwner PROVE OwnersExist' /\ RequestOK'
  BY <1>1, <1>6, <1>8 DEF SelectOwner, RequestOK, Busy, Executing
<1>9. ASSUME SelectLevel PROVE OwnersExist' /\ RequestOK'
  BY <1>1, <1>6, <1>9 DEF SelectLevel, Run, RequestOK, Busy, Executing
<1>10. ASSUME SelectAuthor PROVE OwnersExist' /\ RequestOK'
  BY <1>1, <1>6, <1>10 DEF SelectAuthor, RequestOK, Busy, Executing
<1>11. ASSUME SelectCommand PROVE OwnersExist' /\ RequestOK'
  BY <1>1, <1>6, <1>11 DEF SelectCommand, Run, RequestOK, Busy, Executing
<1>12. ASSUME NEW q \in {"author", "nothing"}, SendReply(q),
              At("decide") \/ At("lock") \/ At("change") \/ At("assign")
       PROVE  RequestOK'
  BY <1>12 DEF RequestOK, At, SendReply, Busy, Executing
<1>13. ASSUME Answer \/ Authorize PROVE OwnersExist' /\ RequestOK'
  <2>1. OwnersExist'
    BY <1>1, <1>13, Zenon DEF Answer, Authorize
  <2>2. ASSUME SendReply("author") PROVE RequestOK'
    BY <1>12, <1>13, <2>2, Zenon DEF Answer, Authorize, Authorized
  <2>3. ASSUME Authorize, main' = [main EXCEPT !.step = "lock"] PROVE RequestOK'
    BY <2>3 DEF Authorize, Authorized, RequestOK, At, Busy, Executing
  <2> QED
    BY <1>13, <2>1, <2>2, <2>3, Zenon DEF Answer, Authorize
<1>14. ASSUME TakeLock PROVE OwnersExist' /\ RequestOK'
  BY <1>1, <1>14 DEF TakeLock, RequestOK, At, tables, Busy, Executing
<1>15. ASSUME NEW c, Change(c), Finish PROVE RequestOK'
  BY <1>12, <1>15, Zenon DEF Change, Finish
<1>16. ASSUME AddExisting \/ SetClearanceRejects PROVE OwnersExist' /\ RequestOK'
  BY <1>1, <1>15, <1>16, Zenon DEF AddExisting, SetClearanceRejects
<1>17. ASSUME RemoveIdentifier \/ SetClearance PROVE OwnersExist' /\ RequestOK'
  <2>1. RequestOK'
    BY <1>15, <1>17, Zenon DEF RemoveIdentifier, SetClearance
  <2>2. OwnersExist'
    BY <1>17 DEF OwnersExist, RemoveIdentifier, SetClearance, TypeOK
  <2> QED
    BY <2>1, <2>2
<1>18. ASSUME AddGuest PROVE OwnersExist' /\ RequestOK'
  <2>1. PICK g \in Guests \ hired : /\ hired' = hired \cup {g}
                                    /\ main' = [main EXCEPT !.step = "assign", !.guest = g]
    BY <1>18 DEF AddGuest
  <2>2. OwnersExist'
    BY <1>18, <2>1 DEF AddGuest, OwnersExist
  <2>3. g # NoOwner /\ \A id \in Identifiers : owner[id] # g
    BY <2>1 DEF OwnersExist, GatewayAssumption, Employees
  <2>4. owner[main.request.target] = NoOwner /\ At("change") /\ main.request.command = "ADD"
    BY <1>18 DEF AddGuest, Change
  <2> QED
    BY <1>18, <2>1, <2>2, <2>3, <2>4 DEF AddGuest, At, RequestOK, Busy, Executing
<1>19. ASSUME AddIdentifier PROVE OwnersExist' /\ RequestOK'
  <2>1. RequestOK'
    BY <1>12, <1>19, Zenon DEF AddIdentifier, Finish
  <2>2. main.guest \in hired
    BY <1>19 DEF AddIdentifier, At, RequestOK
  <2>3. OwnersExist'
    BY <1>19, <2>2 DEF OwnersExist, AddIdentifier, TypeOK
  <2> QED
    BY <2>1, <2>3
<1>20. ASSUME CreateLog \/ Restart PROVE OwnersExist' /\ RequestOK'
  BY <1>3, <1>20, Zenon DEF CreateLog, Restart
<1>22. ASSUME Refuse PROVE OwnersExist' /\ RequestOK'
  BY <1>1, <1>12, <1>22, Zenon DEF Refuse
<1>23. ASSUME ReplyReturns PROVE OwnersExist' /\ RequestOK'
  <2>1. OwnersExist'
    BY <1>1, <1>23, Zenon DEF ReplyReturns
  <2>2. CASE main' = Idle
    BY <1>3, <1>23, <2>2, Zenon DEF ReplyReturns
  <2>3. CASE LookUp(main.query)
    <3>1. main.request \in Requests
      BY <1>23 DEF ReplyReturns, At, Busy, RequestOK
    <3>2. main'.step = "new" /\ main'.request = main.request
      BY <2>3 DEF LookUp
    <3> QED
      BY <2>1, <3>1, <3>2 DEF RequestOK, Executing
  <2> QED
    BY <1>23, <2>1, <2>2, <2>3 DEF ReplyReturns
<1>21. ASSUME RunFails \/ LevelOverflows \/ WriterStep PROVE OwnersExist' /\ RequestOK'
  BY <1>2, <1>21, Zenon DEF RunFails, LevelOverflows, WriterStep, TakeEntry, WriterTakesLock, WriterNewQuery,
                     WriterBind, WriteLog
<1> QED
  BY <1>4, <1>5, <1>7, <1>8, <1>9, <1>10, <1>11, <1>13, <1>14, <1>16, <1>17, <1>18, <1>19,
     <1>20, <1>21, <1>22, <1>23
     DEF Next, LookUpStep, ExecuteStep

(* The invariant of the gateway, paced or not.                             *)
THEOREM GatewayInvariant == GatewayAssumption => (Spec => []GatewayInv)
<1> SUFFICES ASSUME GatewayAssumption PROVE Spec => []GatewayInv
  OBVIOUS
<1>1. Init => GatewayInv
  <2> SUFFICES ASSUME Init PROVE GatewayInv
    OBVIOUS
  <2>1. OwnersExist
    BY DEF Init, OwnersExist, GatewayAssumption
  <2>2. RequestOK
    BY DEF Init, RequestOK, Idle, Busy, Executing
  <2> QED
    BY <2>1, <2>2, TypeAtStart DEF GatewayInv
<1>2. GatewayInv /\ [Next]_vars => GatewayInv'
  <2> SUFFICES ASSUME GatewayInv, [Next]_vars PROVE GatewayInv'
    OBVIOUS
  <2>1. CASE Next
    BY <2>1, TypePreserved, TablesPreserved DEF GatewayInv
  <2>2. CASE UNCHANGED vars
    BY <2>2 DEF vars, tables, statements, history, GatewayInv, TypeOK, OwnersExist, RequestOK,
                Busy, Executing
  <2> QED
    BY <2>1, <2>2
<1> QED
  BY <1>1, <1>2, PTL DEF Spec

(* Type correctness: no step of either thread, fatal or not, takes a       *)
(* variable out of the values the code can give it; in particular a level  *)
(* that an int holds becomes a signed char, and one that no int holds ends *)
(* the process before it reaches the tables.                               *)
THEOREM GatewayTypeCorrect == GatewayAssumption => (Spec => []TypeOK)
BY GatewayInvariant, PTL DEF GatewayInv

(* No restart half-way through ADD and no look-up that went wrong leaves   *)
(* an identifier with an owner who is not in the Employees table.          *)
THEOREM EveryOwnerExists == GatewayAssumption => (Spec => []OwnersExist)
BY GatewayInvariant, PTL DEF GatewayInv

-----------------------------------------------------------------------------
(* A paced gateway.                                                        *)

(* Arithmetic the steps below rely on.                                     *)
LEMMA OnlyOne == \A n \in Nat : n # 0 /\ n <= 1 => n = 1
OBVIOUS

LEMMA NobodyIsCleared == \A n \in 0 .. 127 : ~(NO_CLEARANCE >= n)
BY DEF NO_CLEARANCE

LEMMA OneMore == \A m, n \in Nat : m <= n => m < n + 1
OBVIOUS

(* The queue of a paced gateway is empty or on its way to the log thread.  *)
LEMMA TurnsPreserved ==
    ASSUME GatewayAssumption, GatewayInv, paced, TurnsTaken, Next
    PROVE  TurnsTaken'
<1> TypeOK /\ main \in MainThreads /\ writer \in LogThreads
  BY DEF GatewayInv, TypeOK
<1> USE DEF TurnsTaken, LogThreadIsIdle, Busy, Overflowed, MainThreads, LogThreads
<1>1. ASSUME NEW r \in Requests, Receive(r) PROVE TurnsTaken'
  BY <1>1 DEF Receive, At, statements, Idle
<1>2. ASSUME NewQuery \/ Bind PROVE TurnsTaken'
  <2>a. At("new") \/ At("bind")
    BY <1>2, Zenon DEF NewQuery, Bind
  <2>b. Busy /\ ~dead /\ LogThreadIsIdle
    BY <2>a DEF At
  <2>c. dead' = dead /\ main'.step \in {"bind", "run"}
    BY <1>2 DEF NewQuery, Bind
  <2>1. Busy /\ LogThreadIsIdle /\ Busy' /\ ~dead /\ ~dead'
    BY <2>b, <2>c
  <2>2. CASE NewQuery
    <3>1. /\ main'.step = "bind" /\ current' = "main" /\ UNCHANGED <<queue, writer>>
          /\ writer.step = "wait" /\ queue = <<>>
      BY <2>1, <2>2 DEF NewQuery
    <3> QED
      BY <2>1, <3>1
  <2>3. CASE Bind
    BY <2>1, <2>3 DEF Bind, At
  <2> QED
    BY <1>2, <2>2, <2>3
<1>3. ASSUME RunFails PROVE FALSE
  BY <1>3 DEF RunFails, At, Own
<1>4. ASSUME NEW q, Run(q), main'.step \in {"new", "decide", "enqueue"} PROVE TurnsTaken'
  BY <1>4 DEF Run, At, statements
<1>5. ASSUME SelectRequired \/ SelectOwner \/ SelectLevel \/ SelectAuthor \/ SelectCommand
      PROVE  TurnsTaken'
  <2>1. main'.step \in {"new", "decide", "enqueue"}
    BY <1>5 DEF SelectRequired, SelectOwner, SelectLevel, SelectAuthor, SelectCommand
  <2> QED
    BY <1>4, <1>5, <2>1, Zenon DEF SelectRequired, SelectOwner, SelectLevel, SelectAuthor, SelectCommand
<1>7. ASSUME Busy, ~dead, main'.step \in {"idle", "new", "lock", "change", "assign", "reply"},
             UNCHANGED <<bound, queue, writer, dead>>
      PROVE  TurnsTaken'
  BY <1>7
<1>8. ASSUME NEW q, SendReply(q) PROVE main'.step = "reply"
  BY <1>8 DEF SendReply
<1>9. ASSUME Refuse \/ Answer \/ Authorize \/ TakeLock PROVE TurnsTaken'
  <2>1. main'.step \in {"reply", "lock", "change"}
    BY <1>8, <1>9 DEF Refuse, Answer, Authorize, TakeLock
  <2> QED
    BY <1>7, <1>9, <2>1 DEF Refuse, Answer, Authorize, Authorized, TakeLock, At, statements
<1>6. ASSUME ReplyReturns PROVE TurnsTaken'
  <2>1. main'.step \in {"idle", "new"}
    <3>1. CASE main' = Idle
      BY <3>1 DEF Idle
    <3>2. CASE LookUp(main.query)
      BY <3>2 DEF LookUp
    <3> QED
      BY <1>6, <3>1, <3>2, Zenon DEF ReplyReturns
  <2> QED
    BY <1>6, <1>7, <2>1 DEF ReplyReturns, At, statements
<1>16. ASSUME LevelOverflows PROVE TurnsTaken'
  BY <1>16 DEF LevelOverflows, Authorized, At, statements
<1>10. ASSUME AddExisting \/ AddGuest \/ AddIdentifier \/ RemoveIdentifier \/ SetClearance
              \/ SetClearanceRejects
       PROVE  TurnsTaken'
  <2>1. main'.step \in {"reply", "assign"}
    BY <1>8, <1>10 DEF AddExisting, AddGuest, AddIdentifier, RemoveIdentifier, SetClearance,
                       SetClearanceRejects, Finish
  <2> QED
    BY <1>7, <1>10, <2>1 DEF AddExisting, AddGuest, AddIdentifier, RemoveIdentifier, SetClearance,
                       SetClearanceRejects, Change, At
<1>11. ASSUME CreateLog PROVE TurnsTaken'
  <2>1. queue = <<>> /\ Len(queue') = 1
    BY <1>11 DEF CreateLog, At
  <2> QED
    BY <1>11, <2>1 DEF CreateLog, At, statements, Idle
<1>12. ASSUME WriterStep PROVE ~Busy /\ main'.step = "idle"
  BY <1>12 DEF WriterStep, TakeEntry, WriterTakesLock, WriterNewQuery, WriterBind, WriteLog, WriterAt
<1>13. ASSUME TakeEntry PROVE TurnsTaken'
  <2>1. Tail(queue) = <<>>
    <3>1. queue \in Seq(Entries) /\ queue # <<>>
      BY <1>13 DEF TakeEntry, TypeOK
    <3>2. Len(queue) \in Nat /\ Len(queue) # 0
      BY <3>1, EmptySeq
    <3>a. Len(queue) <= 1
      BY Zenon DEF TurnsTaken
    <3>3. Len(queue) = 1
      BY <3>2, <3>a, OnlyOne, Zenon
    <3>4. Tail(queue) \in Seq(Entries) /\ Len(Tail(queue)) = 0
      BY <3>1, <3>3, HeadTailProperties
    <3> QED
      BY <3>4, EmptySeq
  <2> QED
    BY <1>12, <1>13, <2>1 DEF TakeEntry, WriterAt, statements, WriterStep
<1>14. ASSUME WriterTakesLock \/ WriterNewQuery \/ WriterBind \/ WriteLog PROVE TurnsTaken'
  BY <1>12, <1>14 DEF WriterTakesLock, WriterNewQuery, WriterBind, WriteLog, WriterAt, statements, WriterStep
<1>15. ASSUME Restart PROVE TurnsTaken'
  BY <1>15 DEF Restart, Idle, Waiting
<1> QED
  BY <1>1, <1>2, <1>3, <1>5, <1>6, <1>9, <1>10, <1>11, <1>13, <1>14, <1>15,
     <1>16
     DEF Next, LookUpStep, ExecuteStep, WriterStep

(* A look-up finds what the tables say, and they stay so until the request *)
(* has been carried out: the one change before that is the hiring of a     *)
(* guest, who cannot be the signer.                                        *)
LEMMA LookUpsPreserved ==
    ASSUME GatewayAssumption, GatewayInv, TurnsTaken, LookUpsHold, Next
    PROVE  LookUpsHold'
<1> TypeOK /\ main \in MainThreads /\ OwnersExist /\ RequestOK
  BY DEF GatewayInv, TypeOK
<1> USE DEF MainThreads
<1>1. ASSUME UNCHANGED main, UNCHANGED tables PROVE LookUpsHold'
  BY <1>1 DEF LookUpsHold, tables, Busy, Executing, SelectClearanceWhereId
<1>2. ASSUME main'.step \in {"idle", "new", "reply"},
             main'.query \in {"required", "author", "command", "nothing"}
      PROVE  LookUpsHold'
  BY <1>2 DEF LookUpsHold, Busy, Executing
<1>3. ASSUME main' = Idle PROVE LookUpsHold'
  BY <1>3 DEF LookUpsHold, Busy, Executing, Idle
<1>4. ASSUME NEW r \in Requests, Receive(r) PROVE LookUpsHold'
  BY <1>3, <1>4 DEF LookUpsHold, Receive, Busy, Executing, Idle, Changing
<1>5. ASSUME NewQuery \/ Bind PROVE LookUpsHold'
  BY <1>5 DEF LookUpsHold, NewQuery, Bind, At, tables, Busy, Executing
<1>6. ASSUME NEW q, Run(q) PROVE Own /\ UNCHANGED tables /\ Busy
  BY <1>6 DEF Run, At, Own, tables, TurnsTaken, Busy
<1>7. ASSUME SelectRequired PROVE LookUpsHold'
  BY <1>6, <1>7 DEF SelectRequired, Found, LookUpsHold, Busy, Executing
<1>8. ASSUME SelectOwner PROVE LookUpsHold'
  BY <1>6, <1>8 DEF SelectOwner, Run, Found, LookUpsHold, tables, Busy, Executing
<1>9. ASSUME SelectLevel PROVE LookUpsHold'
  BY <1>6, <1>9 DEF SelectLevel, Run, Found, LookUpsHold, tables, Busy, Executing, SelectClearanceWhereId
<1>10. ASSUME SelectAuthor PROVE LookUpsHold'
  BY <1>2, <1>10 DEF SelectAuthor
<1>11. ASSUME SelectCommand PROVE LookUpsHold'
  BY <1>11 DEF SelectCommand, Run, LookUpsHold, Busy, Executing
<1>12. ASSUME NEW q \in {"author", "nothing"}, SendReply(q) PROVE LookUpsHold'
  BY <1>2, <1>12 DEF SendReply
<1>13. ASSUME Refuse \/ Answer \/ AddExisting \/ AddIdentifier \/ RemoveIdentifier \/ SetClearance
              \/ SetClearanceRejects
       PROVE  LookUpsHold'
  BY <1>12, <1>13, Zenon DEF Refuse, Answer, AddExisting, AddIdentifier, RemoveIdentifier, SetClearance,
                      SetClearanceRejects, Finish
<1>14. ASSUME Authorize PROVE LookUpsHold'
  <2>1. CASE main' = [main EXCEPT !.step = "lock"]
    BY <1>14, <2>1 DEF Authorize, Authorized, At, LookUpsHold, RequestOK, tables, Busy, Executing, SelectClearanceWhereId
  <2> QED
    BY <1>12, <1>14, <2>1 DEF Authorize
<1>15. ASSUME TakeLock PROVE LookUpsHold'
  BY <1>15 DEF TakeLock, At, LookUpsHold, RequestOK, tables, Busy, Executing, SelectClearanceWhereId
<1>16. ASSUME AddGuest PROVE LookUpsHold'
  <2>1. PICK g \in Guests \ hired : /\ hired' = hired \cup {g}
                                    /\ clearance' = [clearance EXCEPT ![g] = Level]
                                    /\ main' = [main EXCEPT !.step = "assign", !.guest = g]
    BY <1>16 DEF AddGuest
  <2>2. /\ At("change") /\ main.query = "level" /\ main.request \in Requests /\ owner' = owner
    BY <1>16 DEF AddGuest, Change, At, RequestOK, Executing, Busy
  <2>3. main.user = owner[main.request.signer] /\ main.request.signer \in Identifiers
    BY <2>2, RequestFields DEF LookUpsHold, At, Busy
  <2>4. main.user # g /\ main.user \in hired \cup {NoOwner} /\ NoOwner # g
    BY <2>1, <2>3 DEF OwnersExist, GatewayAssumption, Employees
  <2>5. SelectClearanceWhereId(main.user)' = SelectClearanceWhereId(main.user)
    BY <2>1, <2>4 DEF SelectClearanceWhereId, TypeOK
  <2> QED
    BY <2>1, <2>2, <2>3, <2>5 DEF LookUpsHold, At, Busy, Executing
<1>17. ASSUME CreateLog \/ Restart PROVE LookUpsHold'
  BY <1>3, <1>17, Zenon DEF CreateLog, Restart
<1>19. ASSUME ReplyReturns PROVE LookUpsHold'
  BY <1>2, <1>3, <1>19 DEF ReplyReturns, At, LookUp, RequestOK
<1>18. ASSUME RunFails \/ LevelOverflows \/ WriterStep PROVE LookUpsHold'
  BY <1>1, <1>18, Zenon DEF RunFails, LevelOverflows, WriterStep, TakeEntry, WriterTakesLock, WriterNewQuery,
                     WriterBind, WriteLog
<1> QED
  BY <1>4, <1>5, <1>7, <1>8, <1>9, <1>10, <1>11, <1>13, <1>14, <1>15, <1>16, <1>17, <1>18,
     <1>19
     DEF Next, LookUpStep, ExecuteStep

(* Recording puts the request at the end of the history.                   *)
LEMMA RecordFacts ==
    ASSUME GatewayAssumption, TypeOK, NEW r \in Requests, Record(r)
    PROVE  /\ Len(granted) \in Nat /\ Len(granted') = Len(granted) + 1
           /\ \A i \in DOMAIN granted : granted'[i] = granted[i]
           /\ Last'.command = r.command /\ Last'.author = owner[r.signer]
           /\ Last'.entitled = Entitled(r)
           /\ Last'.resigns = (r.command = "REMOVE" /\ r.target = r.signer)
           /\ DOMAIN granted = 1 .. Len(granted) /\ DOMAIN granted' = 1 .. Len(granted')
<1> DEFINE g == [command |-> r.command, author |-> owner[r.signer],
                 entitled |-> Entitled(r),
                 resigns |-> r.command = "REMOVE" /\ r.target = r.signer]
<1>1. granted \in Seq(Grants) /\ granted' = Append(granted, g) /\ granted' \in Seq(Grants)
  BY RecordType DEF TypeOK, Record
<1> HIDE DEF g
<1>2. Last' = g
  BY <1>1 DEF Last
<1>3. /\ Len(granted) \in Nat /\ Len(granted') = Len(granted) + 1
      /\ \A i \in DOMAIN granted : granted'[i] = granted[i]
      /\ DOMAIN granted = 1 .. Len(granted) /\ DOMAIN granted' = 1 .. Len(granted')
  BY <1>1
<1>4. /\ g.command = r.command /\ g.author = owner[r.signer] /\ g.entitled = Entitled(r)
      /\ g.resigns = (r.command = "REMOVE" /\ r.target = r.signer)
  BY Zenon DEF g
<1> QED
  BY <1>2, <1>3, <1>4, Zenon

(* Only what the tables entitle to is carried out.                         *)
LEMMA EntitledWhenGranted ==
    ASSUME GatewayAssumption, GatewayInv, TurnsTaken, LookUpsHold, Answer \/ Authorize
    PROVE  main.request \in Requests /\ Record(main.request) /\ Entitled(main.request)
<1>1. main.request \in Requests /\ Record(main.request) /\ At("decide")
  BY DEF Answer, Authorize, Authorized, GatewayInv, RequestOK, At, Busy
<1>2. ASSUME Authorize PROVE getClearance(main.request.signer) >= Required[main.request.command]
  BY <1>1, <1>2 DEF Authorize, Authorized, GatewayInv, RequestOK, LookUpsHold, At, Busy, getClearance
<1> QED
  BY <1>1, <1>2 DEF Answer, Authorize, Entitled

LEMMA GrantsPreserved ==
    ASSUME GatewayAssumption, GatewayInv, TurnsTaken, LookUpsHold, GrantsEntitled, Next
    PROVE  GrantsEntitled'
<1>1. CASE Answer \/ Authorize
  <2>1. main.request \in Requests /\ Record(main.request) /\ Entitled(main.request)
    BY <1>1, EntitledWhenGranted
  <2>2. TypeOK
    BY DEF GatewayInv
  <2>3. /\ Len(granted) \in Nat /\ Len(granted') = Len(granted) + 1
        /\ \A i \in DOMAIN granted : granted'[i] = granted[i]
        /\ Last'.entitled
        /\ DOMAIN granted = 1 .. Len(granted) /\ DOMAIN granted' = 1 .. Len(granted')
    BY <2>1, <2>2, RecordFacts
  <2> QED
    BY <2>3 DEF GrantsEntitled, Last
<1>2. CASE UNCHANGED granted
  BY <1>2 DEF GrantsEntitled
<1>3. (Answer \/ Authorize) \/ UNCHANGED granted
  BY DEF Next, LookUpStep, ExecuteStep, WriterStep, Receive, NewQuery, Bind, RunFails, SelectRequired,
         SelectOwner, SelectLevel, SelectAuthor, SelectCommand, Run, Refuse, LevelOverflows, ReplyReturns, TakeLock,
         AddExisting, AddGuest, AddIdentifier, RemoveIdentifier, SetClearance, SetClearanceRejects,
         Change, CreateLog, TakeEntry, WriterTakesLock, WriterNewQuery, WriterBind, WriteLog,
         Restart, history
<1> QED
  BY <1>1, <1>2, <1>3

(* Every step of a paced gateway leaves what the log still owes in one     *)
(* place: with the main thread, in the queue or with the log thread.       *)
LEMMA LogPreserved ==
    ASSUME GatewayAssumption, GatewayInv, paced, TurnsTaken, LookUpsHold, LogFollows, Next
    PROVE  LogFollows'
<1> /\ TypeOK /\ main \in MainThreads /\ writer \in LogThreads /\ RequestOK
    /\ queue \in Seq(Entries) /\ rows \in Seq(Entries) /\ granted \in Seq(Grants)
  BY DEF GatewayInv, TypeOK
<1> USE DEF MainThreads, LogThreads
<1>1. ASSUME main' = Idle, writer' = Waiting, queue' = <<>>, UNCHANGED <<rows, granted>>
      PROVE  LogFollows'
  BY <1>1 DEF LogFollows, Last, Idle, Waiting, Executing, Executed, Busy
<1>2. ASSUME NEW r \in Requests, Receive(r) PROVE LogFollows'
  <2>1. queue = <<>> /\ writer.step = "wait"
    BY <1>2 DEF Receive, LogThreadIsIdle
  <2>2. ~Executing' /\ ~Executed' /\ main'.step # "enqueue"
    BY <1>2 DEF Receive, Executing, Executed, Busy, Idle
  <2> QED
    BY <1>2, <2>1, <2>2 DEF Receive, LogFollows, Last
<1>3. ASSUME NewQuery \/ Bind PROVE LogFollows'
  <2>1. /\ UNCHANGED <<owner, queue, writer, rows, granted, main.request, main.query, main.user>>
        /\ ~Executing' /\ Busy /\ Busy' /\ main'.step # "enqueue"
    BY <1>3 DEF NewQuery, Bind, At, tables, history, Executing, Busy
  <2> QED
    BY <2>1 DEF LogFollows, Last, Names, AuthorOf, Executed
<1>4. ASSUME NEW q, Run(q)
      PROVE  /\ Own /\ Busy /\ main.query = q /\ ~Executing /\ queue = <<>> /\ writer.step = "wait"
             /\ UNCHANGED <<owner, queue, writer, rows, granted>>
  BY <1>4 DEF Run, At, Own, tables, history, TurnsTaken, Busy, Executing, LogThreadIsIdle
<1>5. ASSUME SelectRequired \/ SelectOwner \/ SelectLevel PROVE LogFollows'
  <2>1. ~Executing' /\ ~Executed' /\ main'.step # "enqueue"
    <3>1. CASE SelectRequired
      BY <3>1 DEF SelectRequired, Executing, Executed, Busy
    <3>2. CASE SelectOwner
      BY <3>2 DEF SelectOwner, Executing, Executed, Busy
    <3>3. CASE SelectLevel
      BY <3>3 DEF SelectLevel, Run, Executing, Executed, Busy
    <3> QED
      BY <1>5, <3>1, <3>2, <3>3
  <2>2. queue = <<>> /\ writer.step = "wait" /\ UNCHANGED <<queue, writer, rows, granted>>
    BY <1>4, <1>5 DEF SelectRequired, SelectOwner, SelectLevel
  <2> QED
    BY <2>1, <2>2 DEF LogFollows
<1>6. ASSUME SelectAuthor PROVE LogFollows'
  <2>1. /\ Own /\ Executed /\ main.query = "author" /\ queue = <<>> /\ writer.step = "wait"
        /\ UNCHANGED <<owner, queue, writer, rows, granted>>
    BY <1>4, <1>6 DEF SelectAuthor, Executed
  <2>2. /\ main'.user = owner[main.request.signer] /\ main'.query = "command"
        /\ main'.step = "new" /\ main'.request = main.request
    BY <1>6, <2>1 DEF SelectAuthor, Found
  <2> QED
    BY <2>1, <2>2 DEF LogFollows, Last, AuthorOf, Executing, Executed, Busy
<1>7. ASSUME SelectCommand PROVE LogFollows'
  <2>1. /\ Own /\ Executed /\ main.query = "command" /\ queue = <<>> /\ writer.step = "wait"
        /\ UNCHANGED <<owner, queue, writer, rows, granted>>
    BY <1>4, <1>7 DEF SelectCommand, Executed
  <2>2. /\ main'.command = main.request.command /\ main'.query = "command"
        /\ main'.step = "enqueue" /\ main'.request = main.request /\ main'.user = main.user
    BY <1>7, <2>1 DEF SelectCommand, Found
  <2> QED
    BY <2>1, <2>2 DEF LogFollows, Last, AuthorOf, Executing, Executed, Busy
<1>8. ASSUME Busy PROVE queue = <<>> /\ writer.step = "wait" /\ main.step # "idle"
  BY <1>8 DEF TurnsTaken, LogThreadIsIdle, Busy
<1>9. ASSUME Refuse PROVE LogFollows'
  <2>1. queue = <<>> /\ writer.step = "wait"
    BY <1>8, <1>9 DEF Refuse, At, Busy
  <2> QED
    BY <1>9, <2>1 DEF Refuse, SendReply, LogFollows, Executing, Executed, Busy, history
<1>26. ASSUME ReplyReturns PROVE LogFollows'
  <2>1. queue = <<>> /\ writer.step = "wait" /\ Busy /\ ~Executing
    BY <1>8, <1>26 DEF ReplyReturns, At, Busy, Executing
  <2>2. CASE main.query = "nothing"
    BY <1>26, <2>1, <2>2 DEF ReplyReturns, LogFollows, Executing, Executed, Busy, Idle, history
  <2>3. CASE main.query = "author"
    <3>1. /\ UNCHANGED <<owner, queue, writer, rows, granted, main.request, main.query>>
          /\ ~Executing' /\ Busy' /\ main'.step # "enqueue"
      BY <1>26, <2>3 DEF ReplyReturns, LookUp, tables, history, Executing, Busy
    <3> QED
      BY <2>1, <2>3, <3>1 DEF LogFollows, Last, Names, AuthorOf, Executed
  <2> QED
    BY <1>26, <2>2, <2>3 DEF ReplyReturns, At, RequestOK
<1>27. ASSUME LevelOverflows PROVE LogFollows'
  BY <1>27 DEF LevelOverflows, tables, history, LogFollows, Last, Names, AuthorOf, Executing, Executed, Busy
<1>10. ASSUME Answer \/ Authorize
       PROVE  /\ queue' = <<>> /\ writer'.step = "wait" /\ owner' = owner
              /\ Len(rows') < Len(granted')
              /\ main'.request = main.request /\ main'.step # "enqueue"
              /\ Last'.command = main.request.command
              /\ Last'.author = owner[main.request.signer]
              /\ Last'.resigns <=> main.request.command = "REMOVE"
                                   /\ main.request.target = main.request.signer
  <2>1. main.request \in Requests /\ Record(main.request)
    BY <1>10, EntitledWhenGranted
  <2>2. queue = <<>> /\ writer.step = "wait"
    BY <1>8, <1>10 DEF Answer, Authorize, Authorized, At, Busy
  <2>3. /\ UNCHANGED <<owner, queue, writer, rows>> /\ main'.request = main.request
        /\ main'.step # "enqueue"
    BY <1>10 DEF Answer, Authorize, SendReply, tables
  <2>4. Len(rows) <= Len(granted) /\ Len(rows) \in Nat
    BY DEF LogFollows
  <2>5. Len(granted) \in Nat /\ Len(granted') = Len(granted) + 1
    BY <2>1, RecordFacts
  <2>6. Len(rows') < Len(granted')
    <3>1. rows' = rows
      BY <2>3
    <3>2. Len(rows) < Len(granted) + 1
      BY <2>4, <2>5, OneMore, Zenon
    <3> QED
      BY <2>5, <3>1, <3>2, Zenon
  <2> QED
    BY <2>1, <2>2, <2>3, <2>6, RecordFacts, Zenon
<1>11. ASSUME Answer \/ Authorize, SendReply("author") PROVE LogFollows'
  <2>1. ~(main.request.command = "REMOVE" /\ main.request.target = main.request.signer)
    BY <1>11 DEF Answer, Authorize, SendReply, Changing
  <2>2. ~Executing' /\ Executed' /\ main'.query = "author"
    BY <1>11 DEF SendReply, Executing, Executed, Busy
  <2> QED
    BY <1>10, <1>11, <2>1, <2>2 DEF LogFollows, AuthorOf
<1>12. ASSUME Authorize, main' = [main EXCEPT !.step = "lock"] PROVE LogFollows'
  <2>1. Executing' /\ ~Executed'
    BY <1>12 DEF Authorize, Authorized, At, RequestOK, Executing, Executed
  <2> QED
    BY <1>10, <1>12, <2>1 DEF LogFollows, Executing, Executed
<1>13. ASSUME TakeLock \/ AddGuest PROVE LogFollows'
  <2>1. /\ Executing /\ Executing' /\ UNCHANGED <<owner, queue, writer, rows, granted, main.request>>
        /\ main'.query = "level" /\ main'.step # "enqueue"
    BY <1>13 DEF TakeLock, AddGuest, Change, At, tables, history, RequestOK, Executing
  <2>2. queue = <<>> /\ writer.step = "wait" /\ ~Executed'
    BY <1>8, <2>1 DEF Executing, Executed, Busy
  <2> QED
    BY <2>1, <2>2 DEF LogFollows, Last, Executed
<1>14. ASSUME Executing, Finish, UNCHANGED <<queue, writer, rows, granted>>,
              owner'[main.request.signer] = AuthorOf(Last)
       PROVE  LogFollows'
  <2>1. queue = <<>> /\ writer.step = "wait"
    BY <1>8, <1>14 DEF Executing, Busy
  <2>2. /\ ~Executing' /\ Executed' /\ main'.query = "author" /\ main'.request = main.request
        /\ main'.step = "reply"
    BY <1>14 DEF Finish, SendReply, Executing, Executed, Busy
  <2> QED
    BY <1>14, <2>1, <2>2 DEF LogFollows, Last, AuthorOf
<1>15. ASSUME AddExisting \/ SetClearance \/ SetClearanceRejects PROVE LogFollows'
  <2>1. /\ Executing /\ Finish /\ UNCHANGED <<queue, writer, rows, granted, owner>>
        /\ main.request.command # "REMOVE"
    BY <1>15 DEF AddExisting, SetClearance, SetClearanceRejects, Change, At, tables, history, Executing
  <2>2. owner'[main.request.signer] = AuthorOf(Last)
    BY <2>1 DEF LogFollows, AuthorOf
  <2> QED
    BY <1>14, <2>1, <2>2
<1>16. ASSUME RemoveIdentifier PROVE LogFollows'
  <2>1. /\ Executing /\ Finish /\ UNCHANGED <<queue, writer, rows, granted>> /\ Busy
        /\ main.request.command = "REMOVE" /\ owner' = [owner EXCEPT ![main.request.target] = NoOwner]
    BY <1>16 DEF RemoveIdentifier, Change, At, history, Executing, Busy
  <2>2. main.request.signer \in Identifiers /\ owner \in [Identifiers -> Employees \cup {NoOwner}]
    BY <2>1, RequestFields DEF RequestOK, TypeOK
  <2>3. owner'[main.request.signer] = AuthorOf(Last)
    BY <2>1, <2>2 DEF LogFollows, AuthorOf
  <2> QED
    BY <1>14, <2>1, <2>3
<1>17. ASSUME AddIdentifier PROVE LogFollows'
  <2>1. /\ Executing /\ Finish /\ UNCHANGED <<queue, writer, rows, granted>> /\ Busy
        /\ main.request.command = "ADD" /\ owner' = [owner EXCEPT ![main.request.target] = main.guest]
        /\ owner[main.request.target] = NoOwner
    BY <1>17 DEF AddIdentifier, At, history, Executing, Busy, RequestOK
  <2>2. main.request.signer \in Identifiers /\ owner \in [Identifiers -> Employees \cup {NoOwner}]
        /\ main.request.command \in Commands
    BY <2>1, RequestFields DEF RequestOK, TypeOK
  <2>3. owner[main.request.signer] # NoOwner
    <3>1. /\ main.user = owner[main.request.signer] /\ main.query = "level"
          /\ main.level = SelectClearanceWhereId(main.user) /\ main.level >= main.required
          /\ main.required = Required["ADD"]
      BY <2>1 DEF RequestOK, LookUpsHold
    <3>2. Required["ADD"] \in 0 .. 127
      BY DEF GatewayAssumption, Commands, NO_CLEARANCE, MAX_CLEARANCE
    <3>3. NoOwner \notin hired
      BY DEF TypeOK, GatewayAssumption
    <3>4. owner[main.request.signer] = NoOwner => main.level = NO_CLEARANCE
      BY <3>1, <3>3 DEF SelectClearanceWhereId
    <3>5. main.level >= Required["ADD"]
      BY <3>1
    <3> QED
      BY <3>2, <3>4, <3>5, NobodyIsCleared, Zenon
  <2>4. owner'[main.request.signer] = AuthorOf(Last)
    BY <2>1, <2>2, <2>3 DEF LogFollows, AuthorOf
  <2> QED
    BY <1>14, <2>1, <2>4
<1>18. ASSUME CreateLog PROVE LogFollows'
  <2>1. /\ Executed /\ main.query = "command" /\ queue = <<>> /\ writer.step = "wait"
        /\ main.command = Last.command /\ main.user = AuthorOf(Last) /\ Len(rows) < Len(granted)
    BY <1>8, <1>18 DEF CreateLog, At, Executed, Busy, RequestOK, LogFollows
  <2>2. Head(queue') = [user |-> main.user, command |-> main.command]
    BY <1>18, <2>1 DEF CreateLog
  <2>3. Names(Head(queue'), Last)
    BY <2>1, <2>2 DEF Names, AuthorOf
  <2> QED
    BY <1>18, <2>1, <2>3 DEF CreateLog, LogFollows, Last, Names, Idle, Executing, Executed, Busy, history
<1>19. ASSUME WriterStep PROVE main.step = "idle"
  BY <1>19 DEF WriterStep, TakeEntry, WriterTakesLock, WriterNewQuery, WriterBind, WriteLog, WriterAt,
               TurnsTaken, Busy, LogThreadIsIdle
<1>20. ASSUME TakeEntry PROVE LogFollows'
  <2>1. main.step = "idle" /\ queue # <<>> /\ writer.step = "wait" /\ main' = main
    BY <1>19, <1>20 DEF WriterStep, TakeEntry, WriterAt
  <2>2. Names(Head(queue), Last) /\ Len(rows) < Len(granted) /\ queue' = <<>>
    <3>1. TurnsTaken'
      BY <1>20, TurnsPreserved DEF Next, WriterStep
    <3> QED
      BY <1>20, <2>1, <3>1 DEF LogFollows, TurnsTaken, TakeEntry
  <2> QED
    BY <1>20, <2>1, <2>2 DEF TakeEntry, LogFollows, Last, Names, Executing, Executed, Busy, history
<1>21. ASSUME WriterTakesLock \/ WriterNewQuery \/ WriterBind PROVE LogFollows'
  <2>1. main.step = "idle" /\ writer.step # "wait" /\ ~dead'
    <3>1. TurnsTaken'
      BY <1>21, TurnsPreserved DEF Next, WriterStep
    <3> QED
      BY <1>19, <1>21, <3>1 DEF WriterStep, TurnsTaken, Overflowed, WriterTakesLock, WriterNewQuery, WriterBind, WriterAt
  <2>2. UNCHANGED <<main, queue, rows, granted>> /\ writer'.entry = writer.entry
        /\ writer'.step # "wait"
    BY <1>21, <2>1 DEF WriterTakesLock, WriterNewQuery, WriterBind, history
  <2> QED
    BY <2>1, <2>2 DEF LogFollows, Last, Names, Executing, Executed, Busy
<1>22. ASSUME WriteLog PROVE LogFollows'
  <2>1. /\ main.step = "idle" /\ writer.step = "run" /\ bound = "writer" /\ queue = <<>>
        /\ Len(rows) < Len(granted)
    BY <1>19, <1>22 DEF WriterStep, WriteLog, WriterAt, TurnsTaken, LogFollows
  <2>2. /\ UNCHANGED <<main, queue, granted>> /\ writer'.step = "wait"
        /\ rows' = Append(rows, writer.entry)
    BY <1>22, <2>1 DEF WriteLog, history
  <2>3. Len(rows') = Len(rows) + 1 /\ Len(rows) \in Nat /\ Len(granted) \in Nat
    BY <2>2 DEF Entries
  <2> QED
    BY <2>1, <2>2, <2>3 DEF LogFollows, Executing, Executed, Busy
<1>23. ASSUME RunFails PROVE FALSE
  BY <1>23 DEF RunFails, At, Own, TurnsTaken
<1>24. ASSUME Restart PROVE LogFollows'
  BY <1>1, <1>24 DEF Restart
<1>25. ASSUME Answer \/ Authorize PROVE LogFollows'
  BY <1>11, <1>12, <1>25, Zenon DEF Answer, Authorize
<1> QED
  BY <1>2, <1>3, <1>5, <1>6, <1>7, <1>9, <1>13, <1>15, <1>16, <1>17, <1>18, <1>20, <1>21,
     <1>22, <1>23, <1>24, <1>25, <1>26, <1>27
     DEF Next, LookUpStep, ExecuteStep, WriterStep

(* A row is written when Len(rows) < Len(granted), and names what was      *)
(* carried out last.                                                       *)
LEMMA RowsPreserved ==
    ASSUME GatewayAssumption, GatewayInv, paced, TurnsTaken, LookUpsHold, LogFollows,
           RowsNameAuthors, Next
    PROVE  RowsNameAuthors'
<1> /\ TypeOK /\ writer \in LogThreads
    /\ rows \in Seq(Entries) /\ granted \in Seq(Grants)
  BY DEF GatewayInv, TypeOK
<1>1. CASE UNCHANGED <<rows, granted>>
  BY <1>1 DEF RowsNameAuthors, Names
<1>2. CASE Answer \/ Authorize
  <2>1. main.request \in Requests /\ Record(main.request) /\ rows' = rows
    BY <1>2, EntitledWhenGranted DEF Answer, Authorize
  <2>2. \A i \in DOMAIN granted : i \in DOMAIN granted' /\ granted'[i] = granted[i]
    BY <2>1, RecordFacts
  <2>3. ASSUME NEW i \in DOMAIN rows
        PROVE  \E j \in DOMAIN granted' : i <= j /\ Names(rows[i], granted'[j])
    <3>1. PICK j \in DOMAIN granted : i <= j /\ Names(rows[i], granted[j])
      BY Zenon DEF RowsNameAuthors
    <3>2. j \in DOMAIN granted' /\ granted'[j] = granted[j]
      BY <2>2
    <3>3. Names(rows[i], granted'[j])
      BY <3>1, <3>2
    <3> QED
      BY <3>1, <3>2, <3>3, Zenon
  <2> QED
    BY <2>1, <2>3, Zenon DEF RowsNameAuthors, Names
<1>3. CASE WriteLog
  <2>1. /\ writer.step = "run" /\ bound = "writer" /\ Len(rows) < Len(granted)
        /\ Names(writer.entry, Last) /\ granted' = granted /\ rows' = Append(rows, writer.entry)
    BY <1>3 DEF WriteLog, WriterAt, TurnsTaken, LogFollows, history
  <2>2. /\ Len(rows) \in Nat /\ Len(granted) \in Nat /\ DOMAIN granted = 1 .. Len(granted)
        /\ DOMAIN rows' = 1 .. Len(rows) + 1 /\ DOMAIN rows = 1 .. Len(rows)
        /\ \A i \in DOMAIN rows : rows'[i] = rows[i]
        /\ rows'[Len(rows) + 1] = writer.entry
    BY <2>1 DEF LogThreads
  <2>3. ASSUME NEW i \in DOMAIN rows'
        PROVE  \E j \in DOMAIN granted' : i <= j /\ Names(rows'[i], granted'[j])
    <3>1. CASE i \in DOMAIN rows
      <4>1. PICK j \in DOMAIN granted : i <= j /\ Names(rows[i], granted[j])
        BY <3>1, Zenon DEF RowsNameAuthors
      <4>2. rows'[i] = rows[i] /\ granted' = granted
        BY <2>1, <2>2, <3>1
      <4> QED
        BY <4>1, <4>2
    <3>2. CASE i = Len(rows) + 1
      <4>1. /\ rows'[i] = writer.entry /\ granted' = granted /\ i <= Len(granted)
            /\ Len(granted) \in DOMAIN granted
        BY <2>1, <2>2, <3>2
      <4>2. Names(writer.entry, granted[Len(granted)])
        BY <2>1, Zenon DEF Last
      <4> QED
        BY <4>1, <4>2
    <3> QED
      BY <2>2, <3>1, <3>2
  <2> QED
    BY <2>3 DEF RowsNameAuthors, Names
<1>4. ASSUME NEW q, Run(q) PROVE UNCHANGED <<rows, granted>>
  BY <1>4 DEF Run, At, Own, TurnsTaken, history
<1>5. UNCHANGED <<rows, granted>> \/ (Answer \/ Authorize) \/ WriteLog
  <2>1. ASSUME SelectRequired \/ SelectOwner \/ SelectLevel \/ SelectAuthor \/ SelectCommand
        PROVE  UNCHANGED <<rows, granted>>
    BY <1>4, <2>1, Zenon DEF SelectRequired, SelectOwner, SelectLevel, SelectAuthor, SelectCommand
  <2> QED
    BY <2>1 DEF Next, LookUpStep, ExecuteStep, WriterStep, Receive, NewQuery, Bind, RunFails,
         Refuse, LevelOverflows, ReplyReturns, TakeLock, AddExisting, AddGuest, AddIdentifier, RemoveIdentifier, SetClearance,
         SetClearanceRejects, Change, CreateLog, TakeEntry, WriterTakesLock, WriterNewQuery,
         WriterBind, Restart, history
<1> QED
  BY <1>1, <1>2, <1>3, <1>5

(* The invariant of a paced gateway.                                       *)
THEOREM PacedInvariant == GatewayAssumption => (Spec => []PacedInv)
<1> SUFFICES ASSUME GatewayAssumption PROVE Spec => []PacedInv
  OBVIOUS
<1>1. Init => PacedInv
  <2> SUFFICES ASSUME Init PROVE PacedOK
    BY DEF PacedInv
  <2>1. TurnsTaken /\ LookUpsHold
    BY DEF Init, TurnsTaken, LookUpsHold, LogThreadIsIdle, Busy, Executing, Idle, Waiting
  <2>2. GrantsEntitled /\ RowsNameAuthors
    BY DEF Init, GrantsEntitled, RowsNameAuthors
  <2>3. LogFollows
    BY DEF Init, LogFollows, Executing, Executed, Busy, Idle, Waiting
  <2> QED
    BY <2>1, <2>2, <2>3 DEF PacedOK
<1>2. GatewayInv /\ PacedInv /\ [Next]_vars => PacedInv'
  <2> SUFFICES ASSUME GatewayInv, PacedInv, [Next]_vars, paced' PROVE PacedOK'
    BY DEF PacedInv
  <2>1. paced
    BY DEF vars, history, Next, LookUpStep, ExecuteStep, WriterStep, Receive, NewQuery, Bind, RunFails,
         SelectRequired, SelectOwner, SelectLevel, SelectAuthor, SelectCommand, Run, Refuse, ReplyReturns,
         Answer, LevelOverflows, Authorize, TakeLock, AddExisting, AddGuest, AddIdentifier, RemoveIdentifier,
         SetClearance, SetClearanceRejects, Change, CreateLog, TakeEntry, WriterTakesLock,
         WriterNewQuery, WriterBind, WriteLog, Restart
  <2>2. PacedOK
    BY <2>1, Zenon DEF PacedInv
  <2>3. CASE Next
    BY <2>1, <2>2, <2>3, TurnsPreserved, LookUpsPreserved, GrantsPreserved, LogPreserved,
       RowsPreserved, Zenon DEF PacedOK
  <2>4. CASE UNCHANGED vars
    BY <2>2, <2>4 DEF vars, tables, statements, history, PacedOK, TurnsTaken, Overflowed, LookUpsHold,
         GrantsEntitled, LogFollows, RowsNameAuthors, Names, Last, AuthorOf, Executing, Executed,
         Busy, LogThreadIsIdle, SelectClearanceWhereId
  <2> QED
    BY <2>3, <2>4
<1> QED
  BY <1>1, <1>2, GatewayInvariant, PTL DEF Spec

(* When requests leave the log thread the time to finish, nothing is       *)
(* carried out without the clearance that its command requires.            *)
THEOREM OnlyEntitledIsDone == GatewayAssumption => (Spec => []PacedAuthorizedOnly)
<1>1. PacedInv => PacedAuthorizedOnly
  BY DEF PacedInv, PacedOK, GrantsEntitled, PacedAuthorizedOnly
<1> QED
  BY <1>1, PacedInvariant, PTL

(* And the log then has one row at most for each request that was carried  *)
(* out, which names its author, and nothing ends the process but a level   *)
(* that no int holds.                                                      *)
THEOREM LogNamesAuthors == GatewayAssumption => (Spec => []PacedRowsNameAuthors)
<1>1. PacedInv => PacedRowsNameAuthors
  BY DEF PacedInv, PacedOK, TurnsTaken, PacedRowsNameAuthors
<1> QED
  BY <1>1, PacedInvariant, PTL

-----------------------------------------------------------------------------
(* Whoever signs has the clearance while his request is carried out.       *)
LEMMA SignerMayOrder ==
    ASSUME GatewayAssumption, GatewayInv, PacedInv, Executing
    PROVE  paced => \E id \in Identifiers : Rights!MayOrder(id, main.request.command)
<1> SUFFICES ASSUME paced
             PROVE  \E id \in Identifiers : Rights!MayOrder(id, main.request.command)
  OBVIOUS
<1> DEFINE e == owner[main.request.signer]
<1>1. TypeOK /\ RequestOK /\ OwnersExist /\ LookUpsHold /\ Busy
  BY DEF GatewayInv, PacedInv, PacedOK, Executing, Busy
<1>2. main.request.signer \in Identifiers /\ main.request.command \in Commands
  BY <1>1, RequestFields DEF RequestOK
<1>3. /\ main.request.command \in Changing /\ main.query = "level"
      /\ main.user = e /\ main.level = SelectClearanceWhereId(e)
      /\ main.level >= Required[main.request.command]
  BY <1>1 DEF RequestOK, LookUpsHold
<1>4. Required[main.request.command] \in 0 .. 127
  BY <1>2 DEF GatewayAssumption, NO_CLEARANCE, MAX_CLEARANCE
<1>5. e \in hired
  <2>1. e \notin hired => main.level = NO_CLEARANCE
    BY <1>3, Zenon DEF SelectClearanceWhereId
  <2> QED
    BY <1>3, <1>4, <2>1, NobodyIsCleared, Zenon
<1>6. clearance[e] >= Required[main.request.command]
  BY <1>3, <1>5, Zenon DEF SelectClearanceWhereId
<1> QED
  BY <1>2, <1>5, <1>6, Zenon DEF Rights!MayOrder

(* The gateway implements AccessRights: whatever the two threads do to     *)
(* each other, the tables change only by hiring a guest for an identifier  *)
(* nobody has, by forgetting an identifier or by setting a valid level,    *)
(* and, when requests are paced, on the word of somebody entitled to it.   *)
THEOREM GatewayImplementsRights == GatewayAssumption => (Spec => ImplementsAccessRights)
<1> SUFFICES ASSUME GatewayAssumption PROVE Spec => Rights!Spec
  BY Zenon DEF ImplementsAccessRights
<1>1. Init => Rights!Init
  BY DEF Init, Rights!Init, Employees, NO_CLEARANCE, GatewayAssumption
<1>2. GatewayInv /\ PacedInv /\ [Next]_vars => [Rights!Next]_Rights!vars
  <2> SUFFICES ASSUME GatewayInv, PacedInv, [Next]_vars
               PROVE  Rights!Next \/ UNCHANGED Rights!vars
    OBVIOUS
  <2> TypeOK /\ OwnersExist /\ RequestOK
    BY DEF GatewayInv
  <2>1. ASSUME UNCHANGED tables, paced' = paced PROVE UNCHANGED Rights!vars
    BY <2>1 DEF tables, Rights!vars
  <2>2. paced' = paced
    BY DEF vars, history, Next, LookUpStep, ExecuteStep, WriterStep, Receive, NewQuery, Bind, RunFails,
         SelectRequired, SelectOwner, SelectLevel, SelectAuthor, SelectCommand, Run, Refuse, ReplyReturns,
         Answer, LevelOverflows, Authorize, TakeLock, AddExisting, AddGuest, AddIdentifier, RemoveIdentifier,
         SetClearance, SetClearanceRejects, Change, CreateLog, TakeEntry, WriterTakesLock,
         WriterNewQuery, WriterBind, WriteLog, Restart
  <2>3. ASSUME NEW c, Executing, main.request.command = c PROVE Rights!Ordered(c)
    BY <2>2, <2>3, SignerMayOrder, Zenon DEF Rights!Ordered
  <2>4. ASSUME AddGuest PROVE Rights!Next
    <3>1. Rights!Ordered("ADD") /\ owner' = owner
      BY <2>3, <2>4 DEF AddGuest, Change, At, Executing
    <3>2. PICK g \in Guests \ hired : /\ hired' = hired \cup {g}
                                      /\ clearance' = [clearance EXCEPT ![g] = Level]
      BY <2>4 DEF AddGuest
    <3>3. main.request \in Requests /\ main.request.level # OutOfRange
      BY <2>4 DEF AddGuest, Change, At, Busy, Executing, RequestOK
    <3>4. Level \in Rights!Clearances
      BY <3>3, RequestFields, LevelIsClearance DEF Level, Clearances, Rights!Clearances
    <3>5. Rights!Hire
      BY <3>1, <3>2, <3>4, Zenon DEF Rights!Hire
    <3> QED
      BY <3>5 DEF Rights!Next
  <2>5. ASSUME AddIdentifier PROVE Rights!Next
    <3>1. /\ Rights!Ordered("ADD") /\ UNCHANGED <<hired, clearance>>
          /\ owner' = [owner EXCEPT ![main.request.target] = main.guest]
      BY <2>3, <2>5 DEF AddIdentifier, At, Executing, RequestOK
    <3>2. /\ main.guest \in Guests \cap hired /\ owner[main.request.target] = NoOwner
          /\ main.request.target \in Identifiers /\ \A id \in Identifiers : owner[id] # main.guest
      BY <2>5, RequestFields DEF AddIdentifier, At, Busy, RequestOK
    <3>3. main.guest \notin {owner[i] : i \in Identifiers}
      BY <3>2
    <3>4. Rights!Add
      BY <3>1, <3>2, <3>3 DEF Rights!Add
    <3> QED
      BY <3>4 DEF Rights!Next
  <2>6. ASSUME RemoveIdentifier PROVE Rights!Next
    <3>1. /\ Rights!Ordered("REMOVE") /\ UNCHANGED <<hired, clearance>>
          /\ owner' = [owner EXCEPT ![main.request.target] = NoOwner]
      BY <2>3, <2>6 DEF RemoveIdentifier, Change, At, Executing
    <3>2. main.request.target \in Identifiers
      BY <2>6, RequestFields DEF RemoveIdentifier, Change, At, Busy, RequestOK
    <3>3. Rights!Remove
      BY <3>1, <3>2 DEF Rights!Remove
    <3> QED
      BY <3>3 DEF Rights!Next
  <2>7. ASSUME SetClearance PROVE Rights!Next \/ UNCHANGED Rights!vars
    <3> DEFINE e == owner[main.request.target]
    <3>1. /\ Rights!Ordered("SET_CLNC") /\ UNCHANGED <<owner, hired>>
          /\ clearance' = IF e = NoOwner THEN clearance ELSE [clearance EXCEPT ![e] = Level]
      BY <2>3, <2>7 DEF SetClearance, Change, At, Executing
    <3>2. /\ main.request \in Requests /\ main.request.target \in Identifiers
          /\ main.request.level # OutOfRange
      BY <2>7, RequestFields DEF SetClearance, Change, At, Busy, Executing, RequestOK
    <3>3. CASE e = NoOwner
      BY <2>1, <2>2, <3>1, <3>3 DEF tables
    <3>4. CASE e # NoOwner
      <4>1. e \in hired
        BY <3>2, <3>4 DEF OwnersExist
      <4>2. Level \in -1 .. 126
        <5>1. Level \in Clearances /\ isValidClearance(Level)
          BY <2>7, <3>2, RequestFields, LevelIsClearance DEF SetClearance, Level
        <5> QED
          BY <5>1 DEF isValidClearance, Clearances, NO_CLEARANCE, MAX_CLEARANCE
      <4>3. Rights!SetClearance
        BY <3>1, <3>2, <3>4, <4>1, <4>2, Zenon DEF Rights!SetClearance
      <4> QED
        BY <4>3 DEF Rights!Next
    <3> QED
      BY <3>3, <3>4
  <2>8. (AddGuest \/ AddIdentifier \/ RemoveIdentifier \/ SetClearance) \/ UNCHANGED tables
    BY DEF vars, Next, LookUpStep, ExecuteStep, WriterStep, Receive, NewQuery, Bind, RunFails,
         SelectRequired, SelectOwner, SelectLevel, SelectAuthor, SelectCommand, Run, Refuse, ReplyReturns,
         Answer, LevelOverflows, Authorize, TakeLock, AddExisting, SetClearanceRejects, CreateLog, TakeEntry,
         WriterTakesLock, WriterNewQuery, WriterBind, WriteLog, Restart
  <2> QED
    BY <2>1, <2>2, <2>4, <2>5, <2>6, <2>7, <2>8
<1> QED
  BY <1>1, <1>2, GatewayInvariant, PacedInvariant, PTL DEF Spec, Rights!Spec
=============================================================================
