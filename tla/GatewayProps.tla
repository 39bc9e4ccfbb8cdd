----------------------------- MODULE GatewayProps -----------------------------
(***************************************************************************)
(* What is expected of the database gateway.                               *)
(***************************************************************************)
EXTENDS Gateway

Entries == [user : Employees \cup {NoOwner}, command : Commands \cup {"none"}]

MainSteps == {"idle", "new", "bind", "run", "decide", "lock", "change", "assign", "reply",
              "enqueue"}

Queries == {"required", "user", "level", "author", "command", "nothing"}

MainThreads ==
    [step : MainSteps, request : Requests \cup {NoRequest}, query : Queries,
     pointer : {"main", "writer"}, required : Clearances,
     user : Employees \cup {NoOwner}, level : Clearances,
     guest : Employees \cup {NoOwner}, command : Commands \cup {"none"}]

LogThreads ==
    [step : {"wait", "lock", "new", "bind", "run"}, pointer : {"main", "writer"},
     entry : Entries]

Grants == [command : Commands, author : Employees \cup {NoOwner},
           entitled : BOOLEAN, resigns : BOOLEAN]

(* Every variable has the values the code can give it.                     *)
TypeOK ==
    /\ owner \in [Identifiers -> Employees \cup {NoOwner}]
    /\ hired \in SUBSET Employees
    /\ clearance \in [Employees -> Clearances]
    /\ current \in {"main", "writer"}
    /\ bound \in {"nobody", "main", "writer"}
    /\ lock \in {"free", "main", "writer"}
    /\ main \in MainThreads
    /\ queue \in Seq(Entries)
    /\ Len(queue) <= LogQueueSize
    /\ writer \in LogThreads
    /\ rows \in Seq(Entries)
    /\ dead \in BOOLEAN
    /\ granted \in Seq(Grants)
    /\ requests \in 0 .. MaxRequests[paced]
    /\ crashes \in 0 .. MaxCrashes
    /\ paced \in BOOLEAN

(* Whatever has been added, removed or interrupted half-way, an identifier *)
(* in the tables has an owner in the Employees table.                      *)
OwnersExist == \A id \in Identifiers : owner[id] \in hired \cup {NoOwner}

(* While requests leave the log thread the time to finish, a request is    *)
(* carried out only if the tables, as they are then, give its signer the   *)
(* clearance its command requires ("Returns true if employee is authorized *)
(* to execute request/command", DatabaseRequest.hpp:88).                   *)
PacedAuthorizedOnly == paced => \A i \in DOMAIN granted : granted[i].entitled

(* The log has one row at most for each request that was carried out, of   *)
(* its command and its author, in their order ("Creates database log table *)
(* entry based on `logEntry` object", DatabaseObject.hpp:111).  Somebody   *)
(* who removes the identifier he signs with is logged as nobody.           *)
Names(row, g) ==
    /\ row.command = g.command
    /\ row.user = IF g.resigns THEN NoOwner ELSE g.author

RowsNameAuthors ==
    \A i \in DOMAIN rows :
        \E j \in DOMAIN granted : i <= j /\ Names(rows[i], granted[j])

(* It is so when requests leave the log thread the time to finish: then no *)
(* query of one thread delivers a row to the other, or ends the process;   *)
(* only a level that no int holds does.                                    *)
Overflowed == main.step = "decide" /\ main.request.level = OutOfRange

PacedRowsNameAuthors == paced => RowsNameAuthors /\ (dead => Overflowed)

(* createNewUniqueGuest finds every name taken, and holds the write lock.  *)
OutOfNames ==
    /\ main.step = "change" /\ main.request.command = "ADD"
    /\ owner[main.request.target] = NoOwner
    /\ Guests \subseteq hired

(* The gateway gets done with every request, unless the process has died   *)
(* or searches for a name: neither the write lock nor the queue of the log *)
(* thread makes the two threads wait for each other.                       *)
EveryRequestEnds == (main.step # "idle") ~> (main.step = "idle" \/ dead \/ OutOfNames)

(* What has been queued for the log is written or lost in a crash, unless  *)
(* the lock is held for ever by a search for a name.                       *)
LogDrains == (~LogThreadIsIdle) ~> (LogThreadIsIdle \/ dead \/ OutOfNames)

(* The gateway becomes idle again if the main application takes its        *)
(* replies; the log is written even if it never does.                      *)
RepliesAreTaken == []<>(main.step # "reply")

GatewaySettles == (RepliesAreTaken => EveryRequestEnds) /\ LogDrains

(* The rights of the employees change as AccessRights says; the changes    *)
(* are supervised when requests are paced.                                 *)
Rights == INSTANCE AccessRights WITH supervised <- paced

ImplementsAccessRights == Rights!Spec
=============================================================================
