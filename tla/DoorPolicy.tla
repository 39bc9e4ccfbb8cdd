----------------------------- MODULE DoorPolicy ------------------------------
(***************************************************************************)
(* What the main application may do with the door and with the guest       *)
(* switch.  Requests are numbered as they are made; whatever is done on    *)
(* the gateway's word is done on its word about the last one, once, and    *)
(* not after the user has cancelled it.  Timers, threads, mailboxes and    *)
(* the states of the automata are not visible here.                        *)
(***************************************************************************)
EXTENDS Naturals, Sequences

CONSTANTS
    Authenticating,  \* the commands on which the door may be opened
    Enabling,        \* the commands that let guests in
    Disabling,       \* the commands that lock guests out
    Others           \* the commands that do neither

AllRequests == Authenticating \cup Enabling \cup Disabling \cup Others

Verdicts == {"granted", "guest", "denied"}

VARIABLES
    asked,        \* the requests made
    answers,      \* the gateway's verdicts on requests, in their order
    cancelled,    \* the requests the user has cancelled
    opened,       \* the requests the door was opened on, in that order
    guestAccess   \* guests are let in

vars == <<asked, answers, cancelled, opened, guestAccess>>

Last(s) == s[Len(s)]

Init ==
    /\ asked = <<>>
    /\ answers = <<>>
    /\ cancelled = {}
    /\ opened = <<>>
    /\ guestAccess = TRUE

Ask ==
    /\ \E command \in AllRequests : asked' = Append(asked, command)
    /\ UNCHANGED <<answers, cancelled, opened, guestAccess>>

(* The gateway answers the last request, once.                             *)
Answer ==
    /\ asked # <<>>
    /\ answers # <<>> => Last(answers).request < Len(asked)
    /\ \E verdict \in Verdicts :
          answers' = Append(answers, [request |-> Len(asked), verdict |-> verdict])
    /\ UNCHANGED <<asked, cancelled, opened, guestAccess>>

Cancel ==
    /\ cancelled' = cancelled \cup {Len(asked)}
    /\ UNCHANGED <<asked, answers, opened, guestAccess>>

(* The last request was answered with one of the verdicts and stands.      *)
Standing(verdicts) ==
    /\ answers # <<>>
    /\ Last(answers).request = Len(asked)
    /\ Last(answers).verdict \in verdicts
    /\ Len(asked) \notin cancelled

(* The door is opened for the last request, once.                          *)
Open ==
    /\ Standing(IF guestAccess THEN {"granted", "guest"} ELSE {"granted"})
    /\ Last(asked) \in Authenticating
    /\ opened # <<>> => Last(opened) < Len(asked)
    /\ opened' = Append(opened, Len(asked))
    /\ UNCHANGED <<asked, answers, cancelled, guestAccess>>

Switch ==
    /\ Standing({"granted"})
    /\ \/ Last(asked) \in Enabling /\ guestAccess' = TRUE
       \/ Last(asked) \in Disabling /\ guestAccess' = FALSE
    /\ UNCHANGED <<asked, answers, cancelled, opened>>

Next == Ask \/ Answer \/ Cancel \/ Open \/ Switch

Spec == Init /\ [][Next]_vars
=============================================================================
