-------------------------- MODULE DoorControlProps ---------------------------
(***************************************************************************)
(* What the pair of automata of the main application is relied on for.     *)
(***************************************************************************)
EXTENDS DoorControl

(* A request meets a gateway that still owes a reply, and the mailboxes of *)
(* both processes are lost for good, only after the deadline of a request  *)
(* has passed: neither Cancel, nor the busy signal, nor a guest request    *)
(* that somebody interrupts lets the main application ask again too early. *)
CollisionNeedsTimeout == wedged => timeouts > 0

(* Nobody waits for the gateway without a deadline: while the keypad       *)
(* automaton waits, its timer is armed or its timeout is about to be       *)
(* processed, whatever the user types in the meantime.  The request being  *)
(* sent is not covered yet.  Where the two threads have met inside the     *)
(* automata, this is not so: the timeout of one request then stops the     *)
(* timer of the next.                                                      *)
EveryWaitHasDeadline ==
    keypad \in Waiting /\ ~overlap
       => \/ timer
          \/ thread["callback"].step # "rest"
          \/ thread["mainLoop"].step \in {"send", "start", "blocked"}

Settled == thread = [t \in Threads |-> AtRest] /\ ~overlap /\ ~wedged

(* The two automata agree when the main loop is at rest: an idle           *)
(* MainAutomaton, which shows no further result, means that the keypad     *)
(* automaton is idle or that it waits for the reply to what was cancelled. *)
AutomataAgree ==
    Settled /\ main = "Idle"
       => \/ keypad = "Idle"
          \/ keypad = "WaitingDatabase_Request" /\ Len(asked) \in cancelled

(* The keypad is never busy forever: every wait for the gateway ends, with *)
(* a reply or with the deadline, unless the mailboxes have collided or the *)
(* two threads have met inside the automata.                               *)
EveryWaitEnds == keypad \in Waiting ~> keypad = "Idle" \/ wedged \/ overlap

-----------------------------------------------------------------------------
(* The mapping to DoorPolicy.                                              *)
Verdict(reply) ==
    CASE reply \in {"SUCCESS", "CLEARANCE_EMPLOYEE"} -> "granted"
      [] reply = "CLEARANCE_GUEST" -> "guest"
      [] OTHER -> "denied"

Verdicts == [i \in DOMAIN answers |->
                [request |-> answers[i].request, verdict |-> Verdict(answers[i].reply)]]

OpenedOn == [i \in DOMAIN openings |-> answers[openings[i]].request]

Policy == INSTANCE DoorPolicy
             WITH answers <- Verdicts, opened <- OpenedOn,
                  Authenticating <- {"AUTHENTICATE"} \cup GuestCommands,
                  Enabling <- {"GUEST_ACCESS_ENABLE"},
                  Disabling <- {"GUEST_ACCESS_DISABLE"},
                  Others <- AdminCommands

(* Whatever the interleaving of replies, timeouts and user input, the door *)
(* opens and the guest switch moves only on a positive reply to the last   *)
(* request, once, and never after that request was cancelled; the switch   *)
(* moves only for a guest request, and ADD, REMOVE and SET_CLNC never open *)
(* the door.  The model ends (Abort) where the code has a data race on the *)
(* event of an automaton: nothing is said of what comes after.             *)
ImplementsDoorPolicy == Policy!Spec

StrictPolicy == INSTANCE DoorPolicy
                   WITH answers <- Verdicts, opened <- OpenedOn,
                        Authenticating <- {"AUTHENTICATE"},
                        Enabling <- {"GUEST_ACCESS_ENABLE"},
                        Disabling <- {"GUEST_ACCESS_DISABLE"},
                        Others <- AdminCommands

(* The same, with the door opened only by those who asked for it: the      *)
(* README describes the lock as controlled "based on authentication".      *)
OpensOnAuthenticationOnly == StrictPolicy!Spec
=============================================================================
