----------------------------- MODULE AccessRights -----------------------------
(***************************************************************************)
(* What may happen to the rights of the employees: an identifier that is   *)
(* not known is given to a guest hired for it, an identifier is forgotten, *)
(* the clearance of an employee is set.  While the changes are supervised, *)
(* each is made on the word of somebody who has the clearance its command  *)
(* requires at that very moment.                                           *)
(***************************************************************************)
EXTENDS Integers

CONSTANTS Identifiers, Staff, Guests, NoOwner, Required, InitialOwner, InitialClearance

Clearances == -128 .. 127

VARIABLES owner, hired, clearance, supervised

vars == <<owner, hired, clearance, supervised>>

Init ==
    /\ owner = InitialOwner
    /\ hired = Staff
    /\ clearance = [e \in Staff \cup Guests |->
                        IF e \in Staff THEN InitialClearance[e] ELSE -1]
    /\ supervised \in BOOLEAN

MayOrder(id, command) ==
    /\ owner[id] \in hired
    /\ clearance[owner[id]] >= Required[command]

Ordered(command) ==
    /\ supervised => \E id \in Identifiers : MayOrder(id, command)
    /\ UNCHANGED supervised

Hire ==
    /\ Ordered("ADD")
    /\ \E g \in Guests \ hired, level \in Clearances :
          /\ hired' = hired \cup {g}
          /\ clearance' = [clearance EXCEPT ![g] = level]
    /\ UNCHANGED owner

(* A guest gets one identifier.                                            *)
Add ==
    /\ Ordered("ADD")
    /\ \E id \in Identifiers, g \in Guests \cap hired :
          /\ owner[id] = NoOwner
          /\ g \notin {owner[i] : i \in Identifiers}
          /\ owner' = [owner EXCEPT ![id] = g]
    /\ UNCHANGED <<hired, clearance>>

Remove ==
    /\ Ordered("REMOVE")
    /\ \E id \in Identifiers : owner' = [owner EXCEPT ![id] = NoOwner]
    /\ UNCHANGED <<hired, clearance>>

SetClearance ==
    /\ Ordered("SET_CLNC")
    /\ \E id \in Identifiers, level \in -1 .. 126 :
          /\ owner[id] \in hired
          /\ clearance' = [clearance EXCEPT ![owner[id]] = level]
    /\ UNCHANGED <<owner, hired>>

Next == Hire \/ Add \/ Remove \/ SetClearance

Spec == Init /\ [][Next]_vars
=============================================================================
