------------------------------ MODULE MCGateway ------------------------------
(***************************************************************************)
(* A small database: an administrator with a PIN, a card nobody has, and   *)
(* one that cannot be read properly.                                       *)
(***************************************************************************)
EXTENDS GatewayProps

CONSTANTS boss,                            \* an employee
          bossPin, card, stain   \* identifiers

InstalledOwners ==
    [id \in Identifiers |-> IF id = bossPin THEN boss ELSE NoOwner]

InstalledClearances == [e \in Staff |-> 3]

(* The Commands table of the repository's database.                        *)
InstalledRequired ==
    [AUTHENTICATE |-> 0, ADD |-> 2, REMOVE |-> 3, SET_CLNC |-> 3, GUEST_ACCESS_CTL |-> 2]

RequestBounds == [quiet \in BOOLEAN |-> IF quiet THEN 3 ELSE 2]

(* As signed chars, 259 is 3 and 200 is below every valid clearance.       *)
Typed == {259, 200, Garbled, OutOfRange}
=============================================================================
