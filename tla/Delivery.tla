------------------------------ MODULE Delivery ------------------------------
(***************************************************************************)
(* What the notification outbox promises: a message that is posted is      *)
(* handed to the provider at least once before it counts as delivered, at  *)
(* most once per try, is given up only after all of its tries, and is then *)
(* never touched again.  How scans, claims and attempt counts bring this   *)
(* about is in module Outbox, which implements this specification.         *)
(***************************************************************************)
EXTENDS Integers

CONSTANTS
    Letters,
    MaxTries    \* the tries before a letter may be given up

VARIABLES
    place,      \* where each letter is
    tries,      \* its tries that have ended
    handed      \* how often the provider took it

deliveryVars == <<place, tries, handed>>

Places == {"unwritten", "waiting", "tried", "delivered", "given up"}

DeliveryInit ==
    /\ place = [m \in Letters |-> "unwritten"]
    /\ tries = [m \in Letters |-> 0]
    /\ handed = [m \in Letters |-> 0]

Move(m, from, to) ==
    /\ place[m] = from
    /\ place' = [place EXCEPT ![m] = to]

Post(m) ==
    /\ Move(m, "unwritten", "waiting")
    /\ UNCHANGED <<tries, handed>>

Try(m) ==
    /\ Move(m, "waiting", "tried")
    /\ UNCHANGED <<tries, handed>>

Hand(m) ==
    /\ place[m] = "tried"
    /\ handed[m] <= tries[m]
    /\ handed' = [handed EXCEPT ![m] = @ + 1]
    /\ UNCHANGED <<place, tries>>

\* A try ends well only if the provider has taken the letter.
EndTry(m, to) ==
    /\ Move(m, "tried", to)
    /\ to = "delivered" => handed[m] > 0
    /\ to = "given up" => tries[m] + 1 >= MaxTries
    /\ tries' = [tries EXCEPT ![m] = @ + 1]
    /\ UNCHANGED handed

DeliveryNext ==
    \E m \in Letters :
        \/ Post(m) \/ Try(m) \/ Hand(m)
        \/ \E to \in {"waiting", "delivered", "given up"} : EndTry(m, to)

DeliverySpec == DeliveryInit /\ [][DeliveryNext]_deliveryVars
=============================================================================
