------------------------------ MODULE Account ------------------------------
(***************************************************************************)
(* What the payment worker promises about a guest's money: it is taken at  *)
(* most once, returned at most once and only after it was taken, and what  *)
(* the rest of the system is told of it is true when it is told.           *)
(***************************************************************************)
CONSTANT Ids

VARIABLES
    money, \* where each booking's money is
    told   \* the results sent for each booking

vars == <<money, told>>

Init ==
    /\ money = [r \in Ids |-> "guest"]
    /\ told = [r \in Ids |-> {}]

Move(r, from, to) ==
    /\ money[r] = from
    /\ money' = [money EXCEPT ![r] = to]
    /\ UNCHANGED told

Take(r) == Move(r, "guest", "host")
Decline(r) == Move(r, "guest", "declined")
Return(r) == "PaymentSucceeded" \in told[r] /\ Move(r, "host", "returned")

Tell(r, type, places) ==
    /\ money[r] \in places
    /\ told' = [told EXCEPT ![r] = @ \cup {type}]
    /\ UNCHANGED money

TellSucceeded(r) == Tell(r, "PaymentSucceeded", {"host"})
TellFailed(r) == Tell(r, "PaymentFailed", {"declined", "returned"})

Next ==
    \E r \in Ids : Take(r) \/ Decline(r) \/ Return(r) \/ TellSucceeded(r) \/ TellFailed(r)

Spec == Init /\ [][Next]_vars
=============================================================================
