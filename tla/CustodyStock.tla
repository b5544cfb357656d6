---------------------------- MODULE CustodyStock ----------------------------
(***************************************************************************)
(* What the ledger promises to a depositor, with no receipts, splits or    *)
(* keys: the goods of every lot are divided into what awaits approval,     *)
(* what is free, what is reserved, what has left the warehouse (withdrawn  *)
(* or seized) and what was written off (expired or refused).  Goods leave  *)
(* from the reserved part only, are written off from the free or pending   *)
(* part only, and nothing appears or disappears on the way.                *)
(***************************************************************************)
EXTENDS Integers

CONSTANTS Lot, MaxQuantity

VARIABLES pending, free, reserved, removed, writtenOff

stockVars == <<pending, free, reserved, removed, writtenOff>>

Quantity == 1..MaxQuantity

Total(l) == pending[l] + free[l] + reserved[l] + removed[l] + writtenOff[l]

(* q units of lot l go from one part to another.                           *)
Less(part, l, q) == [part EXCEPT ![l] = @ - q]
More(part, l, q) == [part EXCEPT ![l] = @ + q]

Init ==
    \A part \in {pending, free, reserved, removed, writtenOff} :
        part = [l \in Lot |-> 0]

TakeIn(l, q) ==
    /\ Total(l) = 0
    /\ pending' = More(pending, l, q)
    /\ UNCHANGED <<free, reserved, removed, writtenOff>>

Admit(l) ==
    /\ free' = More(free, l, pending[l])
    /\ pending' = Less(pending, l, pending[l])
    /\ UNCHANGED <<reserved, removed, writtenOff>>

Refuse(l) ==
    /\ writtenOff' = More(writtenOff, l, pending[l])
    /\ pending' = Less(pending, l, pending[l])
    /\ UNCHANGED <<free, reserved, removed>>

Reserve(l, q) ==
    /\ q <= free[l]
    /\ free' = Less(free, l, q)
    /\ reserved' = More(reserved, l, q)
    /\ UNCHANGED <<pending, removed, writtenOff>>

(* Of q reserved units, out units leave and the others are free again.     *)
Settle(l, q, out) ==
    /\ q <= reserved[l]
    /\ reserved' = Less(reserved, l, q)
    /\ removed' = More(removed, l, out)
    /\ free' = More(free, l, q - out)
    /\ UNCHANGED <<pending, writtenOff>>

Lapse(l, q) ==
    /\ q <= free[l]
    /\ free' = Less(free, l, q)
    /\ writtenOff' = More(writtenOff, l, q)
    /\ UNCHANGED <<pending, reserved, removed>>

Next ==
    \E l \in Lot :
        \/ Admit(l)
        \/ Refuse(l)
        \/ \E q \in Quantity :
              \/ TakeIn(l, q)
              \/ Reserve(l, q)
              \/ Lapse(l, q)
              \/ \E out \in 0..q : Settle(l, q, out)

Spec == Init /\ [][Next]_stockVars
=============================================================================
