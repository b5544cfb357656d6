----------------------------- MODULE MCCustody -----------------------------
(* Custody for TLC: the idempotency keys of the three flows, and handlers  *)
(* and clients that can be exchanged for one another.                      *)
EXTENDS Custody, TLC

CustodyKey ==
    ({"deposit"} \X Filing)
        \cup ({"approve", "reject"} \X Receipt)
        \cup ({"hold", "approveHold", "release", "repay-release"} \X Loan)
        \cup ({"hold", "transfer", "cancel-release"} \X Trade)

Exchangeable == Permutations(Call) \cup Permutations(Client)
=============================================================================
