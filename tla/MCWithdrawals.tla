--------------------------- MODULE MCWithdrawals ---------------------------
(* Withdrawals for TLC: the idempotency keys of the flow.                  *)
EXTENDS Withdrawals, TLC

MCKey == {DepositKey, AdmitKey, PledgeKey}
            \cup ({"hold", "approveHold", "release", "consume"} \X Withdrawal)

Handlers == Permutations(Call)
=============================================================================
