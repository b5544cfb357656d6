-------------------------- MODULE AccountSecurity --------------------------
(***************************************************************************)
(* What one account holds to confirm an action: the transaction PIN, the   *)
(* two-factor switch, one-time codes (src/src/security), the password and  *)
(* reset links (src/src/users, src/src/auth/auth.service.ts).              *)
(*                                                                         *)
(* Codes and links are rows that are voided or used up, never deleted; the *)
(* row with the highest number is the newest.  A code that is submitted is *)
(* the one mailed with some row, or a wrong one.  Secrets are not compared *)
(* character by character: a request comes with the right password and PIN *)
(* or is refused, which changes nothing.                                   *)
(***************************************************************************)
EXTENDS Handlers, Naturals, FiniteSets

CONSTANTS
    Purpose, StepUp,    \* what a code is for; StepUp always needs one
    MaxCode, MaxLink,   \* bound: codes and reset links ever issued
    MaxAttempts         \* OTP_MAX_ATTEMPTS (5 in the code)

(* What the code takes for granted of its purposes, and that a code takes  *)
(* an answer at all.                                                       *)
SecurityAssumption ==
    /\ {"TRADE", "DISABLE_2FA", "CHANGE_PASSWORD"} \subseteq Purpose
    /\ StepUp \subseteq Purpose \ {"TRADE", "DISABLE_2FA"} /\ "CHANGE_PASSWORD" \in StepUp
    /\ MaxCode \in Nat /\ MaxLink \in Nat /\ MaxAttempts \in Nat \ {0}

VARIABLES
    pin,        \* users.transactionPinHash is set
    twoFactor,  \* users.twoFactorEnabled
    otp,        \* transaction_otps
    link,       \* password_reset_tokens
    tried,      \* history: wrong submissions answered for a code
    spent       \* history: actions a code confirmed

vars == <<pin, twoFactor, otp, link, tried, spent, call>>
account == <<pin, twoFactor>>
codes == <<otp, tried, spent>>

Code == 1..MaxCode
Link == 1..MaxLink
NoRow == [state |-> "none"]

Otp == [state : {"unused", "used"}, purpose : Purpose, expired : BOOLEAN,
        attempts : 0..MaxAttempts]
Reset == [state : {"unused", "used"}, expired : BOOLEAN]

Issued(table) == {i \in DOMAIN table : table[i] # NoRow}
Unused(table) == {i \in Issued(table) : table[i].state = "unused"}
Live(table) == {i \in Unused(table) : ~table[i].expired}
Next1(table) == Cardinality(Issued(table)) + 1
Newest(S) == CHOOSE i \in S : \A j \in S : j <= i

UnusedFor(p) == {i \in Unused(otp) : otp[i].purpose = p}
LiveFor(p) == {i \in Live(otp) : otp[i].purpose = p}

-----------------------------------------------------------------------------
Init ==
    /\ pin = FALSE /\ twoFactor = FALSE
    /\ otp = [i \in Code |-> NoRow]
    /\ link = [i \in Link |-> NoRow]
    /\ tried = [i \in Code |-> 0] /\ spent = [i \in Code |-> 0]
    /\ call = [c \in Call |-> Idle]

(* setTransactionPin; changeTransactionPin keeps it set.                   *)
SetPinLoad(c) ==
    /\ ~pin
    /\ Begin(c, [op |-> "setPin", step |-> "write"])
    /\ UNCHANGED <<account, codes, link>>

ChangePinLoad(c) ==
    /\ pin
    /\ Begin(c, [op |-> "changePin", step |-> "write"])
    /\ UNCHANGED <<account, codes, link>>

PinWrite(c) ==
    /\ At(c, "setPin", "write") \/ At(c, "changePin", "write")
    /\ pin' = TRUE
    /\ Return(c)
    /\ UNCHANGED <<twoFactor, codes, link>>

(* Variant: the switch is not looked at.                                   *)
ClearPinLoadAnyway(c) ==
    /\ pin
    /\ Begin(c, [op |-> "clearPin", step |-> "write"])
    /\ UNCHANGED <<account, codes, link>>

(* clearTransactionPin                                                     *)
ClearPinLoad(c) ==
    /\ pin /\ ~twoFactor
    /\ Begin(c, [op |-> "clearPin", step |-> "write"])
    /\ UNCHANGED <<account, codes, link>>

ClearPinWrite(c) ==
    /\ At(c, "clearPin", "write")
    /\ pin' = FALSE
    /\ Return(c)
    /\ UNCHANGED <<twoFactor, codes, link>>

(* enableTwoFactor                                                         *)
EnableLoad(c) ==
    /\ pin /\ ~twoFactor
    /\ Begin(c, [op |-> "enable2FA", step |-> "write"])
    /\ UNCHANGED <<account, codes, link>>

EnableWrite(c) ==
    /\ At(c, "enable2FA", "write")
    /\ twoFactor' = TRUE
    /\ Return(c)
    /\ UNCHANGED <<pin, codes, link>>

-----------------------------------------------------------------------------
(* requestTransactionOtp: nothing is sent when no code would be asked for. *)
RequestLoad(c, p) ==
    /\ twoFactor \/ p \in StepUp
    /\ Next1(otp) \in Code
    /\ Begin(c, [op |-> "requestOtp", step |-> "issue", p |-> p])
    /\ UNCHANGED <<account, codes, link>>

(* Variant: the earlier codes stay good.                                   *)
VoidedNone(p) == {}

(* The codes a new one voids.                                              *)
Voided(p) == LiveFor(p)

RequestIssue(c) ==
    /\ At(c, "requestOtp", "issue")
    /\ Next1(otp) \in Code
    /\ LET p == call[c].p
           new == [state |-> "unused", purpose |-> p, expired |-> FALSE, attempts |-> 0]
           kept == [i \in Code |-> IF i \in Voided(p)
                                   THEN [otp[i] EXCEPT !.state = "used"] ELSE otp[i]]
       IN  otp' = [kept EXCEPT ![Next1(otp)] = new]
    /\ Return(c)
    /\ UNCHANGED <<account, link, tried, spent>>

(* The callers of consumeOtp: disableTwoFactor, assertTransactionAuth at   *)
(* the start of a trade (likewise a loan or a withdrawal), changePassword. *)
Confirm(c, p) ==
    /\ p = "DISABLE_2FA" => twoFactor
    /\ p = "TRADE" => twoFactor /\ pin
    /\ Begin(c, [op |-> "confirm", step |-> "find", p |-> p])
    /\ UNCHANGED <<account, codes, link>>

(* On behalf of the client: the manager does not have the PIN.             *)
ConfirmOnBehalf(c) ==
    /\ twoFactor
    /\ Begin(c, [op |-> "confirm", step |-> "find", p |-> "TRADE"])
    /\ UNCHANGED <<account, codes, link>>

(* consumeOtp: the newest unused code, then one of two updates by id.      *)
ConsumeFind(c) ==
    /\ At(c, "confirm", "find")
    /\ UnusedFor(call[c].p) # {}
    /\ LET i == Newest(UnusedFor(call[c].p))
       IN  /\ ~otp[i].expired
           /\ \E right \in BOOLEAN :
                Continue(c, [op |-> "confirm", step |-> IF right THEN "use" ELSE "miss",
                             p |-> call[c].p, i |-> i, attempts |-> otp[i].attempts])
    /\ UNCHANGED <<account, codes, link>>

(* Variant: a code is burned one attempt late.                             *)
BurnedLate(n) == n > MaxAttempts

Burned(n) == n >= MaxAttempts

ConsumeMiss(c) ==
    /\ At(c, "confirm", "miss")
    /\ LET i == call[c].i
           n == call[c].attempts + 1
       IN  /\ otp' = [otp EXCEPT ![i].attempts = n,
                                 ![i].state = IF Burned(n) THEN "used" ELSE @]
           /\ tried' = [tried EXCEPT ![i] = @ + 1]
    /\ Return(c)
    /\ UNCHANGED <<account, link, spent>>

(* Variant: the code stays usable.                                         *)
ConsumeUseKept(c) ==
    /\ At(c, "confirm", "use")
    /\ spent' = [spent EXCEPT ![call[c].i] = @ + 1]
    /\ Continue(c, [op |-> "confirmed", step |-> "write", p |-> call[c].p])
    /\ UNCHANGED <<account, link, otp, tried>>

ConsumeUse(c) ==
    /\ At(c, "confirm", "use")
    /\ otp' = [otp EXCEPT ![call[c].i].state = "used"]
    /\ spent' = [spent EXCEPT ![call[c].i] = @ + 1]
    /\ Continue(c, [op |-> "confirmed", step |-> "write", p |-> call[c].p])
    /\ UNCHANGED <<account, link, tried>>

(* What was confirmed: the switch goes off, the password changes or the    *)
(* transaction goes ahead.                                                 *)
ConfirmedWrite(c) ==
    /\ At(c, "confirmed", "write")
    /\ twoFactor' = IF call[c].p = "DISABLE_2FA" THEN FALSE ELSE twoFactor
    /\ Return(c)
    /\ UNCHANGED <<pin, codes, link>>

-----------------------------------------------------------------------------
(* forgotPassword voids the live links and adds one; resetPassword checks  *)
(* its link, hashes, and uses up every unused link in one transaction.     *)
Forgot ==
    /\ Next1(link) \in Link
    /\ link' = [[i \in Link |-> IF i \in Live(link)
                                THEN [link[i] EXCEPT !.state = "used"] ELSE link[i]]
                EXCEPT ![Next1(link)] = [state |-> "unused", expired |-> FALSE]]
    /\ UNCHANGED <<account, codes, call>>

ResetLoad(c, i) ==
    /\ i \in Live(link)
    /\ Begin(c, [op |-> "resetPassword", step |-> "write", i |-> i])
    /\ UNCHANGED <<account, codes, link>>

(* Variant: only the link that was followed is used up.                    *)
SpentLinksOwn(i) == {i}

SpentLinks(i) == {i} \cup Unused(link)

ResetWrite(c) ==
    /\ At(c, "resetPassword", "write")
    /\ link' = [i \in Link |-> IF i \in SpentLinks(call[c].i)
                               THEN [link[i] EXCEPT !.state = "used"] ELSE link[i]]
    /\ Return(c)
    /\ UNCHANGED <<account, codes>>

Expire ==
    /\ \/ \E i \in Live(otp) : otp' = [otp EXCEPT ![i].expired = TRUE] /\ UNCHANGED link
       \/ \E i \in Live(link) : link' = [link EXCEPT ![i].expired = TRUE] /\ UNCHANGED otp
    /\ UNCHANGED <<account, tried, spent, call>>

-----------------------------------------------------------------------------
Next ==
    \/ \E c \in Call :
        \/ SetPinLoad(c) \/ ChangePinLoad(c) \/ PinWrite(c)
        \/ ClearPinLoad(c) \/ ClearPinWrite(c) \/ EnableLoad(c) \/ EnableWrite(c)
        \/ \E p \in Purpose : RequestLoad(c, p)
        \/ RequestIssue(c)
        \/ \E p \in Purpose : Confirm(c, p)
        \/ ConfirmOnBehalf(c)
        \/ ConsumeFind(c) \/ ConsumeMiss(c) \/ ConsumeUse(c) \/ ConfirmedWrite(c)
        \/ \E i \in Link : ResetLoad(c, i)
        \/ ResetWrite(c)
        \/ Abandon(c) /\ UNCHANGED <<account, codes, link>>
    \/ Forgot
    \/ Expire

Spec == Init /\ [][Next]_vars

-----------------------------------------------------------------------------
(* Every row is a row of the schema.                                       *)
TypeOK ==
    /\ pin \in BOOLEAN /\ twoFactor \in BOOLEAN
    /\ otp \in [Code -> Otp \cup {NoRow}]
    /\ link \in [Link -> Reset \cup {NoRow}]

(* Two-factor confirmation needs a PIN, so it is never on without one: the *)
(* account could confirm nothing (clearTransactionPin, enableTwoFactor).   *)
(* With two handlers: refuted.                                             *)
TwoFactorHasPin == twoFactor => pin

(* Only the newest code of a purpose is good: issuing one voids the others *)
(* and a code that was used, burned or voided does not come back           *)
(* (requestTransactionOtp, consumeOtp).                                    *)
OneLiveCode == \A p \in Purpose : Cardinality(LiveFor(p)) <= 1

(* A code confirms one action, and is burned by the wrong answers the code *)
(* allows, not later (consumeOtp).                                         *)
CodeIsSpentOnce == \A i \in Code : spent[i] <= 1 /\ tried[i] <= MaxAttempts

(* Once a password was reset, no link that was mailed before works         *)
(* (resetPassword, also against a forgotPassword that runs in between).    *)
ResetEndsLinks ==
    \A c \in Call :
      At(c, "resetPassword", "write") /\ call'[c] = Idle /\ link' # link =>
         Unused(link)' = {}
=============================================================================
