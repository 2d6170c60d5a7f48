------------------------------ MODULE OtpLedger ------------------------------
(***************************************************************************)
(* What signup, resendOtp, verifyOtp and the OTP cron promise of accounts, *)
(* OTPs and mails, without statements, snapshots and locks: each           *)
(* transaction is one step, and one that fails is none.  OtpFlowLedger     *)
(* shows that the code keeps the promise.                                  *)
(***************************************************************************)
EXTENDS Integers

CONSTANTS
  Users,
  OtpTTL   \* in seconds

VARIABLES
  now,     \* in seconds
  status,  \* status[u]: the status of the account, or "none"
  otps,    \* the OTPs that can be used
  mails,   \* the OTPs sent out
  issued   \* every OTP there has been

vars == <<now, status, otps, mails, issued>>

Init ==
  /\ now = 0
  /\ status \in [Users -> {"none", "PENDING", "ACTIVE", "BANNED"}]
  /\ otps = {}
  /\ mails = {}
  /\ issued = {}

\* No OTP has had the id of o.
New(o) == \A p \in issued : p.id # o.id

-----------------------------------------------------------------------------
\* signup, resendOtp: a new OTP takes the place of one OTP of the user at most,
\* which it outlasts; an account is opened if there is none, and left as it is
\* if there is.
Renew(u, old) ==
  /\ old \subseteq {p \in otps : p.user = u}
  /\ \A p, q \in old : p = q
  /\ \E o \in issued' \ issued :
       /\ New(o) /\ o.user = u
       /\ o.expiresAt <= now + OtpTTL
       /\ \A p \in old : p.expiresAt <= o.expiresAt
       /\ otps' = (otps \ old) \cup {o}
       /\ issued' = issued \cup {o}
  /\ status' = IF status[u] = "none" THEN [status EXCEPT ![u] = "PENDING"]
               ELSE status
  /\ UNCHANGED <<now, mails>>

\* verifyOtp: an OTP that was issued and sent is used up, if it was not before, and
\* its user is active.
Redeem(o) ==
  /\ o \in issued \cap mails
  /\ otps' = otps \ {o}
  /\ status' = [status EXCEPT ![o.user] = "ACTIVE"]
  /\ UNCHANGED <<now, mails, issued>>

\* An OTP is sent: one that was issued, or one that may yet be.
Send(o) ==
  /\ o \in issued \/ New(o)
  /\ o.expiresAt <= now + OtpTTL
  /\ mails' = mails \cup {o}
  /\ UNCHANGED <<now, status, otps, issued>>

\* The OTPs that have expired can no longer be used.
Purge ==
  /\ otps' = {o \in otps : o.expiresAt > now}
  /\ UNCHANGED <<now, status, mails, issued>>

Tick ==
  /\ now' = now + 1
  /\ UNCHANGED <<status, otps, mails, issued>>

Next ==
  \/ \E u \in Users : \E old \in SUBSET {p \in otps : p.user = u} : Renew(u, old)
  \/ \E o \in issued : Redeem(o)
  \/ \E o \in mails' \ mails : Send(o)
  \/ Purge
  \/ Tick

Spec == Init /\ [][Next]_vars
=============================================================================
