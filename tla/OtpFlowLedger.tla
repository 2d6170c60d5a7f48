---------------------------- MODULE OtpFlowLedger ----------------------------
(***************************************************************************)
(* OtpFlow implements OtpLedger: the two have the same accounts, OTPs and  *)
(* mails, and of the requests and their transactions the ledger sees       *)
(* nothing but the COMMITs.                                                *)
(***************************************************************************)
EXTENDS OtpFlow

Ledger == INSTANCE OtpLedger

\* Statement by statement, beside others, failing anywhere, a transaction of
\* signup, resendOtp and verifyOtp is one step of the ledger or none
\* (auth.service.ts, withTransaction): nothing of it shows early or half done, a
\* signup never sets an account back, and only an OTP that was sent activates one.
ImplementsLedger == Ledger!Spec

-----------------------------------------------------------------------------
\* The inductive invariant of the refinement, beside OtpInv.

Single(rows) == \A o, p \in rows : o = p

\* AUTO_INCREMENT: the id of a row to be inserted has not been committed.
NewId(o) == \A p \in issued : p.id # o.id

\* A transaction works on one row at a time, inserts one, and a verification
\* deletes the row it has read; the codes clients send come from mails.
OneRowEach(q) ==
  /\ Single(q.row) /\ Single(q.del) /\ Single(q.ins)
  /\ \A o \in q.ins : NewId(o)
  /\ q.op = "verify" => q.code \subseteq mails /\ q.del \subseteq q.row

IdsApart(p, q) == \A o \in p.ins, i \in q.ins : o.id # i.id

LedgerInv ==
  /\ OtpInv
  /\ \A r \in Running : OneRowEach(req[r])
  /\ \A r, s \in Running : r # s => IdsApart(req[r], req[s])
=============================================================================
