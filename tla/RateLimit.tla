------------------------------ MODULE RateLimit ------------------------------
(***************************************************************************)
(* nest/shared/rate-limit: one key of the access counter kept in Redis,    *)
(* as renewOtp uses it for the OTPs of one user.                           *)
(*                                                                         *)
(* bucket() sends INCRBY, GET and EXPIRE in one pipeline of the only Redis *)
(* connection, so an access is one step; its reply is the count of that    *)
(* instant, whenever it is read.  EXPIRE runs on every access, refused     *)
(* ones included.                                                          *)
(***************************************************************************)
EXTENDS Integers, Sequences, TLAPS

CONSTANTS
  Limit,     \* accessLimit
  Window,    \* timeLimit in timeUnits, as EXPIRE takes it
  MaxNow,    \* bound: the clock stops here
  MaxCount   \* bound: the counter stops here

ASSUME LimitAssumption  == Limit \in Nat
ASSUME WindowAssumption == Window \in Nat \ {0}
ASSUME BoundAssumption  == MaxNow \in Nat /\ MaxCount \in Nat

VARIABLES
  now,       \* the clock, in the unit of Window
  count,     \* the value of the key when it was last written
  expireAt,  \* when Redis drops the key; 0 before the first access
  grants     \* history: the times of the accesses that were let through

vars == <<now, count, expireAt, grants>>

Init == now = 0 /\ count = 0 /\ expireAt = 0 /\ grants = <<>>

\* The value INCRBY finds: Redis drops a key when the clock is past its
\* deadline, and counts a missing one as 0.
Stored == IF now <= expireAt THEN count ELSE 0

\* Mutants: EXPIRE on the first access only; a deadline in the past.
Count_FixedWindow(n) ==
  /\ count' = n
  /\ expireAt' = IF Stored > 0 THEN expireAt ELSE now + Window
  /\ n <= MaxCount
  /\ UNCHANGED now
Count_Past(n) ==
  /\ count' = n
  /\ expireAt' = now - Window
  /\ n <= MaxCount
  /\ UNCHANGED now

\* INCRBY 1, GET, EXPIRE.
Count(n) ==
  /\ count' = n
  /\ expireAt' = now + Window
  /\ n <= MaxCount
  /\ UNCHANGED now

\* Mutant: the limit is compared with the count before this access.
Grant_OneMore ==
  /\ Stored <= Limit
  /\ Count(Stored + 1)
  /\ grants' = Append(grants, now)

\* bucket() answers: not above the limit, or above it.
Grant ==
  /\ Stored + 1 <= Limit
  /\ Count(Stored + 1)
  /\ grants' = Append(grants, now)

Refuse ==
  /\ Stored + 1 > Limit
  /\ Count(Stored + 1)
  /\ UNCHANGED grants

Tick == now < MaxNow /\ now' = now + 1 /\ UNCHANGED <<count, expireAt, grants>>

Next == Grant \/ Refuse \/ Tick

Spec == Init /\ [][Next]_vars

-----------------------------------------------------------------------------
TypeOK ==
  /\ now \in Nat
  /\ count \in Nat
  /\ expireAt \in Nat
  /\ grants \in Seq(Nat)

\* In no stretch of Window are more than Limit accesses let through: Limit
\* grants after any grant, a whole Window has passed (bucket, 18-30).
AtMostLimitPerWindow ==
  \A i \in 1..Len(grants) :
    i + Limit <= Len(grants) => grants[i + Limit] - grants[i] >= Window

\* What "20 otps per hours" in renewOtp promises the user: a request is
\* refused only if Limit were let through within the last Window.
RefusedOnlyOverLimit ==
  [][Refuse => /\ Len(grants) >= Limit
               /\ grants[Len(grants) - Limit + 1] + Window >= now]_vars

\* The inductive invariant behind AtMostLimitPerWindow: the key outlives every
\* grant by Window, and the grants it does not count are a Window old.
Counted == IF count <= Limit THEN count ELSE Limit

IInv ==
  /\ TypeOK
  /\ expireAt <= now + Window
  /\ Counted <= Len(grants)
  /\ \A i \in 1..Len(grants) : grants[i] + Window <= expireAt
  /\ \A i \in 1..(Len(grants) - Counted) : grants[i] + Window <= now
  /\ AtMostLimitPerWindow

-----------------------------------------------------------------------------
(* The limit holds for any limit, any window and any length of run.        *)

LEMMA IInvInit == Init => IInv
  BY LimitAssumption, WindowAssumption DEF Init, IInv, TypeOK, Counted, AtMostLimitPerWindow

\* An access that is let through: if the key is gone, every earlier grant is a
\* Window old; if not, so is every grant the key does not count.
LEMMA GrantStep == ASSUME IInv, Grant PROVE IInv'
<1> USE LimitAssumption, WindowAssumption
<1>1. /\ now \in Nat /\ count \in Nat /\ expireAt \in Nat /\ grants \in Seq(Nat)
      /\ Stored \in Nat
  BY DEF IInv, TypeOK, Stored
<1>2. /\ grants' = Append(grants, now)
      /\ now' = now
      /\ expireAt' = now + Window
      /\ count' = Stored + 1
      /\ Stored + 1 <= Limit
  BY DEF Grant, Count
<1>3. /\ Len(grants') = Len(grants) + 1
      /\ grants'[Len(grants) + 1] = now
      /\ \A i \in 1..Len(grants) : grants'[i] = grants[i] /\ grants[i] \in Nat
  BY <1>1, <1>2
<1>4. Counted' = Stored + 1
  BY <1>1, <1>2 DEF Counted
<1>5. /\ Stored <= Len(grants)
      /\ \A i \in 1..(Len(grants) - Stored) : grants[i] + Window <= now
  <2>1. CASE now <= expireAt
    BY <1>1, <1>2, <2>1 DEF IInv, Stored, Counted
  <2>2. CASE now > expireAt
    <3>1. \A i \in 1..Len(grants) : grants[i] + Window <= expireAt
      BY DEF IInv
    <3> QED BY <1>1, <1>3, <2>2, <3>1 DEF Stored
  <2> QED BY <1>1, <2>1, <2>2
<1>6. \A i \in 1..Len(grants') : grants'[i] <= now
  <2>1. \A i \in 1..Len(grants) : grants[i] <= now
    BY <1>1, <1>3 DEF IInv
  <2> QED BY <1>1, <1>3, <2>1
<1>7. TypeOK'
  BY <1>1, <1>2 DEF TypeOK
<1>8. AtMostLimitPerWindow'
  <2> SUFFICES ASSUME NEW i \in 1..Len(grants'), i + Limit <= Len(grants')
               PROVE  grants'[i + Limit] - grants'[i] >= Window
    BY <1>2 DEF AtMostLimitPerWindow
  <2>1. CASE i + Limit <= Len(grants)
    BY <1>1, <1>3, <2>1 DEF IInv, AtMostLimitPerWindow
  <2>2. CASE i + Limit = Len(grants) + 1
    <3>1. i \in 1..(Len(grants) - Stored) /\ i \in 1..Len(grants)
      BY <1>1, <1>2, <2>2
    <3>2. grants[i] + Window <= now
      BY <1>5, <3>1
    <3>3. grants'[i + Limit] = now /\ grants'[i] = grants[i] /\ grants[i] \in Nat
      BY <1>3, <2>2, <3>1
    <3> QED BY <1>1, <3>2, <3>3
  <2> QED BY <1>1, <1>3, <2>1, <2>2
<1>9. \A i \in 1..(Len(grants') - Counted') : grants'[i] + Window <= now'
  BY <1>1, <1>2, <1>3, <1>4, <1>5
<1>10. \A i \in 1..Len(grants') : grants'[i] + Window <= expireAt'
  BY <1>1, <1>2, <1>3, <1>6, <1>7 DEF TypeOK
<1>11. Counted' <= Len(grants')
  BY <1>1, <1>3, <1>4, <1>5
<1>12. expireAt' <= now' + Window
  BY <1>1, <1>2
<1> QED BY <1>7, <1>8, <1>9, <1>10, <1>11, <1>12 DEF IInv

\* An access that is refused counts, extends the key and grants nothing.
LEMMA RefuseStep == ASSUME IInv, Refuse PROVE IInv'
<1> USE LimitAssumption, WindowAssumption
<1>1. /\ now \in Nat /\ count \in Nat /\ expireAt \in Nat /\ grants \in Seq(Nat)
      /\ Stored \in Nat /\ expireAt <= now + Window
  BY DEF IInv, TypeOK, Stored
<1>2. /\ grants' = grants /\ now' = now
      /\ expireAt' = now + Window
      /\ count' = Stored + 1
      /\ Stored + 1 > Limit
  BY DEF Refuse, Count
<1>3. Counted' = Limit
  BY <1>1, <1>2 DEF Counted
<1>4. \A i \in 1..Len(grants) : grants[i] \in Nat /\ grants[i] + Window <= expireAt'
  BY <1>1, <1>2 DEF IInv
<1>5. /\ Limit <= Len(grants)
      /\ \A i \in 1..(Len(grants) - Limit) : grants[i] + Window <= now
  <2>1. CASE now <= expireAt
    BY <1>1, <1>2, <2>1 DEF IInv, Stored, Counted
  <2>2. CASE now > expireAt
    <3>1. Limit = 0 /\ \A i \in 1..Len(grants) : grants[i] + Window <= now
      BY <1>1, <1>2, <1>4, <2>2 DEF IInv, Stored
    <3> QED BY <1>1, <3>1
  <2> QED BY <1>1, <2>1, <2>2
<1> QED BY <1>1, <1>2, <1>3, <1>4, <1>5 DEF IInv, TypeOK, AtMostLimitPerWindow

LEMMA TickStep == ASSUME IInv, Tick PROVE IInv'
<1>1. /\ now \in Nat /\ grants \in Seq(Nat) /\ now' = now + 1
      /\ UNCHANGED <<count, expireAt, grants>>
  BY DEF IInv, TypeOK, Tick
<1>2. \A i \in 1..Len(grants) : grants[i] \in Nat
  BY <1>1
<1>3. Counted' = Counted /\ Counted \in Nat
  BY <1>1, LimitAssumption DEF Counted, IInv, TypeOK
<1>4. \A i \in 1..(Len(grants) - Counted) : grants[i] + Window <= now'
  <2> SUFFICES ASSUME NEW i \in 1..(Len(grants) - Counted)
               PROVE  grants[i] + Window <= now'
    OBVIOUS
  <2>1. i \in 1..Len(grants) /\ grants[i] + Window <= now
    BY <1>1, <1>3 DEF IInv
  <2> QED BY <1>1, <1>2, <2>1, WindowAssumption
<1> QED BY <1>1, <1>3, <1>4, WindowAssumption
        DEF IInv, TypeOK, AtMostLimitPerWindow

\* The counter, its deadline and the grants stay consistent.
THEOREM Invariance == Spec => []IInv
<1>1. IInv /\ [Next]_vars => IInv'
  <2> SUFFICES ASSUME IInv, [Next]_vars PROVE IInv'
    OBVIOUS
  <2>1. CASE UNCHANGED vars
    BY <2>1 DEF vars, IInv, TypeOK, Counted, AtMostLimitPerWindow
  <2> QED BY <2>1, GrantStep, RefuseStep, TickStep DEF Next
<1> QED BY <1>1, IInvInit, PTL DEF Spec

\* At most Limit accesses pass in any stretch of Window, however they are
\* spread: the key never expires in the middle of a busy stretch.
THEOREM LimitHolds == Spec => []AtMostLimitPerWindow
<1>1. IInv => AtMostLimitPerWindow
  BY DEF IInv
<1> QED BY <1>1, Invariance, PTL

\* The clock, the counter, its deadline and the grants keep their types.
THEOREM TypeCorrect == Spec => []TypeOK
<1>1. IInv => TypeOK
  BY DEF IInv
<1> QED BY <1>1, Invariance, PTL
=============================================================================
