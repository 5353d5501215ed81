-------------------------- MODULE Suspension_proof --------------------------
(* What an implementation of Suspension inherits.                          *)
EXTENDS Suspension, TLAPS

TypeOK ==
    /\ fallback \in BOOLEAN /\ taken \in Nat
    /\ saved \in Nat \cup {None, Torn} /\ acked \in Nat \cup {None}
    /\ restored \in Nat \cup {None, Torn}

\* An acknowledged suspension is the one a start would be restored from, and
\* without a fall-back neither a start nor a running microVM sees a mixture.
Kept ==
    /\ acked # None => saved = acked /\ acked <= taken
    /\ ~fallback => saved # Torn /\ restored # Torn

\* snapshot_and_publish, main: whoever implements Suspension keeps what it
\* acknowledged and restores one suspension.
THEOREM PromiseKept == Spec => []Kept
<1> USE DEF None, Torn
<1>1. Init => TypeOK /\ Kept
  BY DEF Init, TypeOK, Kept
<1>2. TypeOK /\ Kept /\ [Next]_vars => TypeOK' /\ Kept'
  <2> SUFFICES ASSUME TypeOK, Kept, [Next]_vars PROVE TypeOK' /\ Kept'
    OBVIOUS
  <2> USE DEF TypeOK, Kept
  <2>1. CASE Capture
    BY <2>1 DEF Capture
  <2>2. CASE Replace
    BY <2>2 DEF Replace
  <2>3. CASE Store
    BY <2>3 DEF Store
  <2>4. CASE Acknowledge
    BY <2>4 DEF Acknowledge
  <2>5. CASE Lose
    BY <2>5 DEF Lose
  <2>6. CASE Recover
    BY <2>6 DEF Recover
  <2>7. CASE Resume
    BY <2>7 DEF Resume
  <2>8. CASE Stop
    BY <2>8 DEF Stop
  <2>9. CASE UNCHANGED vars
    BY <2>9 DEF vars
  <2>10. QED
    BY <2>1, <2>2, <2>3, <2>4, <2>5, <2>6, <2>7, <2>8, <2>9 DEF Next
<1>3. QED
  BY <1>1, <1>2, PTL DEF Spec
=============================================================================
