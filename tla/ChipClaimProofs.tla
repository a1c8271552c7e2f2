-------------------------- MODULE ChipClaimProofs --------------------------
(***************************************************************************)
(* The claim model of obd_chip_claim.c for any set of requesters,          *)
(* transactions, monitors, exclusive jobs and senders.                     *)
(***************************************************************************)
EXTENDS ChipClaim, TLAPS

\* A transaction's owner is inside its transaction.
OwnerInside == sTxn # NULL => pc[sTxn] \in {"txn", "nclaim", "nuse"}

\* A claim that is up has somebody who will take it down.
ClaimHasUser ==
    sClaim # "NONE" =>
        sTxn # NULL \/ \E h \in Claimants : pc[h] \in {"use", "own", "nuse"}

\* Without a theft in the air: one holder, whose claim it is.
HolderIsClaimant ==
    ~robbed =>
        /\ \A t, u \in Claimants : pc[t] \in Holding /\ pc[u] \in Holding => t = u
        /\ \A t \in Claimants : pc[t] \in Holding =>
              /\ sClaim = TypeOf(t)
              /\ pc[t] \in {"txn", "nclaim", "nuse"} => sTxn = t

IInv == TypeOK /\ OwnerInside /\ ClaimHasUser /\ HolderIsClaimant

\* What a task claims is a claim, a transaction's is COMMAND.
LEMMA TypeOfFacts ==
    ASSUME NEW t \in Tasks
    PROVE  /\ TypeOf(t) \in {"COMMAND", "MONITOR", "EXCLUSIVE"}
           /\ t \in Transactors => TypeOf(t) = "COMMAND"
  BY TasksAssumption DEF TypeOf, Claimants

LEMMA InitIInv == Init => IInv
  BY TasksAssumption DEF Init, IInv, TypeOK, OwnerInside, ClaimHasUser, HolderIsClaimant, Holding, Tasks, Claimants

\* The state stays in its types.
LEMMA NextTypeOK ==
    ASSUME IInv, [Next]_vars
    PROVE  TypeOK'
<1>. USE DEF TypeOK, Tasks, Claimants, Holding
<1>1. CASE UNCHANGED vars
  BY <1>1 DEF vars, IInv
<1>2. CASE Overdue
  BY <1>2 DEF Overdue, IInv
<1>3. ASSUME NEW t \in Tasks, Step(t)
      PROVE  TypeOK'
  <2>. t # NULL /\ NULL \notin Transactors
    BY TasksAssumption DEF Tasks, Claimants
  <2>0. TypeOf(t) \in {"COMMAND", "MONITOR", "EXCLUSIVE"} /\ (t \in Transactors => TypeOf(t) = "COMMAND")
    BY <1>3, TypeOfFacts
  <2>1. CASE Claim(t)
    BY <1>3, <2>0, <2>1 DEF Claim, obd_core_claim, OwnsTxn, Steals, Free, Goto, SingleUsers, IInv
  <2>2. CASE Release(t)
    BY <1>3, <2>0, <2>2 DEF Release, obd_core_release, Goto, SingleUsers, Forgets, IInv
  <2>3. CASE TxnClaim(t)
    BY <1>3, <2>0, <2>3 DEF TxnClaim, obd_core_claim, OwnsTxn, Steals, Free, Goto, IInv
  <2>4. CASE TxnOwn(t)
    BY <1>3, <2>0, <2>4 DEF TxnOwn, Goto, IInv
  <2>5. CASE TxnEnd(t)
    BY <1>3, <2>0, <2>5 DEF TxnEnd, Goto, Forgets, IInv
  <2>6. CASE NestedStart(t)
    BY <1>3, <2>0, <2>6 DEF NestedStart, Goto, IInv
  <2>7. CASE NestedClaim(t)
    BY <1>3, <2>0, <2>7 DEF NestedClaim, obd_core_claim, OwnsTxn, Steals, Free, Goto, IInv
  <2>8. CASE NestedFails(t)
    BY <1>3, <2>0, <2>8 DEF NestedFails, ClaimFails, OwnsTxn, Goto, IInv
  <2>9. CASE NestedRelease(t)
    BY <1>3, <2>0, <2>9 DEF NestedRelease, obd_core_release, Goto, IInv
  <2>10. CASE SendStart(t)
    BY <1>3, <2>0, <2>10 DEF SendStart, Goto, IInv
  <2>11. CASE SendWrite(t)
    BY <1>3, <2>0, <2>11 DEF SendWrite, Goto, IInv
  <2>12. QED
    BY <1>3, <2>1, <2>2, <2>3, <2>4, <2>5, <2>6, <2>7, <2>8, <2>9, <2>10, <2>11 DEF Step
<1>4. QED
  BY <1>1, <1>2, <1>3 DEF Next

\* Only its own txn_end, or a theft, ends a transaction.
LEMMA NextOwnerInside ==
    ASSUME IInv, [Next]_vars
    PROVE  OwnerInside'
<1>. USE DEF TypeOK, OwnerInside, Tasks, Claimants
<1>1. CASE UNCHANGED vars
  BY <1>1 DEF vars, IInv
<1>2. CASE Overdue
  BY <1>2 DEF Overdue, IInv
<1>3. ASSUME NEW t \in Tasks, Step(t)
      PROVE  OwnerInside'
  <2>. t # NULL /\ NULL \notin Transactors
    BY TasksAssumption DEF Tasks, Claimants
  <2>0. TypeOf(t) \in {"COMMAND", "MONITOR", "EXCLUSIVE"} /\ (t \in Transactors => TypeOf(t) = "COMMAND")
    BY <1>3, TypeOfFacts
  <2>1. CASE Claim(t)
    BY <1>3, <2>0, <2>1 DEF Claim, obd_core_claim, OwnsTxn, Steals, Free, Goto, SingleUsers, IInv
  <2>2. CASE Release(t)
    BY <1>3, <2>0, <2>2 DEF Release, obd_core_release, Goto, SingleUsers, Forgets, IInv
  <2>3. CASE TxnClaim(t)
    BY <1>3, <2>0, <2>3 DEF TxnClaim, obd_core_claim, OwnsTxn, Steals, Free, Goto, IInv
  <2>4. CASE TxnOwn(t)
    BY <1>3, <2>0, <2>4 DEF TxnOwn, Goto, IInv
  <2>5. CASE TxnEnd(t)
    BY <1>3, <2>0, <2>5 DEF TxnEnd, Goto, Forgets, IInv
  <2>6. CASE NestedStart(t)
    BY <1>3, <2>0, <2>6 DEF NestedStart, Goto, IInv
  <2>7. CASE NestedClaim(t)
    BY <1>3, <2>0, <2>7 DEF NestedClaim, obd_core_claim, OwnsTxn, Steals, Free, Goto, IInv
  <2>8. CASE NestedFails(t)
    BY <1>3, <2>0, <2>8 DEF NestedFails, ClaimFails, OwnsTxn, Goto, IInv
  <2>9. CASE NestedRelease(t)
    BY <1>3, <2>0, <2>9 DEF NestedRelease, obd_core_release, Goto, IInv
  <2>10. CASE SendStart(t)
    BY <1>3, <2>0, <2>10 DEF SendStart, Goto, IInv
  <2>11. CASE SendWrite(t)
    BY <1>3, <2>0, <2>11 DEF SendWrite, Goto, IInv
  <2>12. QED
    BY <1>3, <2>1, <2>2, <2>3, <2>4, <2>5, <2>6, <2>7, <2>8, <2>9, <2>10, <2>11 DEF Step
<1>4. QED
  BY <1>1, <1>2, <1>3 DEF Next

\* Whoever leaves the chip last takes the claim down.
LEMMA NextClaimHasUser ==
    ASSUME IInv, [Next]_vars
    PROVE  ClaimHasUser'
<1>. USE DEF TypeOK, ClaimHasUser, Tasks, Claimants
<1>1. CASE UNCHANGED vars
  BY <1>1 DEF vars, IInv
<1>2. CASE Overdue
  BY <1>2 DEF Overdue, IInv
<1>3. ASSUME NEW t \in Tasks, Step(t)
      PROVE  ClaimHasUser'
  <2>. t # NULL /\ NULL \notin Transactors
    BY TasksAssumption DEF Tasks, Claimants
  <2>0. TypeOf(t) \in {"COMMAND", "MONITOR", "EXCLUSIVE"} /\ (t \in Transactors => TypeOf(t) = "COMMAND")
    BY <1>3, TypeOfFacts
  <2>1. CASE Claim(t)
    BY <1>3, <2>0, <2>1 DEF Claim, obd_core_claim, OwnsTxn, Steals, Free, Goto, SingleUsers, IInv
  <2>2. CASE Release(t)
    BY <1>3, <2>0, <2>2 DEF Release, obd_core_release, Goto, SingleUsers, Forgets, IInv
  <2>3. CASE TxnClaim(t)
    BY <1>3, <2>0, <2>3 DEF TxnClaim, obd_core_claim, OwnsTxn, Steals, Free, Goto, IInv
  <2>4. CASE TxnOwn(t)
    BY <1>3, <2>0, <2>4 DEF TxnOwn, Goto, IInv
  <2>5. CASE TxnEnd(t)
    BY <1>3, <2>0, <2>5 DEF TxnEnd, Goto, Forgets, IInv
  <2>6. CASE NestedStart(t)
    BY <1>3, <2>0, <2>6 DEF NestedStart, Goto, IInv
  <2>7. CASE NestedClaim(t)
    BY <1>3, <2>0, <2>7 DEF NestedClaim, obd_core_claim, OwnsTxn, Steals, Free, Goto, IInv
  <2>8. CASE NestedFails(t)
    BY <1>3, <2>0, <2>8 DEF NestedFails, ClaimFails, OwnsTxn, Goto, IInv
  <2>9. CASE NestedRelease(t)
    BY <1>3, <2>0, <2>9 DEF NestedRelease, obd_core_release, Goto, IInv
  <2>10. CASE SendStart(t)
    BY <1>3, <2>0, <2>10 DEF SendStart, Goto, IInv
  <2>11. CASE SendWrite(t)
    BY <1>3, <2>0, <2>11 DEF SendWrite, Goto, IInv
  <2>12. QED
    BY <1>3, <2>1, <2>2, <2>3, <2>4, <2>5, <2>6, <2>7, <2>8, <2>9, <2>10, <2>11 DEF Step
<1>4. QED
  BY <1>1, <1>2, <1>3 DEF Next

\* A grant finds the chip unused, and a release is its holder's.
LEMMA NextHolder ==
    ASSUME IInv, [Next]_vars
    PROVE  HolderIsClaimant'
<1>. USE DEF TypeOK, HolderIsClaimant, Tasks, Claimants, Holding
<1>1. CASE UNCHANGED vars
  BY <1>1 DEF vars, IInv
<1>2. CASE Overdue
  BY <1>2 DEF Overdue, IInv
<1>3. ASSUME NEW t \in Tasks, Step(t)
      PROVE  HolderIsClaimant'
  <2>. t # NULL /\ NULL \notin Transactors
    BY TasksAssumption DEF Tasks, Claimants
  <2>0. TypeOf(t) \in {"COMMAND", "MONITOR", "EXCLUSIVE"} /\ (t \in Transactors => TypeOf(t) = "COMMAND")
    BY <1>3, TypeOfFacts
  <2>a. \A h \in Claimants : TypeOf(h) # "NONE"
    BY TypeOfFacts DEF Tasks
  <2>1. CASE Claim(t)
    <3>1. CASE robbed'
      BY <3>1
    <3>2. CASE ~robbed'
      <4>1. sClaim = "NONE" /\ sClaim' = TypeOf(t) /\ ~robbed
        BY <1>3, <2>0, <2>1, <3>2 DEF Claim, obd_core_claim, OwnsTxn, Steals, Free, Goto, SingleUsers, IInv
      <4>2. \A h \in Claimants : pc[h] \notin Holding
        BY <2>a, <4>1 DEF IInv
      <4>3. \A h \in Claimants : pc'[h] \in Holding => h = t
        BY <2>1, <4>2 DEF Claim, Goto, IInv
      <4>4. pc'[t] \notin {"txn", "nclaim", "nuse"}
        BY <1>3, <2>1 DEF Claim, Goto, IInv
      <4>5. TypeOf(t)' = TypeOf(t)
        BY DEF TypeOf
      <4>6. QED
        BY <4>1, <4>3, <4>4, <4>5
    <3>3. QED
      BY <3>1, <3>2
  <2>2. CASE Release(t)
    <3>0. pc'[t] \notin Holding /\ \A h \in Claimants : h # t => pc'[h] = pc[h]
      BY <1>3, <2>2 DEF Release, Goto, IInv
    <3>1. CASE Holders = {t}
      <4>1. \A h \in Claimants : pc'[h] \notin Holding
        BY <3>0, <3>1 DEF Holders
      <4>2. QED
        BY <4>1
    <3>2. CASE robbed /\ Holders # {t}
      BY <2>2, <3>2 DEF Release, Forgets
    <3>3. CASE ~robbed
      <4>1. t \in Claimants /\ pc[t] \in Holding
        BY <1>3, <2>2 DEF Release, SingleUsers
      <4>2. \A h \in Claimants : pc'[h] \notin Holding
        BY <3>0, <3>3, <4>1 DEF IInv
      <4>3. QED
        BY <4>2
    <3>4. QED
      BY <3>1, <3>2, <3>3
  <2>3. CASE TxnClaim(t)
    <3>1. CASE robbed'
      BY <3>1
    <3>2. CASE ~robbed'
      <4>1. sClaim = "NONE" /\ sClaim' = TypeOf(t) /\ ~robbed
        BY <1>3, <2>0, <2>3, <3>2 DEF TxnClaim, obd_core_claim, OwnsTxn, Steals, Free, Goto, IInv
      <4>2. \A h \in Claimants : pc[h] \notin Holding
        BY <2>a, <4>1 DEF IInv
      <4>3. \A h \in Claimants : pc'[h] \in Holding => h = t
        BY <2>3, <4>2 DEF TxnClaim, Goto, IInv
      <4>4. pc'[t] \notin {"txn", "nclaim", "nuse"}
        BY <1>3, <2>3 DEF TxnClaim, Goto, IInv
      <4>5. TypeOf(t)' = TypeOf(t)
        BY DEF TypeOf
      <4>6. QED
        BY <4>1, <4>3, <4>4, <4>5
    <3>3. QED
      BY <3>1, <3>2
  <2>4. CASE TxnOwn(t)
    BY <1>3, <2>0, <2>4 DEF TxnOwn, Goto, IInv
  <2>5. CASE TxnEnd(t)
    <3>0. pc'[t] \notin Holding /\ \A h \in Claimants : h # t => pc'[h] = pc[h]
      BY <1>3, <2>5 DEF TxnEnd, Goto, IInv
    <3>1. CASE Holders = {t}
      <4>1. \A h \in Claimants : pc'[h] \notin Holding
        BY <3>0, <3>1 DEF Holders
      <4>2. QED
        BY <4>1
    <3>2. CASE robbed /\ Holders # {t}
      BY <2>5, <3>2 DEF TxnEnd, Forgets
    <3>3. CASE ~robbed
      <4>1. t \in Claimants /\ pc[t] \in Holding
        BY <1>3, <2>5 DEF TxnEnd, SingleUsers
      <4>2. \A h \in Claimants : pc'[h] \notin Holding
        BY <3>0, <3>3, <4>1 DEF IInv
      <4>3. QED
        BY <4>2
    <3>4. QED
      BY <3>1, <3>2, <3>3
  <2>6. CASE NestedStart(t)
    BY <1>3, <2>0, <2>6 DEF NestedStart, Goto, IInv
  <2>7. CASE NestedClaim(t)
    BY <1>3, <2>0, <2>7 DEF NestedClaim, obd_core_claim, OwnsTxn, Steals, Free, Goto, IInv
  <2>8. CASE NestedFails(t)
    BY <1>3, <2>0, <2>8 DEF NestedFails, ClaimFails, OwnsTxn, Goto, IInv
  <2>9. CASE NestedRelease(t)
    BY <1>3, <2>0, <2>9 DEF NestedRelease, obd_core_release, Goto, IInv
  <2>10. CASE SendStart(t)
    BY <1>3, <2>0, <2>10 DEF SendStart, Goto, IInv
  <2>11. CASE SendWrite(t)
    BY <1>3, <2>0, <2>11 DEF SendWrite, Goto, IInv
  <2>12. QED
    BY <1>3, <2>1, <2>2, <2>3, <2>4, <2>5, <2>6, <2>7, <2>8, <2>9, <2>10, <2>11 DEF Step
<1>4. QED
  BY <1>1, <1>2, <1>3 DEF Next

LEMMA Invariance == Spec => []IInv
<1>1. IInv /\ [Next]_vars => IInv'
  BY NextTypeOK, NextOwnerInside, NextClaimHasUser, NextHolder DEF IInv
<1>2. QED
  BY InitIInv, <1>1, PTL DEF Spec

\* The claim, its transaction and the tasks stay in their types.
THEOREM TypeCorrect == Spec => []TypeOK
<1>1. IInv => TypeOK
  BY DEF IInv
<1>2. QED
  BY Invariance, <1>1, PTL

\* One user at a time while no theft is in the air, for any number of tasks
\* (obd_core_claim).
THEOREM ChipHasOneUser == Spec => []OneUser
<1>1. IInv => OneUser
  BY DEF IInv, HolderIsClaimant, OneUser, Holders
<1>2. QED
  BY Invariance, <1>1, PTL

\* A user's claim is there until that user releases it (obd_core_release,
\* obd_chip_txn_end).
THEOREM ClaimIsKept == Spec => []UserKeepsClaim
<1>1. IInv => UserKeepsClaim
  BY DEF IInv, HolderIsClaimant, UserKeepsClaim, Holders
<1>2. QED
  BY Invariance, <1>1, PTL

\* No order of thefts, releases and txn_ends leaks the claim: this holds
\* after a theft too, hence OwnerInside and ClaimHasUser, which say nothing
\* of who robbed whom.
THEOREM NoClaimLeaks == Spec => []QuietMeansFree
<1>1. IInv => QuietMeansFree
  BY TasksAssumption DEF IInv, TypeOK, OwnerInside, ClaimHasUser, QuietMeansFree, Holders, Holding, Claimants
<1>2. QED
  BY Invariance, <1>1, PTL
=============================================================================
