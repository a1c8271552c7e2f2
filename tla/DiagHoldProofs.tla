-------------------------- MODULE DiagHoldProofs ---------------------------
(***************************************************************************)
(* Proofs about DiagHold, for any number of UDS tasks, testers, switching  *)
(* tasks and scripts and any limit on the holders.                         *)
(*                                                                         *)
(* AckMeansPollerOff is not inductive: the poller's next look at the hold  *)
(* keeps it only if an acknowledgement that is up stands for a hold that is*)
(* still on, and PollerStaysOff rests on the acknowledgement staying up    *)
(* while the tool holds and on the poller starting no DTC scan meanwhile.  *)
(* AckInv says all three.  Both theorems are about poller_task; a chip job *)
(* in a task of its own, the DTC scan among them, does not look at the hold*)
(* and may be on the bus while the acknowledgement is up.                  *)
(***************************************************************************)
EXTENDS DiagHold, FiniteSetTheorems, TLAPS

AckInv ==
    /\ AckMeansPollerOff
    /\ acked => holders # {}
    /\ \A o \in quiet : o \in holders /\ acked
    /\ ~ late

IInv == TypeOK /\ AckInv

\* og_diag_set keeps the holders a set of owners within the limit.
LEMMA SetType ==
    ASSUME DiagTypeOK, NEW owner \in Owners, NEW on \in BOOLEAN, og_diag_set(owner, on)
    PROVE  /\ holders' \subseteq Owners /\ acked' \in BOOLEAN
           /\ Cardinality(holders') <= OG_DIAG_MAX_HOLDERS
  <1>1. IsFiniteSet(Owners)
    <2>1. IsFiniteSet({"uds"}) /\ IsFiniteSet({"j2534"}) /\ IsFiniteSet({"script"})
      BY FS_Singleton
    <2>2. IsFiniteSet({"uds"} \cup {"j2534"})
      BY <2>1, FS_Union
    <2>3. IsFiniteSet(({"uds"} \cup {"j2534"}) \cup {"script"})
      BY <2>1, <2>2, FS_Union
    <2>4. Owners = ({"uds"} \cup {"j2534"}) \cup {"script"}
      BY DEF Owners
    <2>5. QED
      BY <2>3, <2>4
  <1>2. IsFiniteSet(holders) /\ Cardinality(holders) \in Nat
    BY <1>1, FS_Subset, FS_CardinalityType DEF DiagTypeOK
  <1>3. holders' \subseteq Owners /\ acked' \in BOOLEAN
    BY DEF og_diag_set, DiagTypeOK
  <1>4. CASE ~ on
    <2>1. holders' \subseteq holders
      BY <1>4 DEF og_diag_set
    <2>2. Cardinality(holders') <= Cardinality(holders) /\ Cardinality(holders') \in Nat
      BY <1>2, <2>1, FS_Subset, FS_CardinalityType
    <2>3. QED
      BY <1>2, <1>3, <2>2, DiagAssumption DEF DiagTypeOK
  <1>5. CASE on /\ Cardinality(holders) < OG_DIAG_MAX_HOLDERS
    <2>1. holders' = holders \cup {owner}
      BY <1>5 DEF og_diag_set
    <2>2. Cardinality(holders') \in {Cardinality(holders), Cardinality(holders) + 1}
      BY <1>2, <2>1, FS_AddElement
    <2>3. QED
      BY <1>2, <1>3, <1>5, <2>2, DiagAssumption
  <1>6. CASE on /\ ~ (Cardinality(holders) < OG_DIAG_MAX_HOLDERS)
    BY <1>3, <1>6 DEF og_diag_set, DiagTypeOK
  <1>7. QED
    BY <1>4, <1>5, <1>6

\* Nobody holds the bus at boot.
LEMMA InitInv == Init => IInv
  <1> SUFFICES ASSUME Init PROVE IInv
    OBVIOUS
  <1>1. Cardinality({}) = 0
    BY FS_EmptySet
  <1>a. Cardinality(holders) <= OG_DIAG_MAX_HOLDERS
    BY <1>1, DiagAssumption DEF Init
  <1>2. DiagTypeOK
    BY <1>a DEF Init, DiagTypeOK
  <1>3. UdsTypeOK
    BY DEF Init, UdsTypeOK, Places
  <1>4. AckInv
    BY DEF Init, AckInv, AckMeansPollerOff
  <1>5. QED
    BY <1>2, <1>3, <1>4 DEF IInv, TypeOK

\* Every step of the poller, the timer task and the tools keeps the invariant.
LEMMA StepInv == IInv /\ [Next]_vars => IInv'
  <1> SUFFICES ASSUME IInv, [Next]_vars PROVE IInv'
    OBVIOUS
  <1>a. TypeOK /\ DiagTypeOK /\ UdsTypeOK /\ AckInv
    BY DEF IInv, TypeOK
  <1> USE <1>a
  <1>1. CASE PollerReads
    <2>1. DiagTypeOK'
      BY <1>1 DEF PollerReads, diag, og_diag_held, job, DiagTypeOK
    <2>3. AckInv'
      BY <1>1 DEF PollerReads, diag, og_diag_held, job, AckInv, AckMeansPollerOff, PollerOnBus
    <2>2. UdsTypeOK'
      BY <1>1 DEF PollerReads, uds, timer, j2534, UdsTypeOK
    <2>4. QED
      BY <2>1, <2>2, <2>3 DEF IInv, TypeOK
  <1>2. CASE PollerRestores
    <2>1. DiagTypeOK'
      BY <1>2 DEF PollerRestores, diag, job, DiagTypeOK
    <2>3. AckInv'
      BY <1>2 DEF PollerRestores, diag, job, AckInv, AckMeansPollerOff, PollerOnBus
    <2>2. UdsTypeOK'
      BY <1>2 DEF PollerRestores, uds, timer, j2534, UdsTypeOK
    <2>4. QED
      BY <2>1, <2>2, <2>3 DEF IInv, TypeOK
  <1>3. CASE PollerAcks
    <2>1. DiagTypeOK'
      BY <1>3 DEF PollerAcks, obd_gate_diag_ack, job, DiagTypeOK
    <2>3. AckInv'
      BY <1>3 DEF PollerAcks, obd_gate_diag_ack, og_diag_held, job, AckInv, AckMeansPollerOff, PollerOnBus
    <2>2. UdsTypeOK'
      BY <1>3 DEF PollerAcks, uds, timer, j2534, UdsTypeOK
    <2>4. QED
      BY <2>1, <2>2, <2>3 DEF IInv, TypeOK
  <1>4. CASE PollerIdles
    <2>1. DiagTypeOK'
      BY <1>4 DEF PollerIdles, diag, job, DiagTypeOK
    <2>3. AckInv'
      BY <1>4 DEF PollerIdles, diag, job, AckInv, AckMeansPollerOff, PollerOnBus
    <2>2. UdsTypeOK'
      BY <1>4 DEF PollerIdles, uds, timer, j2534, UdsTypeOK
    <2>4. QED
      BY <2>1, <2>2, <2>3 DEF IInv, TypeOK
  <1>5. CASE PollerPolls
    <2>1. DiagTypeOK'
      BY <1>5 DEF PollerPolls, diag, job, DiagTypeOK
    <2>3. AckInv'
      BY <1>5 DEF PollerPolls, diag, job, AckInv, AckMeansPollerOff
    <2>2. UdsTypeOK'
      BY <1>5 DEF PollerPolls, uds, timer, j2534, UdsTypeOK
    <2>4. QED
      BY <2>1, <2>2, <2>3 DEF IInv, TypeOK
  <1>6. CASE PollerDone
    <2>1. DiagTypeOK'
      BY <1>6 DEF PollerDone, diag, job, DiagTypeOK
    <2>3. AckInv'
      BY <1>6 DEF PollerDone, diag, job, AckInv, AckMeansPollerOff, PollerOnBus
    <2>2. UdsTypeOK'
      BY <1>6 DEF PollerDone, uds, timer, j2534, UdsTypeOK
    <2>4. QED
      BY <2>1, <2>2, <2>3 DEF IInv, TypeOK
  <1>7. CASE IdlePeriod
    <2>1. DiagTypeOK'
      BY <1>7 DEF IdlePeriod, diag, poller, job, DiagTypeOK
    <2>3. AckInv'
      BY <1>7 DEF IdlePeriod, diag, poller, job, AckInv, AckMeansPollerOff, PollerOnBus
    <2>2. UdsTypeOK'
      BY <1>7 DEF IdlePeriod, uds, j2534, UdsTypeOK
    <2>4. QED
      BY <2>1, <2>2, <2>3 DEF IInv, TypeOK
  <1>8. CASE TimerFires
    <2>1. DiagTypeOK'
      BY <1>8 DEF TimerFires, diag, poller, job, DiagTypeOK
    <2>3. AckInv'
      BY <1>8 DEF TimerFires, diag, poller, job, AckInv, AckMeansPollerOff, PollerOnBus
    <2>2. UdsTypeOK'
      BY <1>8 DEF TimerFires, uds, j2534, UdsTypeOK
    <2>4. QED
      BY <2>1, <2>2, <2>3 DEF IInv, TypeOK
  <1>9. CASE excl_timer_cb
    <2>1. DiagTypeOK'
      BY <1>9 DEF excl_timer_cb, diag, poller, job, DiagTypeOK
    <2>3. AckInv'
      BY <1>9 DEF excl_timer_cb, diag, poller, job, AckInv, AckMeansPollerOff, PollerOnBus
    <2>2. UdsTypeOK'
      BY <1>9 DEF excl_timer_cb, uds, j2534, UdsTypeOK
    <2>4. QED
      BY <2>1, <2>2, <2>3 DEF IInv, TypeOK
  <1>10. CASE TimerClears
    <2>1. DiagTypeOK'
      BY <1>10 DEF TimerClears, diag, poller, j2534, job, DiagTypeOK, Owners
    <2>3. AckInv'
      BY <1>10 DEF TimerClears, diag, poller, job, AckInv, AckMeansPollerOff, PollerOnBus
    <2>2. UdsTypeOK'
      BY <1>10 DEF TimerClears, diag, poller, j2534, UdsTypeOK, Places
    <2>4. QED
      BY <2>1, <2>2, <2>3 DEF IInv, TypeOK
  <1>11. CASE TimerReleases
    <2>1. DiagTypeOK'
      BY <1>11, SetType DEF TimerReleases, obd_gate_diag_hold, poller, job, DiagTypeOK, Owners
    <2>3. AckInv'
      BY <1>11
         DEF TimerReleases, obd_gate_diag_hold, og_diag_set, poller, job, AckInv, AckMeansPollerOff,
             PollerOnBus
    <2>2. UdsTypeOK'
      BY <1>11 DEF TimerReleases, uds, j2534, UdsTypeOK
    <2>4. QED
      BY <2>1, <2>2, <2>3 DEF IInv, TypeOK
  <1>12. CASE \E client \in BOOLEAN : PollerSeesClient(client)
    <2>0. PICK client \in BOOLEAN : PollerSeesClient(client)
      BY <1>12
    <2>1. DiagTypeOK'
      BY <2>0 DEF PollerSeesClient, diag, job, DiagTypeOK
    <2>3. AckInv'
      BY <2>0 DEF PollerSeesClient, diag, job, AckInv, AckMeansPollerOff, PollerOnBus
    <2>2. UdsTypeOK'
      BY <2>0 DEF PollerSeesClient, uds, timer, j2534, UdsTypeOK
    <2>4. QED
      BY <2>1, <2>2, <2>3 DEF IInv, TypeOK
  <1>13. CASE \E t \in Tasks : uds_request(t)
    <2>0. PICK t \in Tasks : uds_request(t)
      BY <1>13
    <2>1. DiagTypeOK'
      BY <2>0 DEF uds_request, diag, poller, job, DiagTypeOK
    <2>3. AckInv'
      BY <2>0 DEF uds_request, diag, poller, job, AckInv, AckMeansPollerOff, PollerOnBus
    <2>2. UdsTypeOK'
      BY <2>0 DEF uds_request, Goto, timer, j2534, UdsTypeOK, Places
    <2>4. QED
      BY <2>1, <2>2, <2>3 DEF IInv, TypeOK
  <1>14. CASE \E t \in Tasks : uds_session_begin(t)
    <2>0. PICK t \in Tasks : uds_session_begin(t)
      BY <1>14
    <2>1. DiagTypeOK'
      BY <2>0 DEF uds_session_begin, diag, poller, job, DiagTypeOK
    <2>3. AckInv'
      BY <2>0 DEF uds_session_begin, diag, poller, job, AckInv, AckMeansPollerOff, PollerOnBus
    <2>2. UdsTypeOK'
      BY <2>0 DEF uds_session_begin, Goto, timer, j2534, UdsTypeOK, Places
    <2>4. QED
      BY <2>1, <2>2, <2>3 DEF IInv, TypeOK
  <1>15. CASE \E t \in Tasks : uds_session_end(t)
    <2>0. PICK t \in Tasks : uds_session_end(t)
      BY <1>15
    <2>1. DiagTypeOK'
      BY <2>0 DEF uds_session_end, diag, poller, job, DiagTypeOK
    <2>3. AckInv'
      BY <2>0 DEF uds_session_end, diag, poller, job, AckInv, AckMeansPollerOff, PollerOnBus
    <2>2. UdsTypeOK'
      BY <2>0 DEF uds_session_end, Goto, timer, j2534, UdsTypeOK, Places
    <2>4. QED
      BY <2>1, <2>2, <2>3 DEF IInv, TypeOK
  <1>16. CASE \E t \in Tasks : j2534_srv_session_begin(t)
    <2>0. PICK t \in Tasks : j2534_srv_session_begin(t)
      BY <1>16
    <2>1. DiagTypeOK'
      BY <2>0 DEF j2534_srv_session_begin, diag, poller, job, DiagTypeOK
    <2>3. AckInv'
      BY <2>0 DEF j2534_srv_session_begin, diag, poller, job, AckInv, AckMeansPollerOff, PollerOnBus
    <2>2. UdsTypeOK'
      BY <2>0 DEF j2534_srv_session_begin, Goto, uds, timer, UdsTypeOK, Places
    <2>4. QED
      BY <2>1, <2>2, <2>3 DEF IInv, TypeOK
  <1>17. CASE \E t \in Tasks : j2534_srv_session_end(t)
    <2>0. PICK t \in Tasks : j2534_srv_session_end(t)
      BY <1>17
    <2>1. DiagTypeOK'
      BY <2>0 DEF j2534_srv_session_end, diag, poller, job, DiagTypeOK
    <2>3. AckInv'
      BY <2>0 DEF j2534_srv_session_end, diag, poller, job, AckInv, AckMeansPollerOff, PollerOnBus
    <2>2. UdsTypeOK'
      BY <2>0 DEF j2534_srv_session_end, Goto, diag, poller, uds, timer, UdsTypeOK, Places
    <2>4. QED
      BY <2>1, <2>2, <2>3 DEF IInv, TypeOK
  <1>18. CASE \E t \in Tasks : se_bus_hold(t)
    <2>0. PICK t \in Tasks : se_bus_hold(t)
      BY <1>18
    <2>1. DiagTypeOK'
      BY <2>0, SetType DEF se_bus_hold, obd_gate_diag_hold, poller, job, DiagTypeOK, Owners
    <2>3. AckInv'
      BY <2>0
         DEF se_bus_hold, obd_gate_diag_hold, og_diag_set, poller, job, AckInv, AckMeansPollerOff,
             PollerOnBus
    <2>2. UdsTypeOK'
      BY <2>0 DEF se_bus_hold, Goto, uds, timer, j2534, UdsTypeOK, Places
    <2>4. QED
      BY <2>1, <2>2, <2>3 DEF IInv, TypeOK
  <1>19. CASE \E t \in Tasks : RequestClaims(t)
    <2>0. PICK t \in Tasks : RequestClaims(t)
      BY <1>19
    <2>1. DiagTypeOK'
      BY <2>0 DEF RequestClaims, diag, poller, job, DiagTypeOK
    <2>3. AckInv'
      BY <2>0 DEF RequestClaims, diag, poller, job, AckInv, AckMeansPollerOff, PollerOnBus
    <2>2. UdsTypeOK'
      BY <2>0 DEF RequestClaims, Goto, timer, j2534, UdsTypeOK, Places
    <2>4. QED
      BY <2>1, <2>2, <2>3 DEF IInv, TypeOK
  <1>20. CASE \E t \in Tasks : RequestBusy(t)
    <2>0. PICK t \in Tasks : RequestBusy(t)
      BY <1>20
    <2>1. DiagTypeOK'
      BY <2>0 DEF RequestBusy, diag, poller, job, DiagTypeOK
    <2>3. AckInv'
      BY <2>0 DEF RequestBusy, diag, poller, job, AckInv, AckMeansPollerOff, PollerOnBus
    <2>2. UdsTypeOK'
      BY <2>0 DEF RequestBusy, Goto, timer, j2534, UdsTypeOK, Places
    <2>4. QED
      BY <2>1, <2>2, <2>3 DEF IInv, TypeOK
  <1>21. CASE \E t \in Tasks : RequestDone(t)
    <2>0. PICK t \in Tasks : RequestDone(t)
      BY <1>21
    <2>1. DiagTypeOK'
      BY <2>0 DEF RequestDone, diag, poller, job, DiagTypeOK
    <2>3. AckInv'
      BY <2>0 DEF RequestDone, diag, poller, job, AckInv, AckMeansPollerOff, PollerOnBus
    <2>2. UdsTypeOK'
      BY <2>0 DEF RequestDone, Goto, timer, j2534, UdsTypeOK, Places
    <2>4. QED
      BY <2>1, <2>2, <2>3 DEF IInv, TypeOK
  <1>22. CASE \E t \in Tasks : SessionEnded(t)
    <2>0. PICK t \in Tasks : SessionEnded(t)
      BY <1>22
    <2>1. DiagTypeOK'
      BY <2>0 DEF SessionEnded, diag, poller, job, DiagTypeOK
    <2>3. AckInv'
      BY <2>0 DEF SessionEnded, diag, poller, job, AckInv, AckMeansPollerOff, PollerOnBus
    <2>2. UdsTypeOK'
      BY <2>0 DEF SessionEnded, Goto, uds, timer, j2534, UdsTypeOK, Places
    <2>4. QED
      BY <2>1, <2>2, <2>3 DEF IInv, TypeOK
  <1>23. CASE \E t \in Tasks : TouchExclusive(t)
    <2>0. PICK t \in Tasks : TouchExclusive(t)
      BY <1>23
    <2>1. DiagTypeOK'
      BY <2>0 DEF TouchExclusive, diag, poller, job, DiagTypeOK
    <2>3. AckInv'
      BY <2>0 DEF TouchExclusive, diag, poller, job, AckInv, AckMeansPollerOff, PollerOnBus
    <2>2. UdsTypeOK'
      BY <2>0 DEF TouchExclusive, Goto, uds, timer, j2534, UdsTypeOK, Places
    <2>4. QED
      BY <2>1, <2>2, <2>3 DEF IInv, TypeOK
  <1>24. CASE \E t \in Tasks : TouchHolding(t)
    <2>0. PICK t \in Tasks : TouchHolding(t)
      BY <1>24
    <2>1. DiagTypeOK'
      BY <2>0 DEF TouchHolding, diag, poller, job, DiagTypeOK
    <2>3. AckInv'
      BY <2>0 DEF TouchHolding, diag, poller, job, AckInv, AckMeansPollerOff, PollerOnBus
    <2>2. UdsTypeOK'
      BY <2>0 DEF TouchHolding, Goto, uds, timer, j2534, UdsTypeOK, Places
    <2>4. QED
      BY <2>1, <2>2, <2>3 DEF IInv, TypeOK
  <1>25. CASE \E t \in Tasks : TouchMark(t)
    <2>0. PICK t \in Tasks : TouchMark(t)
      BY <1>25
    <2>1. DiagTypeOK'
      BY <2>0 DEF TouchMark, diag, poller, job, DiagTypeOK
    <2>3. AckInv'
      BY <2>0 DEF TouchMark, diag, poller, job, AckInv, AckMeansPollerOff, PollerOnBus
    <2>2. UdsTypeOK'
      BY <2>0 DEF TouchMark, Goto, timer, j2534, UdsTypeOK, Places
    <2>4. QED
      BY <2>1, <2>2, <2>3 DEF IInv, TypeOK
  <1>26. CASE \E t \in Tasks : TouchHold(t)
    <2>0. PICK t \in Tasks : TouchHold(t)
      BY <1>26
    <2>1. DiagTypeOK'
      BY <2>0, SetType DEF TouchHold, obd_gate_diag_hold, poller, job, DiagTypeOK, Owners
    <2>3. AckInv'
      BY <2>0
         DEF TouchHold, obd_gate_diag_hold, og_diag_set, poller, job, AckInv, AckMeansPollerOff,
             PollerOnBus
    <2>2. UdsTypeOK'
      BY <2>0 DEF TouchHold, Goto, uds, timer, j2534, UdsTypeOK, Places
    <2>4. QED
      BY <2>1, <2>2, <2>3 DEF IInv, TypeOK
  <1>27. CASE \E t \in Tasks : TouchAcked(t)
    <2>0. PICK t \in Tasks : TouchAcked(t)
      BY <1>27
    <2>1. DiagTypeOK'
      BY <2>0 DEF TouchAcked, AckReturns, Acknowledged, diag, poller, job, DiagTypeOK
    <2>3. AckInv'
      BY <2>0
         DEF TouchAcked, AckReturns, Acknowledged, diag, poller, job, AckInv, AckMeansPollerOff,
             PollerOnBus
    <2>2. UdsTypeOK'
      BY <2>0 DEF TouchAcked, AckReturns, Goto, uds, timer, j2534, UdsTypeOK, Places
    <2>4. QED
      BY <2>1, <2>2, <2>3 DEF IInv, TypeOK
  <1>28. CASE \E t \in Tasks : TouchTimesOut(t)
    <2>0. PICK t \in Tasks : TouchTimesOut(t)
      BY <1>28
    <2>1. DiagTypeOK'
      BY <2>0 DEF TouchTimesOut, AckTimesOut, diag, poller, job, DiagTypeOK
    <2>3. AckInv'
      BY <2>0 DEF TouchTimesOut, AckTimesOut, diag, job, AckInv, AckMeansPollerOff
    <2>2. UdsTypeOK'
      BY <2>0 DEF TouchTimesOut, AckTimesOut, Goto, uds, timer, j2534, UdsTypeOK, Places
    <2>4. QED
      BY <2>1, <2>2, <2>3 DEF IInv, TypeOK
  <1>29. CASE \E t \in Tasks : TouchStop(t)
    <2>0. PICK t \in Tasks : TouchStop(t)
      BY <1>29
    <2>1. DiagTypeOK'
      BY <2>0 DEF TouchStop, diag, poller, job, DiagTypeOK
    <2>3. AckInv'
      BY <2>0 DEF TouchStop, diag, poller, job, AckInv, AckMeansPollerOff, PollerOnBus
    <2>2. UdsTypeOK'
      BY <2>0 DEF TouchStop, Goto, uds, j2534, UdsTypeOK, Places
    <2>4. QED
      BY <2>1, <2>2, <2>3 DEF IInv, TypeOK
  <1>30. CASE \E t \in Tasks : TouchStart(t)
    <2>0. PICK t \in Tasks : TouchStart(t)
      BY <1>30
    <2>1. DiagTypeOK'
      BY <2>0 DEF TouchStart, diag, poller, job, DiagTypeOK
    <2>3. AckInv'
      BY <2>0 DEF TouchStart, diag, poller, job, AckInv, AckMeansPollerOff, PollerOnBus
    <2>2. UdsTypeOK'
      BY <2>0 DEF TouchStart, Goto, uds, j2534, UdsTypeOK, Places
    <2>4. QED
      BY <2>1, <2>2, <2>3 DEF IInv, TypeOK
  <1>31. CASE \E t \in Tasks : SwitchOn(t)
    <2>0. PICK t \in Tasks : SwitchOn(t)
      BY <1>31
    <2>1. DiagTypeOK'
      BY <2>0 DEF SwitchOn, diag, poller, job, DiagTypeOK
    <2>3. AckInv'
      BY <2>0 DEF SwitchOn, diag, poller, job, AckInv, AckMeansPollerOff, PollerOnBus
    <2>2. UdsTypeOK'
      BY <2>0 DEF SwitchOn, Goto, uds, timer, j2534, UdsTypeOK, Places
    <2>4. QED
      BY <2>1, <2>2, <2>3 DEF IInv, TypeOK
  <1>32. CASE \E t \in Tasks : SwitchOffStop(t)
    <2>0. PICK t \in Tasks : SwitchOffStop(t)
      BY <1>32
    <2>1. DiagTypeOK'
      BY <2>0 DEF SwitchOffStop, diag, poller, job, DiagTypeOK
    <2>3. AckInv'
      BY <2>0 DEF SwitchOffStop, diag, poller, job, AckInv, AckMeansPollerOff, PollerOnBus
    <2>2. UdsTypeOK'
      BY <2>0 DEF SwitchOffStop, Goto, uds, j2534, UdsTypeOK, Places
    <2>4. QED
      BY <2>1, <2>2, <2>3 DEF IInv, TypeOK
  <1>33. CASE \E t \in Tasks : SwitchOffCheck(t)
    <2>0. PICK t \in Tasks : SwitchOffCheck(t)
      BY <1>33
    <2>1. DiagTypeOK'
      BY <2>0 DEF SwitchOffCheck, diag, poller, job, DiagTypeOK
    <2>3. AckInv'
      BY <2>0 DEF SwitchOffCheck, diag, poller, job, AckInv, AckMeansPollerOff, PollerOnBus
    <2>2. UdsTypeOK'
      BY ZenonT(30), <2>0 DEF SwitchOffCheck, Goto, diag, poller, timer, j2534, UdsTypeOK, Places
    <2>4. QED
      BY <2>1, <2>2, <2>3 DEF IInv, TypeOK
  <1>34. CASE \E t \in Tasks : SwitchOffRelease(t)
    <2>0. PICK t \in Tasks : SwitchOffRelease(t)
      BY <1>34
    <2>1. DiagTypeOK'
      BY <2>0, SetType DEF SwitchOffRelease, obd_gate_diag_hold, poller, job, DiagTypeOK, Owners
    <2>3. AckInv'
      BY <2>0
         DEF SwitchOffRelease, obd_gate_diag_hold, og_diag_set, poller, job, AckInv, AckMeansPollerOff,
             PollerOnBus
    <2>2. UdsTypeOK'
      BY <2>0 DEF SwitchOffRelease, Goto, uds, timer, j2534, UdsTypeOK, Places
    <2>4. QED
      BY <2>1, <2>2, <2>3 DEF IInv, TypeOK
  <1>35. CASE \E t \in Tasks : SessionHolds(t)
    <2>0. PICK t \in Tasks : SessionHolds(t)
      BY <1>35
    <2>1. DiagTypeOK'
      <3>1. CASE j_exclusive
        <4>1. og_diag_set("j2534", TRUE) /\ quiet' = quiet /\ poller_seen' = poller_seen
          BY <2>0, <3>1 DEF SessionHolds, obd_gate_diag_hold
        <4>2. /\ holders' \subseteq Owners /\ acked' \in BOOLEAN
              /\ Cardinality(holders') <= OG_DIAG_MAX_HOLDERS
          BY <4>1, SetType DEF Owners
        <4>3. QED
          BY <2>0, <4>1, <4>2 DEF SessionHolds, poller, job, DiagTypeOK
      <3>2. CASE ~ j_exclusive
        BY <2>0, <3>2 DEF SessionHolds, diag, poller, job, DiagTypeOK
      <3>3. QED
        BY <3>1, <3>2
    <2>3. AckInv'
      BY <2>0
         DEF SessionHolds, obd_gate_diag_hold, og_diag_set, diag, poller, job, AckInv,
             AckMeansPollerOff, PollerOnBus
    <2>a. pc' \in [Tasks -> Places]
      <3>1. CASE j_exclusive
        BY <2>0, <3>1 DEF SessionHolds, Goto, UdsTypeOK, Places
      <3>2. CASE ~ j_exclusive
        BY <2>0, <3>2 DEF SessionHolds, Goto, UdsTypeOK, Places
      <3>3. QED
        BY <3>1, <3>2
    <2>2. UdsTypeOK'
      BY <2>0, <2>a DEF SessionHolds, uds, timer, j2534, UdsTypeOK
    <2>4. QED
      BY <2>1, <2>2, <2>3 DEF IInv, TypeOK
  <1>36. CASE \E t \in Tasks : SessionAcked(t)
    <2>0. PICK t \in Tasks : SessionAcked(t)
      BY <1>36
    <2>1. DiagTypeOK'
      BY <2>0 DEF SessionAcked, AckReturns, Acknowledged, diag, poller, job, DiagTypeOK
    <2>3. AckInv'
      BY <2>0
         DEF SessionAcked, AckReturns, Acknowledged, diag, poller, job, AckInv, AckMeansPollerOff,
             PollerOnBus
    <2>2. UdsTypeOK'
      BY <2>0 DEF SessionAcked, AckReturns, Goto, uds, timer, j2534, UdsTypeOK, Places
    <2>4. QED
      BY <2>1, <2>2, <2>3 DEF IInv, TypeOK
  <1>37. CASE \E t \in Tasks : SessionTimesOut(t)
    <2>0. PICK t \in Tasks : SessionTimesOut(t)
      BY <1>37
    <2>1. DiagTypeOK'
      BY <2>0 DEF SessionTimesOut, AckTimesOut, diag, poller, job, DiagTypeOK
    <2>3. AckInv'
      BY <2>0 DEF SessionTimesOut, AckTimesOut, diag, job, AckInv, AckMeansPollerOff
    <2>2. UdsTypeOK'
      BY <2>0 DEF SessionTimesOut, AckTimesOut, Goto, uds, timer, j2534, UdsTypeOK, Places
    <2>4. QED
      BY <2>1, <2>2, <2>3 DEF IInv, TypeOK
  <1>38. CASE \E t \in Tasks : SessionReleases(t)
    <2>0. PICK t \in Tasks : SessionReleases(t)
      BY <1>38
    <2>1. DiagTypeOK'
      BY <2>0, SetType DEF SessionReleases, obd_gate_diag_hold, poller, job, DiagTypeOK, Owners
    <2>3. AckInv'
      BY <2>0
         DEF SessionReleases, obd_gate_diag_hold, og_diag_set, poller, job, AckInv, AckMeansPollerOff,
             PollerOnBus
    <2>2. UdsTypeOK'
      BY <2>0 DEF SessionReleases, Goto, uds, timer, j2534, UdsTypeOK, Places
    <2>4. QED
      BY <2>1, <2>2, <2>3 DEF IInv, TypeOK
  <1>39. CASE \E t \in Tasks : SwitchEvaluates(t)
    <2>0. PICK t \in Tasks : SwitchEvaluates(t)
      BY <1>39
    <2>1. DiagTypeOK'
      BY <2>0 DEF SwitchEvaluates, diag, poller, job, DiagTypeOK
    <2>3. AckInv'
      BY <2>0 DEF SwitchEvaluates, diag, poller, job, AckInv, AckMeansPollerOff, PollerOnBus
    <2>2. UdsTypeOK'
      BY <2>0 DEF SwitchEvaluates, Goto, uds, timer, UdsTypeOK, Places
    <2>4. QED
      BY <2>1, <2>2, <2>3 DEF IInv, TypeOK
  <1>40. CASE \E t \in Tasks : SwitchSets(t)
    <2>0. PICK t \in Tasks : SwitchSets(t)
      BY <1>40
    <2>a. "j2534" \in Owners /\ j_hold \in BOOLEAN /\ og_diag_set("j2534", j_hold)
      BY <2>0 DEF SwitchSets, obd_gate_diag_hold, Owners, UdsTypeOK
    <2>b. holders' \subseteq Owners /\ acked' \in BOOLEAN /\ Cardinality(holders') <= OG_DIAG_MAX_HOLDERS
      BY <2>a, SetType
    <2>1. DiagTypeOK'
      BY <2>0, <2>b DEF SwitchSets, obd_gate_diag_hold, poller, job, DiagTypeOK
    <2>3. AckInv'
      BY <2>0
         DEF SwitchSets, obd_gate_diag_hold, og_diag_set, poller, job, AckInv, AckMeansPollerOff,
             PollerOnBus
    <2>2. UdsTypeOK'
      BY <2>0 DEF SwitchSets, Goto, uds, timer, j2534, UdsTypeOK, Places
    <2>4. QED
      BY <2>1, <2>2, <2>3 DEF IInv, TypeOK
  <1>41. CASE \E t \in Tasks : ScriptAcked(t)
    <2>0. PICK t \in Tasks : ScriptAcked(t)
      BY <1>41
    <2>1. DiagTypeOK'
      BY <2>0 DEF ScriptAcked, AckReturns, Acknowledged, diag, poller, job, DiagTypeOK
    <2>3. AckInv'
      BY <2>0
         DEF ScriptAcked, AckReturns, Acknowledged, diag, poller, job, AckInv, AckMeansPollerOff,
             PollerOnBus
    <2>2. UdsTypeOK'
      BY <2>0 DEF ScriptAcked, AckReturns, Goto, uds, timer, j2534, UdsTypeOK, Places
    <2>4. QED
      BY <2>1, <2>2, <2>3 DEF IInv, TypeOK
  <1>42. CASE \E t \in Tasks : ScriptTimesOut(t)
    <2>0. PICK t \in Tasks : ScriptTimesOut(t)
      BY <1>42
    <2>1. DiagTypeOK'
      BY <2>0 DEF ScriptTimesOut, AckTimesOut, diag, poller, job, DiagTypeOK
    <2>3. AckInv'
      BY <2>0 DEF ScriptTimesOut, AckTimesOut, diag, job, AckInv, AckMeansPollerOff
    <2>2. UdsTypeOK'
      BY <2>0 DEF ScriptTimesOut, AckTimesOut, Goto, uds, timer, j2534, UdsTypeOK, Places
    <2>4. QED
      BY <2>1, <2>2, <2>3 DEF IInv, TypeOK
  <1>43. CASE \E t \in Tasks : se_bus_hold_release(t)
    <2>0. PICK t \in Tasks : se_bus_hold_release(t)
      BY <1>43
    <2>1. DiagTypeOK'
      BY <2>0, SetType DEF se_bus_hold_release, obd_gate_diag_hold, poller, job, DiagTypeOK, Owners
    <2>3. AckInv'
      BY <2>0
         DEF se_bus_hold_release, obd_gate_diag_hold, og_diag_set, poller, job, AckInv,
             AckMeansPollerOff, PollerOnBus
    <2>2. UdsTypeOK'
      BY <2>0 DEF se_bus_hold_release, Goto, uds, timer, j2534, UdsTypeOK, Places
    <2>4. QED
      BY <2>1, <2>2, <2>3 DEF IInv, TypeOK
  <1>44. CASE \E t \in Tasks, on \in BOOLEAN : uds_manager_set_exclusive(t, on)
    <2>0. PICK t \in Tasks, on \in BOOLEAN : uds_manager_set_exclusive(t, on)
      BY <1>44
    <2>1. DiagTypeOK'
      BY <2>0 DEF uds_manager_set_exclusive, diag, poller, job, DiagTypeOK
    <2>3. AckInv'
      BY <2>0 DEF uds_manager_set_exclusive, diag, poller, job, AckInv, AckMeansPollerOff, PollerOnBus
    <2>2. UdsTypeOK'
      BY <2>0 DEF uds_manager_set_exclusive, Goto, timer, j2534, UdsTypeOK, Places
    <2>4. QED
      BY <2>1, <2>2, <2>3 DEF IInv, TypeOK
  <1>45. CASE \E t \in Tasks, on \in BOOLEAN : j2534_server_set_exclusive(t, on)
    <2>0. PICK t \in Tasks, on \in BOOLEAN : j2534_server_set_exclusive(t, on)
      BY <1>45
    <2>1. DiagTypeOK'
      BY <2>0 DEF j2534_server_set_exclusive, diag, poller, job, DiagTypeOK
    <2>3. AckInv'
      BY <2>0 DEF j2534_server_set_exclusive, diag, poller, job, AckInv, AckMeansPollerOff, PollerOnBus
    <2>2. UdsTypeOK'
      BY <2>0 DEF j2534_server_set_exclusive, Goto, uds, timer, UdsTypeOK, Places
    <2>4. QED
      BY <2>1, <2>2, <2>3 DEF IInv, TypeOK
  <1>46. CASE PollerStartsScan
    <2>1. DiagTypeOK'
      BY <1>46 DEF PollerStartsScan, diag, DiagTypeOK
    <2>2. quiet = {}
      BY <1>46 DEF PollerStartsScan, AckInv, AckMeansPollerOff
    <2>3. ~ late'
      BY <1>46, <2>2 DEF PollerStartsScan
    <2>4. AckInv'
      BY <1>46, <2>3 DEF PollerStartsScan, diag, AckInv, AckMeansPollerOff, PollerOnBus
    <2>5. UdsTypeOK'
      BY <1>46 DEF PollerStartsScan, uds, timer, j2534, UdsTypeOK
    <2>6. QED
      BY <2>1, <2>4, <2>5 DEF IInv, TypeOK
  <1>47. CASE JobStep
    <2> USE <1>47 DEF JobStep, ap_core_job_acquire, JobPauses, JobScans, JobResumes, ap_core_job_release
    <2>1. DiagTypeOK'
      BY DEF diag, poller, DiagTypeOK
    <2>2. AckInv'
      BY DEF diag, poller, AckInv, AckMeansPollerOff, PollerOnBus
    <2>3. UdsTypeOK'
      BY DEF uds, timer, j2534, UdsTypeOK
    <2>4. QED
      BY <2>1, <2>2, <2>3 DEF IInv, TypeOK
  <1>48. CASE UNCHANGED vars
    BY <1>48 DEF vars, IInv, TypeOK, DiagTypeOK, UdsTypeOK, job, AckInv, AckMeansPollerOff, PollerOnBus
  <1>49. QED
    BY <1>1, <1>2, <1>3, <1>4, <1>5, <1>6, <1>7, <1>8, <1>9, <1>10, <1>11, <1>12, <1>13, <1>14, <1>15, <1>16, <1>17, <1>18, <1>19, <1>20, <1>21, <1>22, <1>23, <1>24, <1>25, <1>26, <1>27, <1>28, <1>29, <1>30, <1>31, <1>32, <1>33, <1>34, <1>35, <1>36, <1>37, <1>38, <1>39, <1>40, <1>41, <1>42, <1>43, <1>44, <1>45, <1>46, <1>47, <1>48
       DEF Next, PollerStep, TimerStep, Begin, Proceed

LEMMA InvHolds == Spec => []IInv
BY InitInv, StepInv, PTL DEF Spec

\* Type correctness of the hold, the poller and the tools' shared flags.
THEOREM TypeCorrect == Spec => []TypeOK
  <1>1. IInv => TypeOK
    BY DEF IInv
  <1>2. QED
    BY InvHolds, <1>1, PTL

\* For any number of tools, an acknowledgement that is up means that poller_task is
\* paused and off the bus with its rows (obd_gate_diag_ack).  It does not mean that a
\* DTC scan which began before the hold is off the bus.
THEOREM AckIsHonest == Spec => []AckMeansPollerOff
  <1>1. IInv => AckMeansPollerOff
    BY DEF IInv, AckInv
  <1>2. QED
    BY InvHolds, <1>1, PTL

\* For any number of tools and any limit on the holders, from the acknowledgement a
\* tool waited for until its own release poller_task polls no row and starts no DTC
\* scan, whatever the other tools hold and release (og_diag_set).  Scans that run
\* already and jobs that the web or a rule asks for are not covered.
THEOREM PollerKeptOff == Spec => []PollerStaysOff
  <1>1. IInv => PollerStaysOff
    BY DEF IInv, AckInv, AckMeansPollerOff, PollerStaysOff
  <1>2. QED
    BY InvHolds, <1>1, PTL
============================================================================
