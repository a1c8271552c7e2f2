--------------------------- MODULE ObdGateProofs ---------------------------
(***************************************************************************)
(* Proofs about ObdGate, for any set of tasks and any times.               *)
(*                                                                         *)
(* Serialized alone is not inductive: that two tasks do not both hold what *)
(* they were granted follows from the single `owner` field only together   *)
(* with HeldOwns, which says that a task that still holds is that owner    *)
(* and its hold has not run out.  ReservedTurn is inductive with the types.*)
(***************************************************************************)
EXTENDS ObdGate, TLAPS

\* a hold nobody ended is the gate's current one, and time is left of it
HeldOwns ==
    \A t \in Tasks : hold[t] = "held" => owner = OwnerOf(t) /\ deadline > 0

IInv == TypeOK /\ HeldOwns /\ ReservedTurn

\* Every task passes an owner, and NULL is none.
LEMMA OwnerType ==
    /\ \A t \in Tasks : OwnerOf(t) \in Owners
    /\ Owners = Engines \cup {Chip}
    /\ NULL \notin Owners
    /\ NULL \notin Tasks
    /\ Tasks = Engines \cup Senders \cup Requesters
BY GateAssumption DEF OwnerOf, Owners, Tasks, ChipTasks

\* Giving a command up leaves the number of prompts the chip owes as it was.
LEMMA AbandonedLemma ==
    ASSUME PendingTypeOK, NEW t
    PROVE  /\ Abandoned(t) \in Seq(ChipTasks \cup {Chip, NULL})
           /\ Len(Abandoned(t)) = Len(pending)
BY DEF PendingTypeOK, Abandoned

\* The gate starts free and nobody holds it.
LEMMA InitInv == Init => IInv
  <1> SUFFICES ASSUME Init PROVE IInv
    OBVIOUS
  <1>0. 0 \in 0 .. OBD_GATE_HOLD_MS /\ 0 \in 0 .. OG_RESERVE_MS
    BY GateAssumption
  <1>1. CoreTypeOK
    BY <1>0 DEF Init, CoreTypeOK
  <1>2. TaskTypeOK
    BY GateAssumption DEF Init, TaskTypeOK, Places, Fates
  <1>3. PendingTypeOK
    BY GateAssumption DEF Init, PendingTypeOK
  <1>4. HeldOwns
    BY DEF Init, HeldOwns
  <1>5. ReservedTurn
    BY DEF Init, ReservedTurn, reservation_live
  <1>6. QED
    BY <1>1, <1>2, <1>3, <1>4, <1>5 DEF IInv, TypeOK

\* Every step of a task, of the RX task and of the clock keeps the invariant.
LEMMA StepInv == IInv /\ [Next]_vars => IInv'
  <1> SUFFICES ASSUME IInv, [Next]_vars PROVE IInv'
    OBVIOUS
  <1> USE GateAssumption
  <1>a. /\ TypeOK /\ CoreTypeOK /\ TaskTypeOK /\ PendingTypeOK
        /\ HeldOwns /\ ReservedTurn
    BY DEF IInv, TypeOK
  <1> USE <1>a
  <1>1. CASE \E on \in BOOLEAN : on_apply(on)
    <2>0. PICK on \in BOOLEAN : on_apply(on)
      BY <1>1
    <2>1. CoreTypeOK'
      BY <2>0 DEF on_apply, core, CoreTypeOK
    <2>2. TaskTypeOK'
      BY <2>0 DEF on_apply, core, TaskTypeOK, Places, Fates
    <2>3. PendingTypeOK'
      BY <2>0 DEF on_apply, core, PendingTypeOK
    <2>4. HeldOwns'
      BY <2>0 DEF on_apply, core, HeldOwns
    <2>5. ReservedTurn'
      BY <2>0 DEF on_apply, core, ReservedTurn, reservation_live
    <2>6. QED
      BY <2>1, <2>2, <2>3, <2>4, <2>5 DEF IInv, TypeOK
  <1>2. CASE \E t \in Tasks : Acquire(t)
    <2>0. PICK t \in Tasks : Acquire(t)
      BY <1>2
    <2>1. CoreTypeOK'
      BY <2>0, OwnerType DEF Acquire, NewWait, core, MayAsk, CoreTypeOK
    <2>2. TaskTypeOK'
      BY <2>0 DEF Acquire, NewWait, TaskTypeOK, Places
    <2>3. PendingTypeOK'
      BY <2>0, OwnerType DEF Acquire, NewWait, core, MayAsk, PendingTypeOK
    <2>4. HeldOwns'
      BY <2>0, OwnerType DEF Acquire, NewWait, core, MayAsk, HeldOwns
    <2>5. ReservedTurn'
      BY <2>0, OwnerType DEF Acquire, NewWait, core, MayAsk, ReservedTurn, reservation_live
    <2>6. QED
      BY <2>1, <2>2, <2>3, <2>4, <2>5 DEF IInv, TypeOK
  <1>3. CASE \E t \in Tasks : AcquireDisabled(t)
    <2>0. PICK t \in Tasks : AcquireDisabled(t)
      BY <1>3
    <2>1. CoreTypeOK'
      BY <2>0, OwnerType DEF AcquireDisabled, core, MayAsk, CoreTypeOK
    <2>2. TaskTypeOK'
      BY <2>0, OwnerType DEF AcquireDisabled, core, MayAsk, TaskTypeOK, Places, Fates
    <2>3. PendingTypeOK'
      BY <2>0, OwnerType DEF AcquireDisabled, core, MayAsk, PendingTypeOK
    <2>4. HeldOwns'
      BY <2>0, OwnerType DEF AcquireDisabled, core, MayAsk, HeldOwns
    <2>5. ReservedTurn'
      BY <2>0, OwnerType DEF AcquireDisabled, core, MayAsk, ReservedTurn, reservation_live
    <2>6. QED
      BY <2>1, <2>2, <2>3, <2>4, <2>5 DEF IInv, TypeOK
  <1>4. CASE \E t \in Tasks : TryRefused(t)
    <2>0. PICK t \in Tasks : TryRefused(t)
      BY <1>4
    <2>1. CoreTypeOK'
      BY <2>0, OwnerType DEF TryRefused, og_core_try_blocked, og_core_try_reserved, CoreTypeOK
    <2>2. TaskTypeOK'
      BY <2>0 DEF TryRefused, TaskTypeOK, Places
    <2>3. PendingTypeOK'
      BY <2>0 DEF TryRefused, PendingTypeOK
    <2>4. HeldOwns'
      BY <2>0
         DEF TryRefused, og_core_try_blocked, og_core_try_reserved, blocked,
             reserved_for_other, HeldOwns
    <2>5. ReservedTurn'
      <3>1. passed' = [passed EXCEPT ![OwnerOf(t)] = @ /\ ~ Registers(OwnerOf(t))]
        BY <2>0 DEF TryRefused
      <3>2. SUFFICES ASSUME NEW o \in Owners, waiter' = o, waiter_deadline' > 0
                     PROVE  ~ passed'[o]
        BY DEF ReservedTurn, reservation_live
      <3>3. CASE og_core_try_blocked(OwnerOf(t)) /\ Registers(OwnerOf(t))
        BY <3>1, <3>2, <3>3, OwnerType DEF og_core_try_blocked, Registers, TaskTypeOK, ReservedTurn
      <3>4. CASE ~ (og_core_try_blocked(OwnerOf(t)) /\ Registers(OwnerOf(t)))
        <4>1. waiter = o /\ reservation_live
          BY <2>0, <3>2, <3>4
             DEF TryRefused, og_core_try_blocked, og_core_try_reserved, Registers,
                 reserved_for_other
        <4>2. ~ passed[o]
          BY <4>1 DEF ReservedTurn
        <4>3. QED
          BY <3>1, <4>2, OwnerType DEF TaskTypeOK
      <3>5. QED
        BY <3>3, <3>4
    <2>6. QED
      BY <2>1, <2>2, <2>3, <2>4, <2>5 DEF IInv, TypeOK
  <1>5. CASE \E t \in Tasks : TryGranted(t)
    <2>0. PICK t \in Tasks : TryGranted(t)
      BY <1>5
    <2>1. CoreTypeOK'
      BY <2>0, OwnerType DEF TryGranted, og_core_try_granted, take, CoreTypeOK
    <2>2. TaskTypeOK'
      BY <2>0 DEF TryGranted, NewWait, Overtake, TaskTypeOK, Places, Fates
    <2>3. PendingTypeOK'
      BY <2>0 DEF TryGranted, PendingTypeOK
    <2>4. HeldOwns'
      BY <2>0, OwnerType DEF TryGranted, og_core_try_granted, take, blocked, HeldOwns
    <2>5. ReservedTurn'
      BY <2>0
         DEF TryGranted, og_core_try_granted, take, reserved_for_other, reservation_live,
             Overtake, ReservedTurn
    <2>6. QED
      BY <2>1, <2>2, <2>3, <2>4, <2>5 DEF IInv, TypeOK
  <1>6. CASE \E t \in Tasks : WaitMore(t)
    <2>0. PICK t \in Tasks : WaitMore(t)
      BY <1>6
    <2>1. CoreTypeOK'
      BY <2>0, OwnerType DEF WaitMore, core, CoreTypeOK
    <2>2. TaskTypeOK'
      BY <2>0, OwnerType DEF WaitMore, core, TaskTypeOK, Places, Fates
    <2>3. PendingTypeOK'
      BY <2>0, OwnerType DEF WaitMore, core, PendingTypeOK
    <2>4. HeldOwns'
      BY <2>0, OwnerType DEF WaitMore, core, HeldOwns
    <2>5. ReservedTurn'
      BY <2>0, OwnerType DEF WaitMore, core, ReservedTurn, reservation_live
    <2>6. QED
      BY <2>1, <2>2, <2>3, <2>4, <2>5 DEF IInv, TypeOK
  <1>7. CASE \E t \in Tasks : WaitOver(t)
    <2>0. PICK t \in Tasks : WaitOver(t)
      BY <1>7
    <2>1. CoreTypeOK'
      BY <2>0, OwnerType DEF WaitOver, core, CoreTypeOK
    <2>2. TaskTypeOK'
      BY <2>0, OwnerType DEF WaitOver, core, TaskTypeOK, Places, Fates
    <2>3. PendingTypeOK'
      BY <2>0, OwnerType DEF WaitOver, core, PendingTypeOK
    <2>4. HeldOwns'
      BY <2>0, OwnerType DEF WaitOver, core, HeldOwns
    <2>5. ReservedTurn'
      BY <2>0, OwnerType DEF WaitOver, core, ReservedTurn, reservation_live
    <2>6. QED
      BY <2>1, <2>2, <2>3, <2>4, <2>5 DEF IInv, TypeOK
  <1>8. CASE \E t \in Tasks : Poll(t)
    <2>0. PICK t \in Tasks : Poll(t)
      BY <1>8
    <2>1. CoreTypeOK'
      BY <2>0, OwnerType DEF Poll, core, CoreTypeOK
    <2>2. TaskTypeOK'
      BY <2>0, OwnerType DEF Poll, core, TaskTypeOK, Places, Fates
    <2>3. PendingTypeOK'
      BY <2>0, OwnerType DEF Poll, core, PendingTypeOK
    <2>4. HeldOwns'
      BY <2>0, OwnerType DEF Poll, core, HeldOwns
    <2>5. ReservedTurn'
      BY <2>0, OwnerType DEF Poll, core, ReservedTurn, reservation_live
    <2>6. QED
      BY <2>1, <2>2, <2>3, <2>4, <2>5 DEF IInv, TypeOK
  <1>9. CASE \E t \in Tasks : Steal(t)
    <2>0. PICK t \in Tasks : Steal(t)
      BY <1>9
    <2>1. CoreTypeOK'
      BY <2>0, OwnerType DEF Steal, og_core_force, take, NewWait, CoreTypeOK
    <2>2. TaskTypeOK'
      BY <2>0, OwnerType DEF Steal, NewWait, TaskTypeOK, Places, Fates
    <2>3. PendingTypeOK'
      BY <2>0, OwnerType DEF Steal, og_core_force, take, NewWait, PendingTypeOK
    <2>4. HeldOwns'
      BY <2>0, OwnerType DEF Steal, og_core_force, take, NewWait, HeldOwns
    <2>5. ReservedTurn'
      BY <2>0, OwnerType DEF Steal, og_core_force, take, NewWait, ReservedTurn, reservation_live
    <2>6. QED
      BY <2>1, <2>2, <2>3, <2>4, <2>5 DEF IInv, TypeOK
  <1>10. CASE \E t \in Tasks : Write(t)
    <2>0. PICK t \in Tasks : Write(t)
      BY <1>10
    <2>1. CoreTypeOK'
      BY <2>0, OwnerType DEF Write, core, CoreTypeOK
    <2>2. TaskTypeOK'
      BY <2>0, OwnerType DEF Write, core, TaskTypeOK, Places, Fates
    <2>3. PendingTypeOK'
      BY <2>0, GateAssumption DEF Write, PendingTypeOK
    <2>4. HeldOwns'
      BY <2>0, OwnerType DEF Write, core, HeldOwns
    <2>5. ReservedTurn'
      BY <2>0, OwnerType DEF Write, core, ReservedTurn, reservation_live
    <2>6. QED
      BY <2>1, <2>2, <2>3, <2>4, <2>5 DEF IInv, TypeOK
  <1>11. CASE \E t \in Tasks : EngineDone(t)
    <2>0. PICK t \in Tasks : EngineDone(t)
      BY <1>11
    <2>1. CoreTypeOK'
      BY <2>0 DEF EngineDone, Release, og_core_release, core, CoreTypeOK
    <2>2. TaskTypeOK'
      BY <2>0 DEF EngineDone, Ended, hold_released, TaskTypeOK, Places, Fates
    <2>3. PendingTypeOK'
      BY <2>0 DEF EngineDone, PendingTypeOK
    <2>4. HeldOwns'
      BY <2>0
         DEF EngineDone, Release, Ended, og_core_release, core, hold_released, HeldOwns,
             OwnerOf
    <2>5. ReservedTurn'
      BY <2>0 DEF EngineDone, Release, og_core_release, core, ReservedTurn, reservation_live
    <2>6. QED
      BY <2>1, <2>2, <2>3, <2>4, <2>5 DEF IInv, TypeOK
  <1>12. CASE \E t \in Tasks : RequestDone(t)
    <2>0. PICK t \in Tasks : RequestDone(t)
      BY <1>12
    <2>1. CoreTypeOK'
      BY <2>0 DEF RequestDone, Release, og_core_release, core, CoreTypeOK
    <2>2. TaskTypeOK'
      BY <2>0 DEF RequestDone, Ended, hold_released, TaskTypeOK, Places, Fates
    <2>3. PendingTypeOK'
      BY <2>0 DEF RequestDone, PendingTypeOK
    <2>4. HeldOwns'
      BY <2>0
         DEF RequestDone, Release, Ended, og_core_release, core, hold_released, HeldOwns,
             OwnerOf, ChipTasks
    <2>5. ReservedTurn'
      BY <2>0 DEF RequestDone, Release, og_core_release, core, ReservedTurn, reservation_live
    <2>6. QED
      BY <2>1, <2>2, <2>3, <2>4, <2>5 DEF IInv, TypeOK
  <1>13. CASE \E t \in Tasks : RequestTimeout(t)
    <2>0. PICK t \in Tasks : RequestTimeout(t)
      BY <1>13
    <2>1. CoreTypeOK'
      BY <2>0 DEF RequestTimeout, Release, og_core_release, core, CoreTypeOK
    <2>2. TaskTypeOK'
      BY <2>0 DEF RequestTimeout, Ended, hold_released, TaskTypeOK, Places, Fates
    <2>b. Abandoned(t) \in Seq(ChipTasks \cup {Chip, NULL}) /\ Len(Abandoned(t)) = Len(pending)
      BY AbandonedLemma
    <2>3. PendingTypeOK'
      BY <2>0, <2>b DEF RequestTimeout, PendingTypeOK
    <2>4. HeldOwns'
      BY <2>0
         DEF RequestTimeout, Release, Ended, og_core_release, core, hold_released, HeldOwns,
             OwnerOf, ChipTasks
    <2>5. ReservedTurn'
      BY <2>0 DEF RequestTimeout, Release, og_core_release, core, ReservedTurn, reservation_live
    <2>6. QED
      BY <2>1, <2>2, <2>3, <2>4, <2>5 DEF IInv, TypeOK
  <1>14. CASE \E t \in Tasks : SenderGivesUp(t)
    <2>0. PICK t \in Tasks : SenderGivesUp(t)
      BY <1>14
    <2>1. CoreTypeOK'
      BY <2>0, OwnerType DEF SenderGivesUp, core, Abandoned, CoreTypeOK
    <2>2. TaskTypeOK'
      BY <2>0, OwnerType DEF SenderGivesUp, core, Abandoned, TaskTypeOK, Places, Fates
    <2>b. Abandoned(t) \in Seq(ChipTasks \cup {Chip, NULL}) /\ Len(Abandoned(t)) = Len(pending)
      BY AbandonedLemma
    <2>3. PendingTypeOK'
      BY <2>0, <2>b DEF SenderGivesUp, core, PendingTypeOK
    <2>4. HeldOwns'
      BY <2>0, OwnerType DEF SenderGivesUp, core, Abandoned, HeldOwns
    <2>5. ReservedTurn'
      BY <2>0, OwnerType DEF SenderGivesUp, core, Abandoned, ReservedTurn, reservation_live
    <2>6. QED
      BY <2>1, <2>2, <2>3, <2>4, <2>5 DEF IInv, TypeOK
  <1>15. CASE \E t \in Tasks : WriteFails(t)
    <2>0. PICK t \in Tasks : WriteFails(t)
      BY <1>15
    <2>1. CoreTypeOK'
      BY <2>0 DEF WriteFails, Release, og_core_release, core, CoreTypeOK
    <2>2. TaskTypeOK'
      BY ZenonT(30), <2>0, OwnerType DEF WriteFails, Release, Ended, og_core_release, core, hold_released, TaskTypeOK, Places, Fates
    <2>3. PendingTypeOK'
      BY <2>0 DEF WriteFails, PendingTypeOK
    <2>4. HeldOwns'
      <3>1. CASE t \in Requesters /\ s_enabled
        BY <2>0, <3>1
           DEF WriteFails, Release, Ended, og_core_release, hold_released, HeldOwns, OwnerOf,
               ChipTasks, Tasks
      <3>2. CASE t \in Requesters /\ ~ s_enabled
        BY <2>0, <3>2 DEF WriteFails, Release, Ended, core, hold_released, HeldOwns
      <3>3. CASE t \notin Requesters
        BY <2>0, <3>3, OwnerType DEF WriteFails, core, HeldOwns, TaskTypeOK
      <3>4. QED
        BY <3>1, <3>2, <3>3
    <2>5. ReservedTurn'
      BY <2>0 DEF WriteFails, Release, og_core_release, core, ReservedTurn, reservation_live
    <2>6. QED
      BY <2>1, <2>2, <2>3, <2>4, <2>5 DEF IInv, TypeOK
  <1>16. CASE Prompt
    <2>0. Prompt
      BY <1>16
    <2>a. /\ Head(pending) \in ChipTasks \cup {Chip, NULL}
          /\ Tail(pending) \in Seq(ChipTasks \cup {Chip, NULL})
          /\ Len(Tail(pending)) = Len(pending) - 1 /\ Len(pending) <= MaxPending
          /\ Len(pending) \in Nat
      BY <2>0, GateAssumption DEF Prompt, IInv, TypeOK, PendingTypeOK
    <2>1. CoreTypeOK'
      BY <2>0, <2>a DEF Prompt, Release, og_core_release, core, CoreTypeOK
    <2>2. TaskTypeOK'
      BY ZenonT(30), <2>0, <2>a DEF Prompt, Shown, Release, Ended, og_core_release, core, hold_released, TaskTypeOK, Places, Fates
    <2>3. PendingTypeOK'
      BY <2>0, <2>a DEF Prompt, PendingTypeOK
    <2>4. HeldOwns'
      BY <2>0, <2>a
         DEF Prompt, Release, Ended, og_core_release, core, hold_released, HeldOwns, OwnerOf
    <2>5. ReservedTurn'
      BY <2>0, <2>a DEF Prompt, Release, og_core_release, core, ReservedTurn, reservation_live
    <2>6. QED
      BY <2>1, <2>2, <2>3, <2>4, <2>5 DEF IInv, TypeOK
  <1>17. CASE PromptArmed
    <2>0. PromptArmed
      BY <1>17
    <2>a. /\ Head(pending) \in ChipTasks \cup {Chip, NULL}
          /\ Tail(pending) \in Seq(ChipTasks \cup {Chip, NULL})
          /\ Len(Tail(pending)) = Len(pending) - 1 /\ Len(pending) <= MaxPending
          /\ Len(pending) \in Nat
      BY <2>0, GateAssumption DEF PromptArmed, IInv, TypeOK, PendingTypeOK
    <2>1. CoreTypeOK'
      BY <2>0, <2>a DEF PromptArmed, Shown, core, CoreTypeOK
    <2>2. TaskTypeOK'
      BY <2>0, <2>a DEF PromptArmed, Shown, core, TaskTypeOK, Places, Fates
    <2>3. PendingTypeOK'
      BY <2>0, <2>a DEF PromptArmed, Shown, core, PendingTypeOK
    <2>4. HeldOwns'
      BY <2>0, <2>a DEF PromptArmed, Shown, core, HeldOwns
    <2>5. ReservedTurn'
      BY <2>0, <2>a DEF PromptArmed, Shown, core, ReservedTurn, reservation_live
    <2>6. QED
      BY <2>1, <2>2, <2>3, <2>4, <2>5 DEF IInv, TypeOK
  <1>18. CASE PromptHidden
    <2>0. PromptHidden
      BY <1>18
    <2>a. /\ Head(pending) \in ChipTasks \cup {Chip, NULL}
          /\ Tail(pending) \in Seq(ChipTasks \cup {Chip, NULL})
          /\ Len(Tail(pending)) = Len(pending) - 1 /\ Len(pending) <= MaxPending
          /\ Len(pending) \in Nat
      BY <2>0, GateAssumption DEF PromptHidden, IInv, TypeOK, PendingTypeOK
    <2>1. CoreTypeOK'
      BY <2>0, <2>a DEF PromptHidden, Release, og_core_release, core, hold_released, CoreTypeOK
    <2>2. TaskTypeOK'
      BY <2>0, <2>a DEF PromptHidden, hold_released, TaskTypeOK, Fates
    <2>3. PendingTypeOK'
      BY <2>0, <2>a DEF PromptHidden, Release, og_core_release, core, hold_released, PendingTypeOK
    <2>4. HeldOwns'
      BY <2>0, <2>a DEF PromptHidden, Release, og_core_release, core, hold_released, HeldOwns
    <2>5. ReservedTurn'
      BY <2>0, <2>a
         DEF PromptHidden, Release, og_core_release, core, ReservedTurn, reservation_live
    <2>6. QED
      BY <2>1, <2>2, <2>3, <2>4, <2>5 DEF IInv, TypeOK
  <1>19. CASE InjectLapses
    <2>0. InjectLapses
      BY <1>19
    <2>1. CoreTypeOK'
      BY <2>0 DEF InjectLapses, Release, og_core_release, core, hold_released, CoreTypeOK
    <2>2. TaskTypeOK'
      BY <2>0 DEF InjectLapses, hold_released, TaskTypeOK, Fates
    <2>3. PendingTypeOK'
      BY <2>0 DEF InjectLapses, Release, og_core_release, core, hold_released, PendingTypeOK
    <2>4. HeldOwns'
      BY <2>0 DEF InjectLapses, Release, og_core_release, core, hold_released, HeldOwns
    <2>5. ReservedTurn'
      BY <2>0 DEF InjectLapses, Release, og_core_release, core, ReservedTurn, reservation_live
    <2>6. QED
      BY <2>1, <2>2, <2>3, <2>4, <2>5 DEF IInv, TypeOK
  <1>20. CASE Tick
    <2>0. Tick
      BY <1>20
    <2>1. CoreTypeOK'
      BY <2>0 DEF Tick, Advance, Less, CoreTypeOK
    <2>2. TaskTypeOK'
      BY <2>0 DEF Tick, Advance, Less, TaskTypeOK, Places, Fates
    <2>3. PendingTypeOK'
      BY <2>0 DEF Tick, Advance, Less, PendingTypeOK
    <2>4. HeldOwns'
      BY <2>0 DEF CoreTypeOK, TaskTypeOK, Tick, Advance, Less, HeldOwns
    <2>5. ReservedTurn'
      BY <2>0 DEF CoreTypeOK, Tick, Advance, Less, ReservedTurn, reservation_live
    <2>6. QED
      BY <2>1, <2>2, <2>3, <2>4, <2>5 DEF IInv, TypeOK
  <1>21. CASE UNCHANGED vars
    BY <1>21
       DEF vars, IInv, TypeOK, CoreTypeOK, TaskTypeOK, PendingTypeOK, HeldOwns, ReservedTurn,
           reservation_live
  <1>22. QED
    BY <1>1, <1>2, <1>3, <1>4, <1>5, <1>6, <1>7, <1>8, <1>9, <1>10, <1>11, <1>12, <1>13, <1>14, <1>15, <1>16, <1>17, <1>18, <1>19, <1>20, <1>21 DEF Next, AcquireStep

LEMMA InvHolds == Spec => []IInv
BY InitInv, StepInv, PTL DEF Spec

\* Type correctness of the gate, of the waiting tasks and of the chip's open
\* commands (og_core_t, obd_gate_acquire, obd_core_fanout).
THEOREM TypeCorrect == Spec => []TypeOK
  <1>1. IInv => TypeOK
    BY DEF IInv
  <1>2. QED
    BY InvHolds, <1>1, PTL

\* Conversations of two owners overlap only when one of the holds ran out, was
\* stolen or was given back: for any number of engines, senders and requesters
\* and any hold, wait and reservation times (og_core_try, og_core_force,
\* og_core_release).
THEOREM GateSerializes == Spec => []Serialized
  <1>1. IInv => Serialized
    BY DEF IInv, HeldOwns, Serialized
  <1>2. QED
    BY InvHolds, <1>1, PTL

\* The waiter is not passed over while its reservation lives (og_core_try).
THEOREM TurnKept == Spec => []ReservedTurn
  <1>1. IInv => ReservedTurn
    BY DEF IInv
  <1>2. QED
    BY InvHolds, <1>1, PTL
\* --- the next turn ---
\* a task whose owner token is its own
Alone(t) == \A u \in Tasks : OwnerOf(u) = OwnerOf(t) => u = t

\* og_core_try registers only a refused owner, and take() clears its registration
WaiterIsNotOwner == owner # NULL => waiter # owner

\* the chip's open command of a task is its only one, and the task is waiting for it
TalkInv ==
    /\ \A i \in 1 .. Len(pending) : pending[i] \in ChipTasks => pc[pending[i]] = "talk"
    /\ \A i, j \in 1 .. Len(pending) :
         pending[i] \in ChipTasks /\ pending[i] = pending[j] => i = j

\* a refused task with a token of its own is the waiter, and its reservation
\* lives past the poll it is waiting for
Booked(t) ==
    /\ waiter = OwnerOf(t) /\ waiter_deadline > 0
    /\ pc[t] \in {"check", "delay", "try", "force"}
    /\ pc[t] = "check" => waiter_deadline > OG_POLL_MS
    /\ pc[t] = "delay" => waiter_deadline > delay[t]

TurnInv == \A t \in Tasks : Alone(t) /\ refused[t] = "held" => Booked(t)

\* A step of a task that is not waiting for a prompt leaves the open commands
\* with the tasks that wait for them.
LEMMA TalkKept ==
    ASSUME TaskTypeOK, PendingTypeOK, TalkInv, NEW t \in Tasks, NEW p,
           pending' = pending, pc' = [pc EXCEPT ![t] = p],
           pc[t] # "talk" \/ t \in Engines
    PROVE  TalkInv'
  <1>1. \A u \in ChipTasks : pc[u] = "talk" => pc'[u] = "talk"
    BY GateAssumption DEF TaskTypeOK, Tasks, ChipTasks
  <1>2. QED
    BY <1>1 DEF TalkInv, PendingTypeOK

\* Taking the oldest command off the queue, its task may move on.
LEMMA TalkAnswered ==
    ASSUME TaskTypeOK, PendingTypeOK, TalkInv, pending # <<>>,
           \A u \in ChipTasks : u # Head(pending) => pc'[u] = pc[u],
           NEW q \in Seq(ChipTasks \cup {Chip, NULL}),
           q = <<>> \/ q = <<Chip>>,
           pending' = Tail(pending) \o q
    PROVE  TalkInv'
  <1>0. Len(pending) \in Nat \ {0} /\ pending \in Seq(ChipTasks \cup {Chip, NULL})
        /\ Head(pending) = pending[1] /\ Len(q) \in {0, 1} /\ Chip \notin ChipTasks
    BY GateAssumption DEF PendingTypeOK, ChipTasks, Tasks
  <1>1. /\ Len(pending') = Len(pending) - 1 + Len(q)
        /\ \A i \in 1 .. Len(pending) - 1 : pending'[i] = pending[i + 1]
        /\ \A i \in 1 .. Len(pending') : i > Len(pending) - 1 => pending'[i] = Chip
    BY <1>0
  <1>2. \A i \in 1 .. Len(pending') : pending'[i] \in ChipTasks =>
            i + 1 \in 1 .. Len(pending) /\ pending'[i] = pending[i + 1]
    BY <1>0, <1>1
  <1>3. \A i \in 1 .. Len(pending') : pending'[i] \in ChipTasks => pc'[pending'[i]] = "talk"
    <2> SUFFICES ASSUME NEW i \in 1 .. Len(pending'), pending'[i] \in ChipTasks
                 PROVE  pc'[pending'[i]] = "talk"
      OBVIOUS
    <2>1. i + 1 \in 1 .. Len(pending) /\ pending'[i] = pending[i + 1] /\ i + 1 # 1
      BY <1>2, <1>0
    <2>2. 1 \in 1 .. Len(pending)
      BY <1>0
    <2>3. pending[i + 1] # pending[1]
      BY <2>1, <2>2 DEF TalkInv
    <2>4. QED
      BY <2>1, <2>3, <1>0 DEF TalkInv
  <1>4. \A i, j \in 1 .. Len(pending') :
           pending'[i] \in ChipTasks /\ pending'[i] = pending'[j] => i = j
    <2> SUFFICES ASSUME NEW i \in 1 .. Len(pending'), NEW j \in 1 .. Len(pending'),
                        pending'[i] \in ChipTasks, pending'[i] = pending'[j]
                 PROVE  i = j
      OBVIOUS
    <2>1. /\ i + 1 \in 1 .. Len(pending) /\ pending'[i] = pending[i + 1]
          /\ j + 1 \in 1 .. Len(pending) /\ pending'[j] = pending[j + 1]
      BY <1>2
    <2>2. i + 1 = j + 1
      BY <2>1 DEF TalkInv
    <2>3. QED
      BY <2>2, <1>0, <1>1
  <1>5. QED
    BY <1>3, <1>4 DEF TalkInv

\* A task that gives its command up has none open.
LEMMA TalkAbandoned ==
    ASSUME TaskTypeOK, PendingTypeOK, TalkInv, NEW t \in ChipTasks, NEW p,
           pending' = Abandoned(t), pc' = [pc EXCEPT ![t] = p]
    PROVE  TalkInv'
  <1>0. Len(pending') = Len(pending) /\ Len(pending) \in Nat
    BY AbandonedLemma DEF PendingTypeOK
  <1>1. \A i \in 1 .. Len(pending) :
            pending'[i] \in ChipTasks => pending'[i] = pending[i] /\ pending[i] # t
    BY GateAssumption DEF Abandoned, PendingTypeOK, Tasks, ChipTasks
  <1>2. \A u \in ChipTasks : u # t => pc'[u] = pc[u]
    BY DEF TaskTypeOK, Tasks, ChipTasks
  <1>3. QED
    BY <1>0, <1>1, <1>2 DEF TalkInv

\* Every step keeps the open commands with the tasks that wait for them.
LEMMA TalkStep == IInv /\ TalkInv /\ [Next]_vars => TalkInv'
  <1> SUFFICES ASSUME IInv, TalkInv, [Next]_vars PROVE TalkInv'
    OBVIOUS
  <1>a. TaskTypeOK /\ PendingTypeOK
    BY DEF IInv, TypeOK
  <1>b. /\ Tasks = Engines \cup ChipTasks /\ Engines \cap ChipTasks = {}
        /\ Requesters \subseteq ChipTasks /\ Senders \subseteq ChipTasks
        /\ Senders \subseteq Tasks
    BY GateAssumption DEF Tasks, ChipTasks
  <1>1. CASE UNCHANGED <<pc, pending>>
    BY <1>1 DEF TalkInv
  <1>2. CASE \E t \in Tasks : Acquire(t)
    <2>0. PICK t \in Tasks : Acquire(t)
      BY <1>2
    <2>1. /\ pending' = pending
          /\ pc[t] # "talk" \/ t \in Engines
      BY <2>0, <1>b DEF Acquire, MayAsk
    <2>2. \E p : pc' = [pc EXCEPT ![t] = p]
      BY <2>0 DEF Acquire
    <2>3. QED
      BY <2>1, <2>2, <1>a, TalkKept
  <1>3. CASE \E t \in Tasks : AcquireDisabled(t)
    <2>0. PICK t \in Tasks : AcquireDisabled(t)
      BY <1>3
    <2>1. /\ pending' = pending
          /\ pc[t] # "talk" \/ t \in Engines
      BY <2>0, <1>b DEF AcquireDisabled, MayAsk
    <2>2. \E p : pc' = [pc EXCEPT ![t] = p]
      BY <2>0 DEF AcquireDisabled
    <2>3. QED
      BY <2>1, <2>2, <1>a, TalkKept
  <1>4. CASE \E t \in Tasks : TryRefused(t)
    <2>0. PICK t \in Tasks : TryRefused(t)
      BY <1>4
    <2>1. /\ pending' = pending
          /\ pc[t] # "talk" \/ t \in Engines
      BY <2>0, <1>b DEF TryRefused
    <2>2. \E p : pc' = [pc EXCEPT ![t] = p]
      BY <2>0 DEF TryRefused
    <2>3. QED
      BY <2>1, <2>2, <1>a, TalkKept
  <1>5. CASE \E t \in Tasks : TryGranted(t)
    <2>0. PICK t \in Tasks : TryGranted(t)
      BY <1>5
    <2>1. /\ pending' = pending
          /\ pc[t] # "talk" \/ t \in Engines
      BY <2>0, <1>b DEF TryGranted
    <2>2. \E p : pc' = [pc EXCEPT ![t] = p]
      BY <2>0 DEF TryGranted
    <2>3. QED
      BY <2>1, <2>2, <1>a, TalkKept
  <1>6. CASE \E t \in Tasks : WaitMore(t)
    <2>0. PICK t \in Tasks : WaitMore(t)
      BY <1>6
    <2>1. /\ pending' = pending
          /\ pc[t] # "talk" \/ t \in Engines
      BY <2>0, <1>b DEF WaitMore
    <2>2. \E p : pc' = [pc EXCEPT ![t] = p]
      BY <2>0 DEF WaitMore
    <2>3. QED
      BY <2>1, <2>2, <1>a, TalkKept
  <1>7. CASE \E t \in Tasks : WaitOver(t)
    <2>0. PICK t \in Tasks : WaitOver(t)
      BY <1>7
    <2>1. /\ pending' = pending
          /\ pc[t] # "talk" \/ t \in Engines
      BY <2>0, <1>b DEF WaitOver
    <2>2. \E p : pc' = [pc EXCEPT ![t] = p]
      BY <2>0 DEF WaitOver
    <2>3. QED
      BY <2>1, <2>2, <1>a, TalkKept
  <1>8. CASE \E t \in Tasks : Poll(t)
    <2>0. PICK t \in Tasks : Poll(t)
      BY <1>8
    <2>1. /\ pending' = pending
          /\ pc[t] # "talk" \/ t \in Engines
      BY <2>0, <1>b DEF Poll
    <2>2. \E p : pc' = [pc EXCEPT ![t] = p]
      BY <2>0 DEF Poll
    <2>3. QED
      BY <2>1, <2>2, <1>a, TalkKept
  <1>9. CASE \E t \in Tasks : Steal(t)
    <2>0. PICK t \in Tasks : Steal(t)
      BY <1>9
    <2>1. /\ pending' = pending
          /\ pc[t] # "talk" \/ t \in Engines
      BY <2>0, <1>b DEF Steal
    <2>2. \E p : pc' = [pc EXCEPT ![t] = p]
      BY <2>0 DEF Steal
    <2>3. QED
      BY <2>1, <2>2, <1>a, TalkKept
  <1>10. CASE \E t \in Tasks : EngineDone(t)
    <2>0. PICK t \in Tasks : EngineDone(t)
      BY <1>10
    <2>1. /\ pending' = pending
          /\ pc[t] # "talk" \/ t \in Engines
      BY <2>0, <1>b DEF EngineDone
    <2>2. \E p : pc' = [pc EXCEPT ![t] = p]
      BY <2>0 DEF EngineDone
    <2>3. QED
      BY <2>1, <2>2, <1>a, TalkKept
  <1>11. CASE \E t \in Tasks : RequestDone(t)
    <2>0. PICK t \in Tasks : RequestDone(t)
      BY <1>11
    <2>1. /\ pending' = pending
          /\ pc[t] # "talk" \/ t \in Engines
      BY <2>0, <1>b DEF RequestDone
    <2>2. \E p : pc' = [pc EXCEPT ![t] = p]
      BY <2>0 DEF RequestDone
    <2>3. QED
      BY <2>1, <2>2, <1>a, TalkKept
  <1>12. CASE \E t \in Tasks : WriteFails(t)
    <2>0. PICK t \in Tasks : WriteFails(t)
      BY <1>12
    <2>1. /\ pending' = pending
          /\ pc[t] # "talk" \/ t \in Engines
      BY <2>0, <1>b DEF WriteFails
    <2>2. \E p : pc' = [pc EXCEPT ![t] = p]
      BY <2>0 DEF WriteFails
    <2>3. QED
      BY <2>1, <2>2, <1>a, TalkKept
  <1>13. CASE \E t \in Tasks : Write(t)
    <2>0. PICK t \in Tasks : Write(t)
      BY <1>13
    <2>1. pc[t] = "write" /\ pc' = [pc EXCEPT ![t] = "talk"]
      BY <2>0 DEF Write
    <2>2. CASE t \notin ChipTasks
      <3>1. pending' = pending
        BY <2>0, <2>2 DEF Write
      <3>2. QED
        BY <3>1, <2>1, <1>a, TalkKept
    <2>3. CASE t \in ChipTasks
      <3>1. pending' = Append(pending, t) /\ pending \in Seq(ChipTasks \cup {Chip, NULL})
        BY <2>0, <2>3, <1>a DEF Write, PendingTypeOK
      <3>2. /\ Len(pending) \in Nat /\ Len(pending') = Len(pending) + 1
            /\ pending'[Len(pending) + 1] = t
            /\ \A i \in 1 .. Len(pending) : pending'[i] = pending[i]
        BY <3>1, <2>3
      <3>3. \A i \in 1 .. Len(pending) : pending[i] # t
        BY <2>1, <2>3 DEF TalkInv
      <3>4. pc'[t] = "talk" /\ \A u \in ChipTasks : u # t => pc'[u] = pc[u]
        BY <2>1, <1>a, <1>b DEF TaskTypeOK
      <3>5. \A i \in 1 .. Len(pending') : i = Len(pending) + 1 \/ i \in 1 .. Len(pending)
        BY <3>2
      <3>6. \A i \in 1 .. Len(pending') : pending'[i] \in ChipTasks => pc'[pending'[i]] = "talk"
        BY <3>2, <3>4, <3>5 DEF TalkInv
      <3>7. \A i, j \in 1 .. Len(pending') :
               pending'[i] \in ChipTasks /\ pending'[i] = pending'[j] => i = j
        BY <3>2, <3>3, <3>5 DEF TalkInv
      <3>8. QED
        BY <3>6, <3>7 DEF TalkInv
    <2>4. QED
      BY <2>2, <2>3
  <1>14. CASE \E t \in Tasks : RequestTimeout(t)
    <2>0. PICK t \in Tasks : RequestTimeout(t)
      BY <1>14
    <2>1. t \in ChipTasks /\ pending' = Abandoned(t) /\ pc' = [pc EXCEPT ![t] = "idle"]
      BY <2>0, <1>b DEF RequestTimeout
    <2>2. QED
      BY <2>1, <1>a, TalkAbandoned
  <1>15. CASE \E t \in Tasks : SenderGivesUp(t)
    <2>0. PICK t \in Tasks : SenderGivesUp(t)
      BY <1>15
    <2>1. t \in ChipTasks /\ pending' = Abandoned(t) /\ pc' = [pc EXCEPT ![t] = "idle"]
      BY <2>0, <1>b DEF SenderGivesUp
    <2>2. QED
      BY <2>1, <1>a, TalkAbandoned
  <1>16. CASE Prompt
    <2>0. pending # <<>>
      BY <1>16 DEF Prompt
    <2>1. \A u \in ChipTasks : u # Head(pending) => pc'[u] = pc[u]
      BY <1>16, <1>a, <1>b DEF Prompt, Shown, TaskTypeOK
    <2>2. pending \in Seq(ChipTasks \cup {Chip, NULL}) /\ <<>> \in Seq(ChipTasks \cup {Chip, NULL})
      BY <1>a DEF PendingTypeOK
    <2>3. pending' = Tail(pending) \o <<>>
      BY <1>16, <2>0, <2>2 DEF Prompt
    <2>4. QED
      BY <2>0, <2>1, <2>2, <2>3, <1>a, TalkAnswered
  <1>17. CASE PromptArmed
    <2>0. pending # <<>>
      BY <1>17 DEF PromptArmed
    <2>1. \A u \in ChipTasks : u # Head(pending) => pc'[u] = pc[u]
      BY <1>17, <1>a, <1>b DEF PromptArmed, Shown, TaskTypeOK
    <2>2. pending \in Seq(ChipTasks \cup {Chip, NULL}) /\ <<Chip>> \in Seq(ChipTasks \cup {Chip, NULL})
      BY <1>a DEF PendingTypeOK
    <2>3. pending' = Tail(pending) \o <<Chip>>
      BY <1>17, <2>0, <2>2 DEF PromptArmed
    <2>4. QED
      BY <2>0, <2>1, <2>2, <2>3, <1>a, TalkAnswered
  <1>18. CASE PromptHidden
    <2>0. pending # <<>>
      BY <1>18 DEF PromptHidden
    <2>1. \A u \in ChipTasks : u # Head(pending) => pc'[u] = pc[u]
      BY <1>18, <1>a, <1>b DEF PromptHidden, TaskTypeOK
    <2>2. pending \in Seq(ChipTasks \cup {Chip, NULL}) /\ <<>> \in Seq(ChipTasks \cup {Chip, NULL})
      BY <1>a DEF PendingTypeOK
    <2>3. pending' = Tail(pending) \o <<>>
      BY <1>18, <2>0, <2>2 DEF PromptHidden
    <2>4. QED
      BY <2>0, <2>1, <2>2, <2>3, <1>a, TalkAnswered
  <1>19. CASE (\E on \in BOOLEAN : on_apply(on)) \/ InjectLapses \/ Tick \/ UNCHANGED vars
    BY <1>19, <1>1 DEF on_apply, InjectLapses, Tick, Advance, vars
  <1>20. QED
    BY <1>1, <1>2, <1>3, <1>4, <1>5, <1>6, <1>7, <1>8, <1>9, <1>10, <1>11, <1>12, <1>13, <1>14, <1>15, <1>16, <1>17, <1>18, <1>19 DEF Next, AcquireStep

\* A granted or forced owner is not the waiter any more, and only an owner
\* that does not hold the gate is registered.
LEMMA WaiterStep == IInv /\ WaiterIsNotOwner /\ [Next]_vars => WaiterIsNotOwner'
  <1> SUFFICES ASSUME IInv, WaiterIsNotOwner, [Next]_vars PROVE WaiterIsNotOwner'
    OBVIOUS
  <1>1. CASE UNCHANGED <<owner, waiter>> \/ (owner' = NULL /\ waiter' = waiter)
    BY <1>1 DEF WaiterIsNotOwner
  <1>2. CASE \E t \in Tasks : TryRefused(t)
    BY <1>2, OwnerType DEF WaiterIsNotOwner, TryRefused, og_core_try_blocked, og_core_try_reserved, blocked
  <1>3. CASE \E t \in Tasks : TryGranted(t) \/ Steal(t)
    BY <1>3, OwnerType DEF WaiterIsNotOwner, TryGranted, Steal, og_core_try_granted, og_core_force, take
  <1>4. CASE \E t \in Tasks : \/ Acquire(t) \/ AcquireDisabled(t) \/ WaitMore(t) \/ WaitOver(t)
                              \/ Poll(t) \/ Write(t) \/ SenderGivesUp(t)
    BY <1>1, <1>4
       DEF Acquire, AcquireDisabled, WaitMore, WaitOver, Poll, Write, SenderGivesUp, core
  <1>5. CASE \E t \in Tasks : WriteFails(t) \/ EngineDone(t) \/ RequestDone(t) \/ RequestTimeout(t)
    BY <1>1, <1>5
       DEF WriteFails, EngineDone, RequestDone, RequestTimeout, Release, og_core_release, core
  <1>6. CASE Prompt \/ PromptArmed \/ PromptHidden \/ InjectLapses
    BY <1>1, <1>6
       DEF Prompt, PromptArmed, PromptHidden, InjectLapses, Release, og_core_release, core
  <1>7. CASE (\E on \in BOOLEAN : on_apply(on)) \/ Tick \/ UNCHANGED vars
    BY <1>1, <1>7 DEF on_apply, Tick, Advance, core, vars
  <1>8. QED
    BY <1>2, <1>3, <1>4, <1>5, <1>6, <1>7 DEF Next, AcquireStep

\* Between two owners a refused task stays the waiter until it is granted the
\* gate or takes it: nobody else is ever registered, its reservation is renewed
\* on every poll, and a poll comes before the reservation runs out.
LEMMA TurnStep ==
    ASSUME Punctual, OG_POLL_MS < OG_RESERVE_MS, \A e, f \in Engines : e = f,
           IInv, TalkInv, WaiterIsNotOwner, TurnInv, [Next]_vars
    PROVE  TurnInv'
  <1>a. CoreTypeOK /\ TaskTypeOK /\ PendingTypeOK
    BY DEF IInv, TypeOK
  <1>b. \A o, p, q \in Owners : o # p => q \in {o, p}
    BY DEF Owners
  <1>c. SUFFICES ASSUME NEW t \in Tasks, Alone(t), refused'[t] = "held"
                 PROVE  Booked(t)'
    BY DEF TurnInv, Alone
  <1>d. \A u \in Tasks : u # t => OwnerOf(u) # OwnerOf(t)
    BY <1>c DEF Alone
  <1>e. refused[t] = "held" => Booked(t)
    BY <1>c DEF TurnInv
  \* a step that leaves t, and the reservation of its owner, as they were
  <1>1. CASE /\ refused'[t] = refused[t] /\ pc'[t] = pc[t] /\ delay'[t] = delay[t]
             /\ UNCHANGED <<waiter, waiter_deadline>>
    BY <1>1, <1>c, <1>e DEF Booked
  <1>2. CASE \E u \in Tasks : TryRefused(u)
    <2>0. PICK u \in Tasks : TryRefused(u)
      BY <1>2
    <2>1. CASE u = t
      <3>1. /\ blocked(OwnerOf(t)) /\ og_core_try_blocked(OwnerOf(t))
            /\ pc' = [pc EXCEPT ![t] = "check"]
        BY <2>0, <2>1, <1>a, <1>c DEF TryRefused, TaskTypeOK, og_core_try_reserved
      <3>2. waiter = OwnerOf(t) \/ ~ reservation_live
        <4>1. SUFFICES ASSUME reservation_live, waiter # OwnerOf(t) PROVE FALSE
          OBVIOUS
        <4>2. owner \in Owners /\ waiter \in Owners /\ owner # OwnerOf(t)
          BY <3>1, <4>1, <1>a DEF blocked, reservation_live, CoreTypeOK
        <4>3. waiter = owner
          BY <4>1, <4>2, <1>b, OwnerType
        <4>4. QED
          BY <4>2, <4>3, OwnerType DEF WaiterIsNotOwner
      <3>3. waiter' = OwnerOf(t) /\ waiter_deadline' = OG_RESERVE_MS
        BY <3>1, <3>2 DEF og_core_try_blocked
      <3>4. pc'[t] = "check"
        BY <3>1, <1>a DEF TaskTypeOK
      <3>5. QED
        BY <3>3, <3>4, GateAssumption DEF Booked
    <2>2. CASE u # t
      <3>1. refused[t] = "held" /\ pc'[t] = pc[t] /\ delay' = delay
        BY <2>0, <2>2, <1>a, <1>c DEF TryRefused, TaskTypeOK
      <3>2. waiter = OwnerOf(t) /\ waiter_deadline > 0
        BY <3>1, <1>e DEF Booked
      <3>3. UNCHANGED <<waiter, waiter_deadline>>
        <4>1. CASE og_core_try_reserved(OwnerOf(u))
          BY <4>1 DEF og_core_try_reserved
        <4>2. CASE og_core_try_blocked(OwnerOf(u))
          BY <4>2, <3>2, <1>d, <2>2, OwnerType DEF og_core_try_blocked, reservation_live
        <4>3. QED
          BY <4>1, <4>2, <2>0 DEF TryRefused
      <3>4. QED
        BY <3>1, <3>3, <1>1, <1>c
    <2>3. QED
      BY <2>1, <2>2
  <1>3. CASE \E u \in Tasks : TryGranted(u) \/ Steal(u)
    <2>0. PICK u \in Tasks : TryGranted(u) \/ Steal(u)
      BY <1>3
    <2>1. u # t
      BY <2>0, <1>a, <1>c DEF TryGranted, Steal, NewWait, TaskTypeOK
    <2>2. refused'[t] = refused[t] /\ pc'[t] = pc[t] /\ delay'[t] = delay[t]
      BY <2>0, <2>1, <1>a DEF TryGranted, Steal, NewWait, TaskTypeOK
    <2>3. waiter = OwnerOf(t)
      BY <2>2, <1>c, <1>e DEF Booked
    <2>4. UNCHANGED <<waiter, waiter_deadline>>
      BY <2>0, <2>1, <2>3, <1>d DEF TryGranted, Steal, og_core_try_granted, og_core_force, take
    <2>5. QED
      BY <2>2, <2>4, <1>1
  <1>4. CASE \E u \in Tasks : Acquire(u) \/ AcquireDisabled(u)
    <2>0. PICK u \in Tasks : Acquire(u) \/ AcquireDisabled(u)
      BY <1>4
    <2>1. u # t
      BY <2>0, <1>a, <1>c, <1>e DEF Acquire, AcquireDisabled, MayAsk, NewWait, TaskTypeOK, Booked
    <2>2. QED
      BY <2>0, <2>1, <1>a, <1>1 DEF Acquire, AcquireDisabled, NewWait, TaskTypeOK, core
  <1>5. CASE \E u \in Tasks : WaitMore(u)
    <2>0. PICK u \in Tasks : WaitMore(u)
      BY <1>5
    <2>1. CASE u # t
      BY <2>0, <2>1, <1>a, <1>1 DEF WaitMore, TaskTypeOK, core
    <2>2. CASE u = t
      <3>1. pc[t] = "check" /\ pc'[t] = "delay" /\ delay'[t] = OG_POLL_MS /\ refused[t] = "held"
            /\ UNCHANGED <<waiter, waiter_deadline>>
        BY <2>0, <2>2, <1>a, <1>c DEF WaitMore, TaskTypeOK, core
      <3>2. QED
        BY <3>1, <1>e DEF Booked
    <2>3. QED
      BY <2>1, <2>2
  <1>6. CASE \E u \in Tasks : WaitOver(u) \/ Poll(u)
    <2>0. PICK u \in Tasks : WaitOver(u) \/ Poll(u)
      BY <1>6
    <2>1. CASE u # t
      BY <2>0, <2>1, <1>a, <1>1 DEF WaitOver, Poll, TaskTypeOK, core
    <2>2. CASE u = t
      <3>1. pc'[t] \in {"force", "try"} /\ refused[t] = "held"
            /\ UNCHANGED <<waiter, waiter_deadline>>
        BY <2>0, <2>2, <1>a, <1>c DEF WaitOver, Poll, TaskTypeOK, core
      <3>2. QED
        BY <3>1, <1>e DEF Booked
    <2>3. QED
      BY <2>1, <2>2
  <1>7. CASE \E u \in Tasks : Write(u) \/ WriteFails(u)
    <2>0. PICK u \in Tasks : Write(u) \/ WriteFails(u)
      BY <1>7
    <2>1. pc[u] = "write" /\ UNCHANGED <<refused, delay, waiter, waiter_deadline>>
      BY <2>0 DEF Write, WriteFails, Release, og_core_release, core
    <2>2. u # t
      BY <2>1, <1>c, <1>e DEF Booked
    <2>3. pc'[t] = pc[t]
      BY <2>0, <2>2, <1>a DEF Write, WriteFails, TaskTypeOK
    <2>4. QED
      BY <2>1, <2>3, <1>1
  <1>8. CASE \E u \in Tasks : \/ EngineDone(u) \/ RequestDone(u)
                              \/ RequestTimeout(u) \/ SenderGivesUp(u)
    <2>0. PICK u \in Tasks : \/ EngineDone(u) \/ RequestDone(u)
                             \/ RequestTimeout(u) \/ SenderGivesUp(u)
      BY <1>8
    <2>1. pc[u] \in {"talk", "done"} /\ UNCHANGED <<refused, delay, waiter, waiter_deadline>>
      BY <2>0
         DEF EngineDone, RequestDone, RequestTimeout, SenderGivesUp, Release, og_core_release,
             core
    <2>2. u # t
      BY <2>1, <1>c, <1>e DEF Booked
    <2>3. pc'[t] = pc[t]
      BY <2>0, <2>2, <1>a DEF EngineDone, RequestDone, RequestTimeout, SenderGivesUp, TaskTypeOK
    <2>4. QED
      BY <2>1, <2>3, <1>1
  <1>9. CASE Prompt \/ PromptArmed
    <2>1. UNCHANGED <<refused, delay, waiter, waiter_deadline>>
      BY <1>9 DEF Prompt, PromptArmed, Release, og_core_release, core
    <2>2. pending # <<>> /\ Shown(Head(pending))
      BY <1>9 DEF Prompt, PromptArmed
    <2>3. Head(pending) \in ChipTasks => Head(pending) # t
      <3>1. 1 \in 1 .. Len(pending) /\ Head(pending) = pending[1]
        BY <2>2, <1>a DEF PendingTypeOK
      <3>2. Head(pending) \in ChipTasks => pc[Head(pending)] = "talk"
        BY <3>1 DEF TalkInv
      <3>3. pc[t] # "talk"
        BY <2>1, <1>c, <1>e DEF Booked
      <3>4. QED
        BY <3>2, <3>3
    <2>4. pc'[t] = pc[t]
      BY <2>2, <2>3, <1>a DEF Shown, TaskTypeOK
    <2>5. QED
      BY <2>1, <2>4, <1>1
  <1>10. CASE PromptHidden \/ InjectLapses \/ (\E on \in BOOLEAN : on_apply(on)) \/ UNCHANGED vars
    BY <1>10, <1>1 DEF PromptHidden, InjectLapses, on_apply, Release, og_core_release, core, vars
  <1>11. CASE Tick
    <2>1. refused[t] = "held" /\ UNCHANGED <<waiter, pc>>
      BY <1>11, <1>c DEF Tick, Advance
    <2>2. ~ Due(t)
      BY <1>11 DEF Tick
    <2>3. pc[t] = "delay" /\ delay[t] # 0 /\ waiter_deadline > delay[t] /\ waiter = OwnerOf(t)
      BY <2>1, <2>2, <1>e DEF Due, Booked
    <2>4. delay[t] \in Nat /\ waiter_deadline \in Nat
      BY <1>a, GateAssumption DEF CoreTypeOK, TaskTypeOK
    <2>5. delay'[t] = delay[t] - 1 /\ waiter_deadline' = waiter_deadline - 1
      BY <1>11, <2>3, <2>4 DEF Tick, Advance, Less
    <2>6. QED
      BY <2>1, <2>3, <2>4, <2>5 DEF Booked
  <1>12. QED
    BY <1>2, <1>3, <1>4, <1>5, <1>6, <1>7, <1>8, <1>9, <1>10, <1>11 DEF Next, AcquireStep

\* "a tight requester loop can otherwise starve a slow poller"
\* (obd_gate_private.h): between two owners, a task with a token of its own
\* that was refused the held gate is granted the next turn, whatever the other
\* side does and however many tasks it has.  The polls must come on time, the
\* poll period be shorter than the reservation (10 ms and 500 ms in the code),
\* and there be no third owner, who could hold the registration in its place.
THEOREM RefusedNotPassed ==
    ASSUME Punctual, OG_POLL_MS < OG_RESERVE_MS, \A e, f \in Engines : e = f
    PROVE  Spec => []RefusedIsNext
  <1> DEFINE All == IInv /\ TalkInv /\ WaiterIsNotOwner /\ TurnInv
  <1>1. Init => All
    <2>1. ASSUME Init PROVE TalkInv /\ WaiterIsNotOwner /\ TurnInv
      BY <2>1 DEF Init, TalkInv, WaiterIsNotOwner, TurnInv
    <2>2. QED
      BY <2>1, InitInv
  <1>2. All /\ [Next]_vars => All'
    BY StepInv, TalkStep, WaiterStep, TurnStep
  <1>3. All => RefusedIsNext
    <2>1. SUFFICES ASSUME All, NEW t \in Tasks, refused[t] = "held", Alone(t)
                   PROVE  ~ passed[OwnerOf(t)]
      BY DEF RefusedIsNext, Alone
    <2>2. waiter = OwnerOf(t) /\ waiter_deadline > 0
      BY <2>1 DEF TurnInv, Booked
    <2>3. QED
      BY <2>1, <2>2, OwnerType DEF IInv, ReservedTurn, reservation_live
  <1> HIDE DEF All
  <1>4. QED
    BY <1>1, <1>2, <1>3, PTL DEF Spec
============================================================================
