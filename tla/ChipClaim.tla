----------------------------- MODULE ChipClaim -----------------------------
(***************************************************************************)
(* obd_chip_claim.c: who may talk to the OBD chip.                         *)
(*                                                                         *)
(* A request claims COMMAND for one command; a transaction is the task     *)
(* that owns the COMMAND claim across several requests; the AutoPID filter *)
(* window claims MONITOR; a chip firmware update, a probe or a baud        *)
(* detection claims EXCLUSIVE.  A bridge's obd_chip_send claims nothing    *)
(* and only tests for EXCLUSIVE.  Every section under s_claim_lock is one  *)
(* step, and so is every poll of the 10 ms wait loop.                      *)
(***************************************************************************)
EXTENDS Naturals, FiniteSets

CONSTANTS
    Requesters,     \* tasks that call obd_chip_request outside a transaction
    Transactors,    \* tasks that run transactions (UDS, J1850, report, self-test)
    Monitors,       \* tasks that claim MONITOR (autopid_filter.c)
    Updaters,       \* tasks that claim EXCLUSIVE (chip firmware, probe, baud)
    Senders,        \* tasks that call obd_chip_send (bridges)
    NULL

Claimants == Requesters \union Transactors \union Monitors \union Updaters
Tasks == Claimants \union Senders

ASSUME TasksAssumption ==
    /\ NULL \notin Tasks
    /\ Requesters \intersect (Transactors \union Monitors \union Updaters) = {}
    /\ Transactors \intersect (Monitors \union Updaters) = {}
    /\ Monitors \intersect Updaters = {}
    /\ Senders \intersect Claimants = {}

VARIABLES
    sClaim,     \* s_claim
    sTxn,       \* s_txn_task
    overdue,    \* more than OBD_TXN_MAX_US have passed since s_txn_start_us
    pc,         \* where each task is
    robbed      \* history: a transaction's claim was taken while tasks still run

vars == <<sClaim, sTxn, overdue, pc, robbed>>

Goto(t, where) == pc' = [pc EXCEPT ![t] = where]

\* The tasks that hold, or believe they hold, the chip.
Holding == {"use", "own", "txn", "nclaim", "nuse"}
Holders == {t \in Claimants : pc[t] \in Holding}

\* History only: a theft is forgotten once every task has left the chip.
Forgets(t) == robbed' = (robbed /\ Holders # {t})

TypeOf(t) ==
    CASE t \in Monitors -> "MONITOR"
      [] t \in Updaters -> "EXCLUSIVE"
      [] OTHER -> "COMMAND"

----------------------------------------------------------------------------
(* obd_core_claim and obd_core_release.                                     *)

\* The branches of one poll under the lock, in the order of the code.
OwnsTxn(t) == TypeOf(t) = "COMMAND" /\ sTxn = t
Steals(t) == ~OwnsTxn(t) /\ sClaim = "COMMAND" /\ sTxn # NULL /\ overdue
Free(t) == ~OwnsTxn(t) /\ ~Steals(t) /\ sClaim = "NONE"

\* mutant of obd_core_claim: a claim is granted beside a plain COMMAND
obd_core_claim_shared(t) ==
    \/ /\ OwnsTxn(t)
       /\ UNCHANGED <<sClaim, sTxn, robbed>>
    \/ /\ Steals(t)
       /\ sTxn' = NULL
       /\ sClaim' = TypeOf(t)
       /\ robbed' = TRUE
    \/ /\ ~OwnsTxn(t) /\ ~Steals(t)
       /\ sClaim = "NONE" \/ (sClaim = "COMMAND" /\ sTxn = NULL)
       /\ sClaim' = TypeOf(t)
       /\ UNCHANGED <<sTxn, robbed>>

\* mutant of obd_core_claim: every claim registers its task as a transaction
obd_core_claim_registers(t) ==
    \/ /\ OwnsTxn(t)
       /\ UNCHANGED <<sClaim, sTxn, robbed>>
    \/ /\ Steals(t) \/ Free(t)
       /\ sTxn' = t
       /\ sClaim' = TypeOf(t)
       /\ robbed' = (robbed \/ Steals(t))

obd_core_claim(t) ==
    \/ /\ OwnsTxn(t)
       /\ UNCHANGED <<sClaim, sTxn, robbed>>
    \/ /\ Steals(t)
       /\ sTxn' = NULL
       /\ sClaim' = TypeOf(t)
       /\ robbed' = TRUE
    \/ /\ Free(t)
       /\ sClaim' = TypeOf(t)
       /\ UNCHANGED <<sTxn, robbed>>

\* A claim that is not granted: COMMAND fails at once under a MONITOR, and
\* anything fails at its deadline.
ClaimFails(t) == ~OwnsTxn(t) /\ ~Steals(t) /\ sClaim # "NONE"

\* mutant of obd_core_release: a nested request releases its transaction's claim
obd_core_release_nested(t) == sClaim' = "NONE"

obd_core_release(t) == sClaim' = IF sTxn = t THEN sClaim ELSE "NONE"

----------------------------------------------------------------------------
(* obd_chip_request, a monitor window, an exclusive job: claim, use the     *)
(* chip, release.                                                           *)

SingleUsers == Claimants \ Transactors

Claim(t) ==
    /\ t \in SingleUsers
    /\ pc[t] = "idle"
    /\ obd_core_claim(t)
    /\ Goto(t, "use")
    /\ UNCHANGED overdue

\* cmd_engine_done, autopid_filter.c's release, status_end: every exit path.
Release(t) ==
    /\ t \in SingleUsers
    /\ pc[t] = "use"
    /\ obd_core_release(t)
    /\ Goto(t, "idle")
    /\ Forgets(t)
    /\ UNCHANGED <<sTxn, overdue>>

----------------------------------------------------------------------------
(* Transactions.                                                            *)

\* obd_chip_txn_begin takes the claim first ...
TxnClaim(t) ==
    /\ t \in Transactors
    /\ pc[t] = "idle"
    /\ sTxn # t
    /\ obd_core_claim(t)
    /\ Goto(t, "own")
    /\ UNCHANGED overdue

\* ... and becomes the owner under the lock taken again.
TxnOwn(t) ==
    /\ t \in Transactors
    /\ pc[t] = "own"
    /\ sTxn' = t
    /\ overdue' = FALSE
    /\ Goto(t, "txn")
    /\ UNCHANGED <<sClaim, robbed>>

\* A request inside the transaction.
NestedStart(t) ==
    /\ t \in Transactors
    /\ pc[t] = "txn"
    /\ Goto(t, "nclaim")
    /\ UNCHANGED <<sClaim, sTxn, overdue, robbed>>

NestedClaim(t) ==
    /\ t \in Transactors
    /\ pc[t] = "nclaim"
    /\ obd_core_claim(t)
    /\ Goto(t, "nuse")
    /\ UNCHANGED overdue

\* Only a transaction that was robbed gets here: its request fails.
NestedFails(t) ==
    /\ t \in Transactors
    /\ pc[t] = "nclaim"
    /\ ClaimFails(t)
    /\ Goto(t, "txn")
    /\ UNCHANGED <<sClaim, sTxn, overdue, robbed>>

NestedRelease(t) ==
    /\ t \in Transactors
    /\ pc[t] = "nuse"
    /\ obd_core_release(t)
    /\ Goto(t, "txn")
    /\ UNCHANGED <<sTxn, overdue, robbed>>

\* mutant of TxnEnd: the owner is forgotten and the claim is kept
TxnEnd_keeps_claim(t) ==
    /\ t \in Transactors
    /\ pc[t] = "txn"
    /\ sTxn' = IF sTxn = t THEN NULL ELSE sTxn
    /\ Goto(t, "idle")
    /\ Forgets(t)
    /\ UNCHANGED <<sClaim, overdue>>

\* obd_chip_txn_end: nothing when somebody else owns the transaction by now.
TxnEnd(t) ==
    /\ t \in Transactors
    /\ pc[t] = "txn"
    /\ IF sTxn = t
       THEN sTxn' = NULL /\ sClaim' = "NONE"
       ELSE UNCHANGED <<sTxn, sClaim>>
    /\ Goto(t, "idle")
    /\ Forgets(t)
    /\ UNCHANGED overdue

\* OBD_TXN_MAX_US pass.
Overdue ==
    /\ sTxn # NULL
    /\ ~overdue
    /\ overdue' = TRUE
    /\ UNCHANGED <<sClaim, sTxn, pc, robbed>>

----------------------------------------------------------------------------
(* obd_chip_send: the test for EXCLUSIVE, the wait for the gate, the write. *)

SendStart(t) ==
    /\ t \in Senders
    /\ pc[t] = "idle"
    /\ sClaim # "EXCLUSIVE"
    /\ Goto(t, "gate")
    /\ UNCHANGED <<sClaim, sTxn, overdue, robbed>>

SendWrite(t) ==
    /\ t \in Senders
    /\ pc[t] = "gate"
    /\ Goto(t, "idle")
    /\ UNCHANGED <<sClaim, sTxn, overdue, robbed>>

----------------------------------------------------------------------------
Init ==
    /\ sClaim = "NONE"
    /\ sTxn = NULL
    /\ overdue = FALSE
    /\ pc = [t \in Tasks |-> "idle"]
    /\ robbed = FALSE

Step(t) ==
    \/ Claim(t) \/ Release(t)
    \/ TxnClaim(t) \/ TxnOwn(t) \/ TxnEnd(t)
    \/ NestedStart(t) \/ NestedClaim(t) \/ NestedFails(t) \/ NestedRelease(t)
    \/ SendStart(t) \/ SendWrite(t)

Next == Overdue \/ \E t \in Tasks : Step(t)

Spec == Init /\ [][Next]_vars

----------------------------------------------------------------------------
TypeOK ==
    /\ sClaim \in {"NONE", "COMMAND", "MONITOR", "EXCLUSIVE"}
    /\ sTxn \in Transactors \union {NULL}
    /\ overdue \in BOOLEAN
    /\ pc \in [Tasks -> Holding \union {"idle", "gate"}]
    /\ robbed \in BOOLEAN

\* The chip has one user at a time, transactions included, as long as no
\* transaction outlived OBD_TXN_MAX_US and lost its claim; and once every
\* task has left the chip after such a theft, that is so again.
OneUser ==
    ~robbed => \A t, u \in Holders : t = u

\* The claim is what its user took: a transaction's requests find it theirs,
\* and an EXCLUSIVE or MONITOR user still has it when it looks.
UserKeepsClaim ==
    ~robbed =>
        \A t \in Holders :
            /\ sClaim = TypeOf(t)
            /\ pc[t] \in {"txn", "nclaim", "nuse"} => sTxn = t

\* Whatever was stolen from whom, nested in what, the chip is free once no
\* task uses it: no order of releases, txn_ends and thefts leaks the claim or
\* leaves a transaction owner behind.
QuietMeansFree == Holders = {} => sClaim = "NONE" /\ sTxn = NULL
=============================================================================
