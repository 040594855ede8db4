------------------------ MODULE SolverAllowListProofs -----------------------
(***************************************************************************)
(* What the governance of the allow list keeps for any accounts, solvers,  *)
(* delay and length of the timelock's queue.                               *)
(*                                                                         *)
(* Once the guardian is manager and the timelock is the proxy's admin, no  *)
(* account but the timelock passes onlyManagerOrOwner: the direct calls    *)
(* left are the acceptance of a pending transfer and the guardian's        *)
(* removeSolver, and everything else waits in the timelock's queue.        *)
(***************************************************************************)
EXTENDS SolverAllowList, TLAPS

(* The admin moves to the timelock once and for all: a manager that came   *)
(* after it came under the timelock.                                       *)
AdminStays == adminFirst => admin = Timelock

IInv == Inv /\ AdminStays

-----------------------------------------------------------------------------
(* Who may call                                                            *)

(* The accounts that call directly hold neither contract's role.           *)
LEMMA Roles ==
    /\ Safe \in Holder /\ Guardian \in Holder /\ Timelock \in Holder /\ NoOne \notin Holder
    /\ \A c \in Caller \ {Timelock} : c \notin {Guardian, Timelock} /\ c \in Holder
    /\ Safe # Timelock /\ Guardian # Timelock
BY DistinctRoles DEF Caller, Holder

(* Of an installed authenticator, direct calls only accept a transfer.     *)
LEMMA DirectWhenInstalled ==
    ASSUME Installed, NEW c \in Caller \ {Timelock}, DirectCall(c)
    PROVE  acceptManagership(c)
BY Roles DEF Installed, DirectCall, setManager, proposeManager, cancelManagerTransfer,
             onlyManagerOrOwner, addSolver, removeSolver

(* Of the guardian contract, calls that skip the timelock only remove.     *)
LEMMA GuardianOnlyRemoves ==
    ASSUME NEW c, GuardianCall(c)
    PROVE  \E s \in Solver : GuardianRemoveSolver(c, s)
BY DEF GuardianCall, MayUse, GuardianAddSolver, GuardianSetManager, GuardianSetGuardian

(* The arguments of the calls in the queue have the types of their         *)
(* functions.                                                              *)
LEMMA CallTypes ==
    ASSUME NEW call \in Call
    PROVE  /\ call.fn \in {"guardian.addSolver", "addSolver", "removeSolver"} => call.arg \in Solver
           /\ call.fn \in {"guardian.setManager", "guardian.setGuardian", "setManager",
                           "proposeManager"} => call.arg \in Holder \union {NoOne}
BY DEF Call

-----------------------------------------------------------------------------
(* The authenticator's functions                                           *)

(* They set the manager, the proposed manager and the solvers to values of *)
(* their types; the manager changes with the record of who was admin, and  *)
(* a transfer is pending after a step only if it was before or is proposed.*)
AuthenticatorTypes ==
    /\ manager' \in Holder \union {NoOne} /\ pendingManager' \in Holder \union {NoOne}
    /\ solvers' \subseteq Solver
    /\ adminFirst' \in BOOLEAN /\ proposedAt' \in 0..MaxTime

ManagerKept == manager' = manager /\ adminFirst' = adminFirst

LEMMA SetManagerStep ==
    ASSUME TypeOK, NEW c, NEW m \in Holder \union {NoOne}, setManager(c, m)
    PROVE  AuthenticatorTypes /\ pendingManager' = NoOne /\ (adminFirst' => admin = Timelock)
<1>1. adminFirst' \in BOOLEAN /\ (adminFirst' => admin = Timelock)
    BY Zenon DEF setManager
<1> QED BY <1>1 DEF setManager, TypeOK, AuthenticatorTypes

LEMMA ProposeManagerStep ==
    ASSUME TypeOK, NEW c, NEW m \in Holder \union {NoOne}, NEW since \in 0..MaxTime,
           proposeManager(c, m, since)
    PROVE  AuthenticatorTypes /\ ManagerKept /\ proposedAt' = since
BY DEF proposeManager, TypeOK, AuthenticatorTypes, ManagerKept

LEMMA AcceptManagershipStep ==
    ASSUME TypeOK, NEW c, acceptManagership(c)
    PROVE  AuthenticatorTypes /\ pendingManager' = NoOne /\ (adminFirst' => admin = Timelock)
<1>1. adminFirst' \in BOOLEAN /\ (adminFirst' => admin = Timelock)
    BY Zenon DEF acceptManagership
<1> QED BY <1>1 DEF acceptManagership, TypeOK, AuthenticatorTypes

LEMMA CancelTransferStep ==
    ASSUME TypeOK, NEW c, cancelManagerTransfer(c)
    PROVE  AuthenticatorTypes /\ ManagerKept /\ pendingManager' = NoOne
BY DEF cancelManagerTransfer, TypeOK, AuthenticatorTypes, ManagerKept, history

LEMMA SolverStep ==
    ASSUME TypeOK, NEW c, NEW s \in Solver, addSolver(c, s) \/ removeSolver(c, s)
    PROVE  /\ AuthenticatorTypes /\ ManagerKept
           /\ pendingManager' = pendingManager /\ proposedAt' = proposedAt
BY DEF addSolver, removeSolver, TypeOK, AuthenticatorTypes, ManagerKept, history

-----------------------------------------------------------------------------
(* What is pending                                                         *)

(* A step after which a transfer is pending under an installed guardian    *)
(* either left the roles and the proposal as they were, or is the          *)
(* timelock's proposal, announced for the whole delay.                     *)
PendingStep ==
    /\ adminFirst' => admin = Timelock
    /\ \/ pendingManager' = NoOne
       \/ ManagerKept /\ UNCHANGED <<pendingManager, proposedAt>>
       \/ ManagerKept /\ ~(Installed /\ adminFirst)
       \/ ManagerKept /\ proposedAt' + MinDelay <= now

LEMMA DirectStep ==
    ASSUME IInv, NEW c \in Caller \ {Timelock}, DirectCall(c)
    PROVE  AuthenticatorTypes /\ PendingStep
<1>1. TypeOK /\ (adminFirst => admin = Timelock) /\ now \in 0..MaxTime
    BY DEF IInv, Inv, AdminStays, TypeOK
<1>2. CASE \E m \in Holder \union {NoOne} : setManager(c, m)
    BY <1>1, <1>2, SetManagerStep DEF PendingStep
<1>3. CASE \E m \in Holder \union {NoOne} : proposeManager(c, m, now)
    <2>1. AuthenticatorTypes /\ ManagerKept
        BY <1>1, <1>3, ProposeManagerStep
    <2>2. ~Installed
        BY <1>3, Roles DEF proposeManager, onlyManagerOrOwner, Installed
    <2> QED BY <1>1, <2>1, <2>2 DEF PendingStep, ManagerKept
<1>4. CASE acceptManagership(c)
    BY <1>1, <1>4, AcceptManagershipStep DEF PendingStep
<1>5. CASE cancelManagerTransfer(c)
    BY <1>1, <1>5, CancelTransferStep DEF PendingStep, ManagerKept
<1>6. CASE \E s \in Solver : addSolver(c, s) \/ removeSolver(c, s)
    BY <1>1, <1>6, SolverStep DEF PendingStep, ManagerKept
<1> QED BY <1>2, <1>3, <1>4, <1>5, <1>6 DEF DirectCall

LEMMA ExecuteStep ==
    ASSUME IInv, NEW entry \in queue, Execute(entry)
    PROVE  AuthenticatorTypes /\ PendingStep /\ guardian' \in Holder
<1> DEFINE fn == entry.call.fn
           arg == entry.call.arg
<1>1. /\ TypeOK /\ (adminFirst => admin = Timelock)
      /\ entry.call \in Call /\ entry.at \in 0..MaxTime /\ guardian \in Holder
    BY DEF IInv, Inv, AdminStays, TypeOK
<1>2. entry.at + MinDelay <= now
    BY DEF Execute, Ripe
<1>3. CASE fn = "guardian.addSolver" /\ GuardianAddSolver(Timelock, arg)
    <2>1. arg \in Solver /\ addSolver(Guardian, arg) /\ guardian' = guardian
        BY <1>1, <1>3, CallTypes DEF GuardianAddSolver
    <2> QED BY <1>1, <2>1, SolverStep DEF PendingStep, ManagerKept
<1>4. CASE fn = "guardian.setManager" /\ GuardianSetManager(Timelock, arg)
    <2>1. arg \in Holder \union {NoOne} /\ setManager(Guardian, arg) /\ guardian' = guardian
        BY <1>1, <1>4, CallTypes DEF GuardianSetManager
    <2> QED BY <1>1, <2>1, SetManagerStep DEF PendingStep
<1>5. CASE fn = "guardian.setGuardian" /\ GuardianSetGuardian(Timelock, arg)
    <2>1. arg \in Holder /\ guardian' = arg /\ UNCHANGED <<authenticator, history>>
        BY <1>1, <1>5, CallTypes DEF GuardianSetGuardian
    <2> QED BY <1>1, <2>1 DEF PendingStep, ManagerKept, AuthenticatorTypes, TypeOK,
                              authenticator, history
<1>6. CASE guardian' = guardian /\ fn = "addSolver" /\ addSolver(Timelock, arg)
    <2>1. arg \in Solver
        BY <1>1, <1>6, CallTypes
    <2> QED BY <1>1, <1>6, <2>1, SolverStep DEF PendingStep, ManagerKept
<1>7. CASE guardian' = guardian /\ fn = "removeSolver" /\ removeSolver(Timelock, arg)
    <2>1. arg \in Solver
        BY <1>1, <1>7, CallTypes
    <2> QED BY <1>1, <1>7, <2>1, SolverStep DEF PendingStep, ManagerKept
<1>8. CASE guardian' = guardian /\ fn = "setManager" /\ setManager(Timelock, arg)
    <2>1. arg \in Holder \union {NoOne}
        BY <1>1, <1>8, CallTypes
    <2> QED BY <1>1, <1>8, <2>1, SetManagerStep DEF PendingStep
<1>9. CASE guardian' = guardian /\ fn = "proposeManager" /\ proposeManager(Timelock, arg, entry.at)
    <2>1. arg \in Holder \union {NoOne}
        BY <1>1, <1>9, CallTypes
    <2> QED BY <1>1, <1>2, <1>9, <2>1, ProposeManagerStep DEF PendingStep, ManagerKept
<1>10. CASE guardian' = guardian /\ fn = "acceptManagership" /\ acceptManagership(Timelock)
    BY <1>1, <1>10, AcceptManagershipStep DEF PendingStep
<1>11. CASE /\ guardian' = guardian /\ fn = "cancelManagerTransfer"
            /\ cancelManagerTransfer(Timelock)
    BY <1>1, <1>11, CancelTransferStep DEF PendingStep, ManagerKept
<1> QED BY <1>3, <1>4, <1>5, <1>6, <1>7, <1>8, <1>9, <1>10, <1>11 DEF Execute

(* Such a step keeps the invariant's part on transfers.                    *)
LEMMA PendingKept ==
    ASSUME IInv, PendingStep, admin' = admin, now' = now
    PROVE  PendingWasAnnounced' /\ AdminStays'
<1>1. AdminStays'
    BY DEF PendingStep, AdminStays
<1>2. CASE ManagerKept /\ UNCHANGED <<pendingManager, proposedAt>>
    BY <1>1, <1>2 DEF IInv, Inv, PendingWasAnnounced, Installed, ManagerKept
<1>3. CASE ManagerKept /\ ~(Installed /\ adminFirst)
    BY <1>1, <1>3 DEF PendingWasAnnounced, Installed, ManagerKept
<1> QED BY <1>1, <1>2, <1>3 DEF PendingStep, PendingWasAnnounced

-----------------------------------------------------------------------------
LEMMA InitIInv == Init => IInv
<1> SUFFICES ASSUME Init PROVE IInv
    OBVIOUS
<1>1. broken \in BOOLEAN /\ adminFirst \in BOOLEAN
    BY Zenon DEF Init
<1>2. TypeOK
    BY <1>1, Roles, DelayAssumption DEF Init, TypeOK
<1>3. PendingWasAnnounced /\ AdminStays
    BY DEF Init, PendingWasAnnounced, AdminStays
<1> QED BY <1>2, <1>3 DEF IInv, Inv

LEMMA NextIInv == IInv /\ [Next]_vars => IInv'
<1> SUFFICES ASSUME IInv, [Next]_vars PROVE IInv'
    OBVIOUS
<1>1. TypeOK /\ PendingWasAnnounced /\ AdminStays
    BY DEF IInv, Inv
<1>2. ASSUME NEW c \in Caller \ {Timelock}, DirectCall(c) PROVE IInv'
    <2>1. AuthenticatorTypes /\ PendingStep
        BY <1>2, DirectStep
    <2>2. UNCHANGED <<admin, guardian, timelock>>
        BY <1>2 DEF DirectCall
    <2>3. TypeOK'
        BY <1>1, <2>1, <2>2 DEF AuthenticatorTypes, TypeOK, timelock
    <2> QED BY <2>1, <2>2, <2>3, PendingKept DEF timelock, IInv, Inv
<1>3. ASSUME NEW c \in Caller \ {Timelock}, GuardianCall(c) PROVE IInv'
    <2>1. PICK s \in Solver : removeSolver(Guardian, s) /\ guardian' = guardian
        BY <1>3, GuardianOnlyRemoves DEF GuardianRemoveSolver
    <2>2. UNCHANGED <<admin, timelock>>
        BY <1>3 DEF GuardianCall
    <2>3. /\ AuthenticatorTypes /\ ManagerKept
          /\ pendingManager' = pendingManager /\ proposedAt' = proposedAt
        BY <1>1, <2>1, SolverStep
    <2>4. TypeOK'
        BY <1>1, <2>1, <2>2, <2>3 DEF AuthenticatorTypes, TypeOK, timelock
    <2>5. PendingStep
        BY <1>1, <2>3 DEF PendingStep, ManagerKept, AdminStays
    <2> QED BY <2>2, <2>4, <2>5, PendingKept DEF timelock, IInv, Inv
<1>4. ASSUME NEW call \in Call, Schedule(call) PROVE IInv'
    <2>1. UNCHANGED <<authenticator, admin, guardian, broken, now, history>>
        BY <1>4 DEF Schedule
    <2>2. queue' \subseteq [call : Call, at : 0..MaxTime]
        BY <1>1, <1>4 DEF Schedule, TypeOK
    <2> QED BY <1>1, <2>1, <2>2 DEF TypeOK, PendingWasAnnounced, AdminStays, Installed,
                                    authenticator, history, IInv, Inv
<1>5. ASSUME NEW entry \in queue, CancelScheduled(entry) PROVE IInv'
    BY <1>1, <1>5 DEF CancelScheduled, TypeOK, PendingWasAnnounced, AdminStays, Installed,
                      authenticator, history, IInv, Inv
<1>6. ASSUME NEW entry \in queue, Execute(entry) PROVE IInv'
    <2>1. AuthenticatorTypes /\ PendingStep /\ guardian' \in Holder
        BY <1>6, ExecuteStep
    <2>2. queue' \subseteq queue /\ UNCHANGED <<admin, broken, now>>
        BY <1>6 DEF Execute
    <2>3. TypeOK'
        BY <1>1, <2>1, <2>2 DEF AuthenticatorTypes, TypeOK
    <2> QED BY <2>1, <2>2, <2>3, PendingKept DEF IInv, Inv
<1>7. CASE transferOwnership
    <2>1. ~adminFirst
        BY <1>1, <1>7, Roles DEF transferOwnership, AdminStays
    <2> QED BY <1>1, <1>7, <2>1 DEF transferOwnership, TypeOK, PendingWasAnnounced, AdminStays,
                                    authenticator, timelock, history, IInv, Inv
<1>8. CASE Break
    BY <1>1, <1>8 DEF Break, TypeOK, PendingWasAnnounced, AdminStays, Installed,
                      authenticator, history, IInv, Inv
<1>9. CASE Tick
    <2>1. now' = now + 1 /\ now' \in 0..MaxTime
        BY <1>1, <1>9, DelayAssumption DEF Tick, TypeOK
    <2>2. UNCHANGED <<authenticator, admin, guardian, queue, broken, history>>
        BY <1>9 DEF Tick
    <2>3. TypeOK' /\ AdminStays'
        BY <1>1, <2>1, <2>2 DEF TypeOK, AdminStays, authenticator, history
    <2>4. PendingWasAnnounced'
        BY <1>1, <2>1, <2>2, DelayAssumption
           DEF TypeOK, PendingWasAnnounced, Installed, authenticator, history
    <2> QED BY <2>3, <2>4 DEF IInv, Inv
<1>10. CASE UNCHANGED vars
    BY <1>1, <1>10 DEF vars, TypeOK, PendingWasAnnounced, AdminStays, Installed,
                       authenticator, timelock, history, IInv, Inv
<1> QED BY <1>2, <1>3, <1>4, <1>5, <1>6, <1>7, <1>8, <1>9, <1>10 DEF Next

-----------------------------------------------------------------------------
(* Whoever can accept the manager role of an installed authenticator, the  *)
(* admin having moved first, was announced for the whole delay.            *)
THEOREM TransfersAreAnnounced == Spec => []Inv
<1>1. IInv => Inv
    BY DEF IInv
<1> QED BY InitIInv, NextIInv, <1>1, PTL DEF Spec

(* Once installed and with nothing pending or ripe, no step adds a solver  *)
(* or moves a role, whoever calls.                                         *)
THEOREM PowerNeedsNotice == Spec => NoPowerWithoutNotice
<1> DEFINE Quiet == Installed /\ pendingManager = NoOne /\ ~(\E entry \in queue : Ripe(entry))
           Reduces == UNCHANGED <<manager, pendingManager, admin, guardian>> /\ solvers' \subseteq solvers
<1>1. [Next]_vars => [Quiet => Reduces]_vars
    <2> SUFFICES ASSUME [Next]_vars, Quiet PROVE Reduces
        OBVIOUS
    <2>1. ASSUME NEW c \in Caller \ {Timelock}, DirectCall(c) PROVE FALSE
        BY <2>1, DirectWhenInstalled DEF acceptManagership
    <2>2. ASSUME NEW c \in Caller \ {Timelock}, GuardianCall(c) PROVE Reduces
        <3>1. PICK s \in Solver : removeSolver(Guardian, s) /\ guardian' = guardian
            BY <2>2, GuardianOnlyRemoves DEF GuardianRemoveSolver
        <3> QED BY <2>2, <3>1 DEF GuardianCall, removeSolver
    <2>3. ASSUME NEW call \in Call, Schedule(call) PROVE Reduces
        BY <2>3 DEF Schedule, authenticator
    <2>4. ASSUME NEW entry \in queue, CancelScheduled(entry) PROVE Reduces
        BY <2>4 DEF CancelScheduled, authenticator
    <2>5. ASSUME NEW entry \in queue, Execute(entry) PROVE FALSE
        BY <2>5 DEF Execute
    <2>6. CASE transferOwnership
        BY <2>6, Roles DEF transferOwnership, Installed
    <2>7. CASE Break \/ Tick \/ UNCHANGED vars
        BY <2>7 DEF Break, Tick, vars, authenticator
    <2> QED BY <2>1, <2>2, <2>3, <2>4, <2>5, <2>6, <2>7 DEF Next
<1> QED BY <1>1, PTL DEF Spec, NoPowerWithoutNotice

(* With the timelock broken and nothing under way, the solvers can only    *)
(* get fewer, in every step from then on.                                  *)
THEOREM BrokenTimelockFailsSafe == Spec => FailsSafe
<1> DEFINE Reduces == Frozen' /\ guardian' = guardian /\ solvers' \subseteq solvers
<1>1. [Next]_vars => [Frozen => Reduces]_vars
    <2> SUFFICES ASSUME [Next]_vars, Frozen PROVE Reduces
        OBVIOUS
    <2>1. ASSUME NEW c \in Caller \ {Timelock}, DirectCall(c) PROVE FALSE
        BY <2>1, DirectWhenInstalled DEF Frozen, acceptManagership
    <2>2. ASSUME NEW c \in Caller \ {Timelock}, GuardianCall(c) PROVE Reduces
        <3>1. PICK s \in Solver : removeSolver(Guardian, s) /\ guardian' = guardian
            BY <2>2, GuardianOnlyRemoves DEF GuardianRemoveSolver
        <3> QED BY <2>2, <3>1 DEF GuardianCall, removeSolver, timelock, Frozen, Installed
    <2>3. ~(\E call \in Call : Schedule(call)) /\ ~Break
        BY DEF Frozen, Schedule, Break
    <2>4. queue = {}
        BY DEF Frozen
    <2>5. ~transferOwnership
        BY Roles DEF transferOwnership, Frozen, Installed
    <2>6. CASE Tick \/ UNCHANGED vars
        BY <2>6 DEF Tick, vars, authenticator, timelock, Frozen, Installed
    <2> QED BY <2>1, <2>2, <2>3, <2>4, <2>5, <2>6 DEF Next
<1> QED BY <1>1, PTL DEF Spec, FailsSafe
=============================================================================
