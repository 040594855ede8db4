-------------------------- MODULE SolverAllowList ---------------------------
(***************************************************************************)
(* Who may settle: GPv2AllowListAuthentication behind its proxy, the       *)
(* AllowListGuardian that is meant to hold its manager role, and the       *)
(* timelock in front of the guardian.                                      *)
(*                                                                         *)
(* The intended end state, "Installed", is reached by several calls of     *)
(* several accounts: the guardian becomes manager, and the proxy admin     *)
(* moves to the timelock.  Before, between and after them the Safe (the    *)
(* first manager and admin, and later the guardian) and any proposed       *)
(* manager can act.                                                        *)
(*                                                                         *)
(* External: the proxy's admin slot, and OpenZeppelin's TimelockController,*)
(* modelled as a set of scheduled calls that anyone may execute once they  *)
(* are MinDelay old.  Proxy upgrades are left out.                         *)
(***************************************************************************)
EXTENDS Integers, FiniteSets

CONSTANTS
    Safe,       \* the protocol Safe: first manager, first admin, guardian
    Guardian,   \* the AllowListGuardian contract
    Timelock,   \* the TimelockController
    Other,      \* other accounts that may be given a role
    NoOne,      \* address(0)
    Solver,     \* solver addresses
    MinDelay,   \* the timelock's delay
    MaxTime,    \* bound: timestamps are 0..MaxTime
    MaxQueued   \* bound: operations scheduled at once

Caller == {Safe, Timelock} \union Other
Holder == Caller \union {Guardian}

ASSUME DistinctRoles ==
    /\ Safe \notin {Guardian, Timelock, NoOne}
    /\ Guardian \notin {Timelock, NoOne} /\ Timelock # NoOne
    /\ {Safe, Guardian, Timelock, NoOne} \intersect Other = {}
ASSUME DelayAssumption == MinDelay \in Nat \ {0} /\ MaxTime \in Nat /\ MaxQueued \in Nat

(* The calls governance makes of the timelock.                             *)
Call ==
    [fn : {"guardian.addSolver", "addSolver", "removeSolver"}, arg : Solver]
    \union [fn : {"guardian.setManager", "guardian.setGuardian",
                  "setManager", "proposeManager"}, arg : Holder \union {NoOne}]
    \union [fn : {"acceptManagership", "cancelManagerTransfer"}, arg : {NoOne}]

VARIABLES
    manager,         \* the authenticator's manager
    pendingManager,  \* proposed by the two-step transfer, or NoOne
    solvers,         \* allowed solvers
    admin,           \* the proxy's EIP-1967 admin
    guardian,        \* who may use the guardian contract's fast path
    queue,           \* scheduled calls: [call, at], at the time of scheduling
    broken,          \* the timelock's proposers have lost their keys
    now,             \* block timestamp
    proposedAt,      \* history: when pendingManager was first announced
    adminFirst       \* history: the admin had moved when the manager last changed

authenticator == <<manager, pendingManager, solvers>>
timelock == <<queue, broken, now>>
history == <<proposedAt, adminFirst>>
vars == <<authenticator, admin, guardian, timelock, history>>

(* initializeManager ran in the proxy's constructor.                       *)
Init ==
    /\ manager = Safe
    /\ pendingManager = NoOne
    /\ solvers = {}
    /\ admin = Safe
    /\ guardian = Safe
    /\ queue = {}
    /\ broken = FALSE
    /\ now = 0
    /\ proposedAt = 0
    /\ adminFirst = FALSE

-----------------------------------------------------------------------------
(* The authenticator's functions, called by c.  since is when the call was *)
(* announced: now for a direct call, earlier for a scheduled one.          *)

onlyManagerOrOwner(c) == c = manager \/ c = admin

(* Mutant: a pending transfer survives setManager.                         *)
setManagerKeepsPending(c, m) ==
    /\ onlyManagerOrOwner(c)
    /\ manager' = m
    /\ adminFirst' = (admin = Timelock)
    /\ UNCHANGED <<pendingManager, solvers, proposedAt>>

setManager(c, m) ==
    /\ onlyManagerOrOwner(c)
    /\ manager' = m
    /\ pendingManager' = NoOne
    /\ adminFirst' = (admin = Timelock)
    /\ UNCHANGED <<solvers, proposedAt>>

proposeManager(c, m, since) ==
    /\ onlyManagerOrOwner(c)
    /\ pendingManager' = m
    /\ proposedAt' = since
    /\ UNCHANGED <<manager, solvers, adminFirst>>

acceptManagership(c) ==
    /\ pendingManager # NoOne
    /\ c = pendingManager
    /\ manager' = pendingManager
    /\ pendingManager' = NoOne
    /\ adminFirst' = (admin = Timelock)
    /\ UNCHANGED <<solvers, proposedAt>>

cancelManagerTransfer(c) ==
    /\ onlyManagerOrOwner(c)
    /\ pendingManager' = NoOne
    /\ UNCHANGED <<manager, solvers, history>>

addSolver(c, s) ==
    /\ c = manager
    /\ solvers' = solvers \union {s}
    /\ UNCHANGED <<manager, pendingManager, history>>

removeSolver(c, s) ==
    /\ c = manager
    /\ solvers' = solvers \ {s}
    /\ UNCHANGED <<manager, pendingManager, history>>

(* An account calls the authenticator itself.                              *)
DirectCall(c) ==
    /\ \/ \E m \in Holder \union {NoOne} :
             setManager(c, m) \/ proposeManager(c, m, now)
       \/ acceptManagership(c)
       \/ cancelManagerTransfer(c)
       \/ \E s \in Solver : addSolver(c, s) \/ removeSolver(c, s)
    /\ UNCHANGED <<admin, guardian, timelock>>

-----------------------------------------------------------------------------
(* AllowListGuardian.  Each function but setGuardian forwards to the       *)
(* authenticator, which sees the guardian contract as its caller.          *)

(* Mutant: the fast path adds solvers too.                                 *)
GuardianMayAdd(c, fn) ==
    IF fn \in {"addSolver", "removeSolver"} THEN c = guardian ELSE c = Timelock

(* Mutant: the fast path hands the manager role over too.                  *)
GuardianMayHandOver(c, fn) ==
    IF fn \in {"setManager", "removeSolver"} THEN c = guardian ELSE c = Timelock

(* onlyTimelock and onlyGuardian.                                          *)
MayUse(c, fn) == IF fn = "removeSolver" THEN c = guardian ELSE c = Timelock

GuardianAddSolver(c, s) ==
    /\ MayUse(c, "addSolver")
    /\ addSolver(Guardian, s)
    /\ UNCHANGED guardian

GuardianSetManager(c, m) ==
    /\ MayUse(c, "setManager")
    /\ m # NoOne
    /\ setManager(Guardian, m)
    /\ UNCHANGED guardian

GuardianSetGuardian(c, g) ==
    /\ MayUse(c, "setGuardian")
    /\ g # NoOne
    /\ guardian' = g
    /\ UNCHANGED <<authenticator, history>>

GuardianRemoveSolver(c, s) ==
    /\ MayUse(c, "removeSolver")
    /\ removeSolver(Guardian, s)
    /\ UNCHANGED guardian

(* A call of the guardian contract that does not come from the timelock.   *)
GuardianCall(c) ==
    /\ c # Timelock
    /\ \/ \E s \in Solver : GuardianRemoveSolver(c, s) \/ GuardianAddSolver(c, s)
       \/ \E m \in Holder \union {NoOne} :
             GuardianSetManager(c, m) \/ GuardianSetGuardian(c, m)
    /\ UNCHANGED <<admin, timelock>>

-----------------------------------------------------------------------------
(* The timelock and the proxy.                                             *)

Ripe(entry) == entry.at + MinDelay <= now

Schedule(call) ==
    /\ ~broken
    /\ Cardinality(queue) < MaxQueued
    /\ queue' = queue \union {[call |-> call, at |-> now]}
    /\ UNCHANGED <<authenticator, admin, guardian, broken, now, history>>

CancelScheduled(entry) ==
    /\ ~broken
    /\ queue' = queue \ {entry}
    /\ UNCHANGED <<authenticator, admin, guardian, broken, now, history>>

(* Anyone may execute a ripe call; the timelock is then the caller.        *)
Execute(entry) ==
    LET arg == entry.call.arg
        fn  == entry.call.fn
    IN  /\ Ripe(entry)
        /\ \/ fn = "guardian.addSolver" /\ GuardianAddSolver(Timelock, arg)
           \/ fn = "guardian.setManager" /\ GuardianSetManager(Timelock, arg)
           \/ fn = "guardian.setGuardian" /\ GuardianSetGuardian(Timelock, arg)
           \/ /\ UNCHANGED guardian
              /\ \/ fn = "addSolver" /\ addSolver(Timelock, arg)
                 \/ fn = "removeSolver" /\ removeSolver(Timelock, arg)
                 \/ fn = "setManager" /\ setManager(Timelock, arg)
                 \/ fn = "proposeManager" /\ proposeManager(Timelock, arg, entry.at)
                 \/ fn = "acceptManagership" /\ acceptManagership(Timelock)
                 \/ fn = "cancelManagerTransfer" /\ cancelManagerTransfer(Timelock)
        /\ queue' = queue \ {entry}
        /\ UNCHANGED <<admin, broken, now>>

(* The proposers lose their keys: nothing can be scheduled any more.       *)
Break ==
    /\ ~broken
    /\ broken' = TRUE
    /\ UNCHANGED <<authenticator, admin, guardian, queue, now, history>>

transferOwnership ==
    /\ admin = Safe
    /\ admin' = Timelock
    /\ UNCHANGED <<authenticator, guardian, timelock, history>>

Tick ==
    /\ now < MaxTime
    /\ now' = now + 1
    /\ UNCHANGED <<authenticator, admin, guardian, queue, broken, history>>

Next ==
    \/ \E c \in Caller \ {Timelock} : DirectCall(c) \/ GuardianCall(c)
    \/ \E call \in Call : Schedule(call)
    \/ \E entry \in queue : CancelScheduled(entry) \/ Execute(entry)
    \/ transferOwnership
    \/ Break
    \/ Tick

Spec == Init /\ [][Next]_vars

-----------------------------------------------------------------------------
(* Safety.                                                                 *)

(* Both roles are where the runbook puts them.                             *)
Installed == manager = Guardian /\ admin = Timelock

(* Types, and that the guardian contract's guardian is never nobody.       *)
TypeOK ==
    /\ manager \in Holder \union {NoOne}
    /\ pendingManager \in Holder \union {NoOne}
    /\ solvers \subseteq Solver
    /\ admin \in {Safe, Timelock}
    /\ guardian \in Holder
    /\ queue \subseteq [call : Call, at : 0..MaxTime]
    /\ broken \in BOOLEAN /\ adminFirst \in BOOLEAN
    /\ now \in 0..MaxTime /\ proposedAt \in 0..MaxTime

(* Once installed, with no transfer pending, no account gains a role or a  *)
(* solver its place in a step unless a call announced for the whole delay  *)
(* is behind it.                                                           *)
NoPowerWithoutNotice ==
    [][Installed /\ pendingManager = NoOne /\ ~(\E entry \in queue : Ripe(entry)) =>
          /\ UNCHANGED <<manager, pendingManager, admin, guardian>>
          /\ solvers' \subseteq solvers]_vars

(* When the admin role moved before the guardian took over, no transfer    *)
(* proposed earlier survives the installation: whoever could accept the    *)
(* manager role was announced for the whole delay.                         *)
PendingWasAnnounced ==
    Installed /\ adminFirst /\ pendingManager # NoOne => proposedAt + MinDelay <= now

(* Checked together.                                                       *)
Inv == TypeOK /\ PendingWasAnnounced

(* AllowListGuardian.sol's NatSpec on a broken timelock: "the guardian's   *)
(* instant removeSolver keeps working, so capability can always be         *)
(* REDUCED, never silently ADDED".  It takes an installed guardian with    *)
(* nothing under way: such a system stays so, and only loses solvers.      *)
Frozen == broken /\ Installed /\ pendingManager = NoOne /\ queue = {}
FailsSafe == [][Frozen => Frozen' /\ guardian' = guardian /\ solvers' \subseteq solvers]_vars
=============================================================================
