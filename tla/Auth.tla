---------------------------- MODULE Auth ----------------------------
(***************************************************************************)
(* Roles, pausing and freezing: contracts/mixins/Auth.sol, mixed into Main.*)
(*                                                                         *)
(* A freeze lasts until unfreezeAt.  Only the distance of unfreezeAt from  *)
(* block.timestamp matters to the code, so the state is the time left,     *)
(* thawsIn == max(0, unfreezeAt - now), and time itself is unbounded.      *)
(* AccessControlUpgradeable is an external library.                        *)
(***************************************************************************)
EXTENDS Integers, FiniteSets, Functions

CONSTANTS
    Accounts,
    Deployer,               \* the caller of __Auth_init()
    LONG_FREEZE_CHARGES,
    MAX_SHORT_FREEZE,
    MAX_LONG_FREEZE,
    MAX_UNFREEZE_AT,        \* the freeze that does not thaw
    ShortFreezes, LongFreezes  \* the durations governance may set

OWNER == "OWNER"
SHORT_FREEZER == "SHORT_FREEZER"
LONG_FREEZER == "LONG_FREEZER"
PAUSER == "PAUSER"
Roles == {OWNER, SHORT_FREEZER, LONG_FREEZER, PAUSER}

ASSUME AccountAssumption == Deployer \in Accounts
ASSUME DurationAssumption ==
    /\ LONG_FREEZE_CHARGES \in Nat \ {0}
    /\ MAX_SHORT_FREEZE \in Nat /\ MAX_LONG_FREEZE \in Nat
    /\ MAX_UNFREEZE_AT \in Nat
    /\ MAX_SHORT_FREEZE < MAX_UNFREEZE_AT /\ MAX_LONG_FREEZE < MAX_UNFREEZE_AT
    /\ ShortFreezes \subseteq Nat /\ LongFreezes \subseteq Nat

VARIABLES
    roles,        \* role -> the accounts that have it
    longFreezes,  \* account -> long freezes left
    thawsIn,      \* time until unfreezeAt, or MAX_UNFREEZE_AT
    shortFreeze, longFreeze,
    paused

vars == <<roles, longFreezes, thawsIn, shortFreeze, longFreeze, paused>>

hasRole(role, account) == account \in roles[role]
frozen == thawsIn > 0
pausedOrFrozen == paused \/ frozen

validShortFreeze(d) == d > 0 /\ d <= MAX_SHORT_FREEZE
validLongFreeze(d)  == d > 0 /\ d <= MAX_LONG_FREEZE

Init ==
    /\ roles = [r \in Roles |-> {Deployer}]
    /\ longFreezes = [a \in Accounts |-> IF a = Deployer THEN LONG_FREEZE_CHARGES ELSE 0]
    /\ shortFreeze \in {d \in ShortFreezes : validShortFreeze(d)}
    /\ longFreeze \in {d \in LongFreezes : validLongFreeze(d)}
    /\ thawsIn = 0
    /\ paused = FALSE

----------------------------------------------------------------------
\* Roles; OWNER is the admin of every role.

grantRole(caller, role, account) ==
    /\ hasRole(OWNER, caller)
    /\ roles' = [roles EXCEPT ![role] = @ \cup {account}]
    /\ longFreezes' = IF role = LONG_FREEZER
                      THEN [longFreezes EXCEPT ![account] = LONG_FREEZE_CHARGES]
                      ELSE longFreezes
    /\ UNCHANGED <<thawsIn, shortFreeze, longFreeze, paused>>

\* AccessControlUpgradeable: revokeRole and renounceRole leave longFreezes alone.
revokeRole(caller, role, account) ==
    /\ hasRole(OWNER, caller)
    /\ roles' = [roles EXCEPT ![role] = @ \ {account}]
    /\ UNCHANGED <<longFreezes, thawsIn, shortFreeze, longFreeze, paused>>

renounceRole(caller, role) ==
    /\ roles' = [roles EXCEPT ![role] = @ \ {caller}]
    /\ UNCHANGED <<longFreezes, thawsIn, shortFreeze, longFreeze, paused>>

----------------------------------------------------------------------
\* Freezing

\* A freeze must end later than the current one, or the call reverts.
freezeUntil(duration) ==
    /\ duration > thawsIn
    /\ thawsIn' = duration

freezeShort(caller) ==
    /\ hasRole(SHORT_FREEZER, caller)
    /\ roles' = [roles EXCEPT ![SHORT_FREEZER] = @ \ {caller}]
    /\ freezeUntil(shortFreeze)
    /\ UNCHANGED <<longFreezes, shortFreeze, longFreeze, paused>>

freezeLong_KeepCharges(caller) ==                                \* mutant
    /\ hasRole(LONG_FREEZER, caller) /\ longFreezes[caller] > 0
    /\ freezeUntil(longFreeze)
    /\ UNCHANGED <<roles, longFreezes, shortFreeze, longFreeze, paused>>
freezeLong(caller) ==
    /\ hasRole(LONG_FREEZER, caller)
    /\ longFreezes[caller] > 0          \* checked subtraction
    /\ longFreezes' = [longFreezes EXCEPT ![caller] = @ - 1]
    /\ roles' = IF longFreezes'[caller] = 0
                THEN [roles EXCEPT ![LONG_FREEZER] = @ \ {caller}] ELSE roles
    /\ freezeUntil(longFreeze)
    /\ UNCHANGED <<shortFreeze, longFreeze, paused>>

freezeForever_AnyFreezer(caller) ==                              \* mutant
    /\ hasRole(LONG_FREEZER, caller)
    /\ freezeUntil(MAX_UNFREEZE_AT)
    /\ UNCHANGED <<roles, longFreezes, shortFreeze, longFreeze, paused>>
freezeForever(caller) ==
    /\ hasRole(OWNER, caller)
    /\ freezeUntil(MAX_UNFREEZE_AT)
    /\ UNCHANGED <<roles, longFreezes, shortFreeze, longFreeze, paused>>

unfreeze(caller) ==
    /\ hasRole(OWNER, caller)
    /\ thawsIn' = 0
    /\ UNCHANGED <<roles, longFreezes, shortFreeze, longFreeze, paused>>

----------------------------------------------------------------------
\* Pausing and parameters

setPaused(caller, val) ==
    /\ hasRole(PAUSER, caller)
    /\ paused' = val
    /\ UNCHANGED <<roles, longFreezes, thawsIn, shortFreeze, longFreeze>>

setShortFreeze(caller, d) ==
    /\ hasRole(OWNER, caller) /\ validShortFreeze(d)
    /\ shortFreeze' = d
    /\ UNCHANGED <<roles, longFreezes, thawsIn, longFreeze, paused>>

setLongFreeze(caller, d) ==
    /\ hasRole(OWNER, caller) /\ validLongFreeze(d)
    /\ longFreeze' = d
    /\ UNCHANGED <<roles, longFreezes, thawsIn, shortFreeze, paused>>

\* One second passes during a freeze that thaws on its own.
Tick ==
    /\ thawsIn \in 1 .. MAX_UNFREEZE_AT - 1
    /\ thawsIn' = thawsIn - 1
    /\ UNCHANGED <<roles, longFreezes, shortFreeze, longFreeze, paused>>

Next ==
    \/ \E c \in Accounts :
          \/ \E r \in Roles, a \in Accounts : grantRole(c, r, a) \/ revokeRole(c, r, a)
          \/ \E r \in Roles : renounceRole(c, r)
          \/ freezeShort(c)
          \/ freezeLong(c)
          \/ freezeForever(c)
          \/ unfreeze(c)
          \/ \E b \in BOOLEAN : setPaused(c, b)
          \/ \E d \in ShortFreezes : setShortFreeze(c, d)
          \/ \E d \in LongFreezes : setLongFreeze(c, d)
    \/ Tick

Spec == Init /\ [][Next]_vars

\* Time passes; nobody is obliged to call anything.
FairSpec == Spec /\ WF_vars(Tick)

----------------------------------------------------------------------
\* Properties

\* Types; a freeze that is not for ever is no longer than the longest duration.
TypeOK ==
    /\ roles \in [Roles -> SUBSET Accounts]
    /\ longFreezes \in [Accounts -> 0 .. LONG_FREEZE_CHARGES]
    /\ thawsIn \in Nat
    /\ thawsIn = MAX_UNFREEZE_AT \/ thawsIn <= MAX_SHORT_FREEZE \/ thawsIn <= MAX_LONG_FREEZE
    /\ validShortFreeze(shortFreeze) /\ shortFreeze \in Nat
    /\ validLongFreeze(longFreeze) /\ longFreeze \in Nat
    /\ paused \in BOOLEAN

\* An account with the LONG_FREEZER role has a charge left, whatever the order of
\* grants, re-grants, revocations and freezes: freezeLong() never underflows.
FreezersHaveCharges == \A a \in roles[LONG_FREEZER] : longFreezes[a] > 0

\* Without an owner no role is gained, no charge is refilled, no parameter moves
\* and no freeze becomes permanent.
NoPowerWithoutOwner ==
    [][roles[OWNER] = {} =>
         /\ \A r \in Roles : roles'[r] \subseteq roles[r]
         /\ \A a \in Accounts : longFreezes'[a] <= longFreezes[a]
         /\ thawsIn' = MAX_UNFREEZE_AT => thawsIn = MAX_UNFREEZE_AT
         /\ UNCHANGED <<shortFreeze, longFreeze>>]_vars

\* "Typically freezing thaws on its own": without an owner, whatever the freezers
\* do, the system ends up unfrozen for good, unless it was frozen for ever.
ThawsOnItsOwn == (roles[OWNER] = {} /\ thawsIn # MAX_UNFREEZE_AT) ~> [](~frozen)

======================================================================
