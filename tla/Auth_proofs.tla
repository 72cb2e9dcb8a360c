------------------------- MODULE Auth_proofs -------------------------
(***************************************************************************)
(* Proofs about Auth: types, the charges behind the LONG_FREEZER role, and *)
(* what cannot happen once no account is an owner.                         *)
(***************************************************************************)
EXTENDS Auth, TLAPS

IInv == TypeOK /\ FreezersHaveCharges

\* The invariant of the initial state.
LEMMA InitIInv == Init => IInv
<1> SUFFICES ASSUME Init PROVE IInv
  OBVIOUS
<1>1. TypeOK
  <2>1. /\ roles \in [Roles -> SUBSET Accounts]
        /\ longFreezes \in [Accounts -> 0 .. LONG_FREEZE_CHARGES]
    BY AccountAssumption, DurationAssumption DEF Init
  <2>2. /\ validShortFreeze(shortFreeze) /\ shortFreeze \in Nat
        /\ validLongFreeze(longFreeze) /\ longFreeze \in Nat
    BY DurationAssumption DEF Init
  <2>3. thawsIn = 0 /\ paused = FALSE
    BY DEF Init
  <2>4. thawsIn \in Nat /\ thawsIn <= MAX_SHORT_FREEZE
    BY <2>3, DurationAssumption
  <2>5. paused \in BOOLEAN
    BY <2>3
  <2> QED BY <2>1, <2>2, <2>4, <2>5 DEF TypeOK
<1>2. FreezersHaveCharges
  <2> SUFFICES ASSUME NEW a \in roles[LONG_FREEZER] PROVE longFreezes[a] > 0
    BY DEF FreezersHaveCharges
  <2>1. a = Deployer
    BY DEF Init, Roles
  <2> QED BY <2>1, AccountAssumption, DurationAssumption DEF Init
<1> QED BY <1>1, <1>2 DEF IInv

\* Granting and giving up roles: a grant of LONG_FREEZER refills the charges.
LEMMA RoleStep ==
    ASSUME IInv, NEW c \in Accounts, NEW r \in Roles, NEW a \in Accounts,
           grantRole(c, r, a) \/ revokeRole(c, r, a) \/ renounceRole(c, r)
    PROVE  IInv'
<1> USE DEF IInv, TypeOK, FreezersHaveCharges, validShortFreeze, validLongFreeze
<1>0. LONG_FREEZE_CHARGES \in Nat \ {0} /\ LONG_FREEZER \in Roles
  BY DurationAssumption DEF Roles
<1>1. CASE grantRole(c, r, a)
  <2>1. TypeOK'
    BY <1>0, <1>1 DEF grantRole
  <2>2. ASSUME NEW b \in roles'[LONG_FREEZER] PROVE longFreezes'[b] > 0
    <3>1. CASE r = LONG_FREEZER /\ b = a
      BY <1>0, <1>1, <3>1 DEF grantRole
    <3>2. CASE ~(r = LONG_FREEZER /\ b = a)
      <4>1. b \in roles[LONG_FREEZER] /\ b \in Accounts
        BY <1>0, <1>1, <2>2, <3>2 DEF grantRole
      <4>2. longFreezes'[b] = longFreezes[b]
        BY <1>1, <3>2, <4>1 DEF grantRole
      <4> QED BY <4>1, <4>2
    <3> QED BY <3>1, <3>2
  <2> QED BY <2>1, <2>2
<1>2. CASE revokeRole(c, r, a)
  BY <1>0, <1>2 DEF revokeRole
<1>3. CASE renounceRole(c, r)
  BY <1>0, <1>3 DEF renounceRole
<1> QED BY <1>1, <1>2, <1>3

\* Freezing: the role goes with the last charge.
LEMMA FreezeStep ==
    ASSUME IInv, NEW c \in Accounts,
           freezeShort(c) \/ freezeLong(c) \/ freezeForever(c) \/ unfreeze(c)
    PROVE  IInv'
<1> USE DEF IInv, TypeOK, FreezersHaveCharges, validShortFreeze, validLongFreeze, freezeUntil
<1>0. LONG_FREEZER \in Roles /\ SHORT_FREEZER \in Roles /\ LONG_FREEZER # SHORT_FREEZER
      /\ LONG_FREEZE_CHARGES \in Nat /\ MAX_UNFREEZE_AT \in Nat
  BY DurationAssumption DEF Roles, LONG_FREEZER, SHORT_FREEZER
<1>1. CASE freezeShort(c)
  BY <1>0, <1>1 DEF freezeShort
<1>2. CASE freezeLong(c)
  <2>1. /\ longFreezes[c] \in 1 .. LONG_FREEZE_CHARGES
        /\ longFreezes' = [longFreezes EXCEPT ![c] = @ - 1]
        /\ longFreezes'[c] = longFreezes[c] - 1
    BY <1>0, <1>2 DEF freezeLong
  <2>2. longFreezes' \in [Accounts -> 0 .. LONG_FREEZE_CHARGES]
    BY <1>0, <2>1
  <2>3. /\ roles' \in [Roles -> SUBSET Accounts]
        /\ roles'[LONG_FREEZER] = IF longFreezes'[c] = 0
                                  THEN roles[LONG_FREEZER] \ {c} ELSE roles[LONG_FREEZER]
    BY <1>0, <1>2 DEF freezeLong
  <2>4. ASSUME NEW b \in roles'[LONG_FREEZER] PROVE longFreezes'[b] > 0
    <3>1. b \in roles[LONG_FREEZER] /\ b \in Accounts
      BY <1>0, <2>3
    <3>2. CASE b = c
      BY <1>0, <2>1, <2>2, <2>3, <3>2
    <3>3. CASE b # c
      BY <2>1, <3>1, <3>3
    <3> QED BY <3>2, <3>3
  <2>5. thawsIn' = longFreeze /\ UNCHANGED <<shortFreeze, longFreeze, paused>>
    BY <1>2 DEF freezeLong
  <2> QED BY <2>2, <2>3, <2>4, <2>5
<1>3. CASE freezeForever(c)
  BY <1>0, <1>3 DEF freezeForever
<1>4. CASE unfreeze(c)
  BY <1>0, <1>4, DurationAssumption DEF unfreeze
<1> QED BY <1>1, <1>2, <1>3, <1>4

\* The invariant through pausing, the lengths of freezes and the clock.
LEMMA OtherStep ==
    ASSUME IInv,
           \/ \E c \in Accounts :
                 \/ \E b \in BOOLEAN : setPaused(c, b)
                 \/ \E d \in ShortFreezes : setShortFreeze(c, d)
                 \/ \E d \in LongFreezes : setLongFreeze(c, d)
           \/ Tick
           \/ UNCHANGED vars
    PROVE  IInv'
<1> USE DEF IInv, TypeOK, FreezersHaveCharges
<1>1. CASE \E c \in Accounts : \E b \in BOOLEAN : setPaused(c, b)
  BY <1>1 DEF setPaused
<1>2. CASE \E c \in Accounts : \E d \in ShortFreezes : setShortFreeze(c, d)
  BY <1>2, DurationAssumption DEF setShortFreeze
<1>3. CASE \E c \in Accounts : \E d \in LongFreezes : setLongFreeze(c, d)
  BY <1>3, DurationAssumption DEF setLongFreeze
<1>4. CASE Tick
  BY <1>4, DurationAssumption DEF Tick
<1>5. CASE UNCHANGED vars
  BY <1>5 DEF vars
<1> QED BY <1>1, <1>2, <1>3, <1>4, <1>5

\* The invariant through every step.
LEMMA NextIInv == IInv /\ [Next]_vars => IInv'
<1> SUFFICES ASSUME IInv, [Next]_vars PROVE IInv'
  OBVIOUS
<1>1. CASE \E c \in Accounts : \E r \in Roles, a \in Accounts :
              grantRole(c, r, a) \/ revokeRole(c, r, a)
  BY <1>1, RoleStep
<1>2. CASE \E c \in Accounts : \E r \in Roles : renounceRole(c, r)
  BY <1>2, RoleStep
<1>3. CASE \E c \in Accounts : freezeShort(c) \/ freezeLong(c) \/ freezeForever(c) \/ unfreeze(c)
  BY <1>3, FreezeStep
<1>4. CASE \/ \E c \in Accounts :
                 \/ \E b \in BOOLEAN : setPaused(c, b)
                 \/ \E d \in ShortFreezes : setShortFreeze(c, d)
                 \/ \E d \in LongFreezes : setLongFreeze(c, d)
           \/ Tick
           \/ UNCHANGED vars
  BY <1>4, OtherStep
<1> QED BY <1>1, <1>2, <1>3, <1>4 DEF Next

\* The invariant holds in every state.
LEMMA Invariance == Spec => []IInv
<1>1. Init => IInv
  BY InitIInv
<1>2. IInv /\ [Next]_vars => IInv'
  BY NextIInv
<1> QED BY <1>1, <1>2, PTL DEF Spec

\* Type correctness, with the bound on the length of a freeze.
THEOREM TypeCorrect == Spec => []TypeOK
<1>1. IInv => TypeOK
  BY DEF IInv
<1> QED BY <1>1, Invariance, PTL

\* freezeLong() never underflows: the role and the charges go together.
THEOREM FreezersAlwaysHaveCharges == Spec => []FreezersHaveCharges
<1>1. IInv => FreezersHaveCharges
  BY DEF IInv
<1> QED BY <1>1, Invariance, PTL

\* Once no account is an owner, no step gains a role or a charge, moves a
\* parameter or starts a permanent freeze.
THEOREM NoPowerEverWithoutOwner == Spec => NoPowerWithoutOwner
<1> DEFINE Powerless ==
             roles[OWNER] = {} =>
               /\ \A r \in Roles : roles'[r] \subseteq roles[r]
               /\ \A a \in Accounts : longFreezes'[a] <= longFreezes[a]
               /\ thawsIn' = MAX_UNFREEZE_AT => thawsIn = MAX_UNFREEZE_AT
               /\ UNCHANGED <<shortFreeze, longFreeze>>
<1>1. TypeOK /\ [Next]_vars => [Powerless]_vars
  <2> SUFFICES ASSUME TypeOK, [Next]_vars, roles[OWNER] = {}
               PROVE  /\ \A r \in Roles : roles'[r] \subseteq roles[r]
                      /\ \A a \in Accounts : longFreezes'[a] <= longFreezes[a]
                      /\ thawsIn' = MAX_UNFREEZE_AT => thawsIn = MAX_UNFREEZE_AT
                      /\ UNCHANGED <<shortFreeze, longFreeze>>
    OBVIOUS
  <2> USE DEF TypeOK, hasRole, freezeUntil, validShortFreeze, validLongFreeze
  <2>0. /\ \A a \in Accounts : longFreezes[a] \in Nat
        /\ MAX_UNFREEZE_AT \in Nat /\ LONG_FREEZE_CHARGES \in Nat
        /\ shortFreeze < MAX_UNFREEZE_AT /\ longFreeze < MAX_UNFREEZE_AT
    BY DurationAssumption
  <2>1. CASE \E c \in Accounts, r \in Roles : renounceRole(c, r)
    BY <2>0, <2>1 DEF renounceRole
  <2>2. CASE \E c \in Accounts : freezeShort(c)
    BY <2>0, <2>2 DEF freezeShort
  <2>3. CASE \E c \in Accounts : freezeLong(c)
    <3>1. PICK c \in Accounts : freezeLong(c)
      BY <2>3
    <3>2. \A r \in Roles : roles'[r] \subseteq roles[r]
      BY <3>1 DEF freezeLong
    <3>3. \A a \in Accounts : longFreezes'[a] <= longFreezes[a]
      BY <2>0, <3>1 DEF freezeLong
    <3>4. thawsIn' # MAX_UNFREEZE_AT /\ UNCHANGED <<shortFreeze, longFreeze>>
      BY <2>0, <3>1 DEF freezeLong
    <3> QED BY <3>2, <3>3, <3>4
  <2>4. CASE \E c \in Accounts : \E b \in BOOLEAN : setPaused(c, b)
    BY <2>0, <2>4 DEF setPaused
  <2>5. CASE Tick
    BY <2>0, <2>5 DEF Tick
  <2>6. CASE UNCHANGED vars
    BY <2>0, <2>6 DEF vars
  <2>7. ~ \E c \in Accounts :
            \/ \E r \in Roles, a \in Accounts : grantRole(c, r, a) \/ revokeRole(c, r, a)
            \/ freezeForever(c) \/ unfreeze(c)
            \/ \E d \in ShortFreezes : setShortFreeze(c, d)
            \/ \E d \in LongFreezes : setLongFreeze(c, d)
    BY DEF grantRole, revokeRole, freezeForever, unfreeze, setShortFreeze, setLongFreeze
  <2> QED BY <2>1, <2>2, <2>3, <2>4, <2>5, <2>6, <2>7 DEF Next
<1> QED BY <1>1, TypeCorrect, PTL DEF Spec, NoPowerWithoutOwner
======================================================================
