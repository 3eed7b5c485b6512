------------------------- MODULE KafkaDriverProofs -------------------------
(***************************************************************************)
(* Proofs about KafkaDriver, for any number of users, drivers and          *)
(* transactions.  Two inductive invariants: UserInv ties the reference     *)
(* counts of the users to the transactions that hold them, which keeps the *)
(* contexts of open transactions alive; SharedInv, on top of it, ties      *)
(* kafka_global to the contexts.                                           *)
(***************************************************************************)
EXTENDS KafkaDriver, FiniteSetTheorems, TLAPS

\* A user's reference count is the number of driver transactions holding it,
\* plus one for its session.
RefsExact ==
    \A u \in Users :
        refs[u] = Cardinality(Holders(u)) + (IF ustate[u] = "live" THEN 1 ELSE 0)

\* At most one user is inside its deinit: the one on the call stack.
ClosingExact == \A u \in Users : ustate[u] = "closing" <=> closing = u

\* Nobody holds a user before it is created or once its deinit has begun.
UnheldUsers ==
    \A u \in Users : ustate[u] \in {"new", "closing", "freed"} => Holders(u) = {}

OpenTxnContext == \A t \in Txns : txn[t] = "open" => cstate[DuserOf[t]] = "live"

UserInv == TypeOK /\ RefsExact /\ ClosingExact /\ UnheldUsers /\ OpenTxnContext

\* Only an initialised context has a topic object.
TopicOfLiveContext == \A d \in Dusers : rkt[d] # 0 => cstate[d] = "live"

SharedInv ==
    /\ RefcountExact
    /\ TopicOfLiveProducer
    /\ TopicOfLiveContext
    /\ OneProducer
    /\ NoSharedStateFault

-----------------------------------------------------------------------------
(***************************************************************************)
(* The sets that are counted are finite.                                   *)
(***************************************************************************)
\* What a user's reference count counts.
LEMMA HoldersFinite ==
    ASSUME NEW u
    PROVE  IsFiniteSet(Holders(u)) /\ Cardinality(Holders(u)) \in Nat
<1>1. Holders(u) \in SUBSET Txns
  BY DEF Holders
<1>2. IsFiniteSet(Holders(u))
  BY <1>1, TxnsAssumption, FS_Subset
<1> QED
  BY <1>2, FS_CardinalityType

\* What kafka_global->refcount counts.
LEMMA LiveContextsFinite ==
    /\ IsFiniteSet(LiveContexts)
    /\ Cardinality(LiveContexts) \in Nat
    /\ Cardinality(LiveContexts) = 0 <=> LiveContexts = {}
<1>1. LiveContexts \in SUBSET Dusers
  BY DEF LiveContexts
<1>2. IsFiniteSet(LiveContexts)
  BY <1>1, DusersAssumption, FS_Subset
<1> QED
  BY <1>2, FS_CardinalityType, FS_EmptySet

-----------------------------------------------------------------------------
(***************************************************************************)
(* User references.                                                        *)
(***************************************************************************)
\* Initially no user exists and nothing is held.
LEMMA UserInvInit == Init => UserInv
<1> SUFFICES ASSUME Init PROVE UserInv
  OBVIOUS
<1>1. TypeOK
  BY DEF Init, TypeOK, UserStates, TxnStates
<1>2. \A u \in Users : Holders(u) = {}
  BY TxnsAssumption DEF Init, Holders
<1>3. RefsExact
  BY <1>2, FS_EmptySet DEF Init, RefsExact
<1>4. ClosingExact
  BY UsersAssumption DEF Init, ClosingExact
<1>5. UnheldUsers /\ OpenTxnContext
  BY <1>2 DEF Init, UnheldUsers, OpenTxnContext
<1> QED
  BY <1>1, <1>3, <1>4, <1>5 DEF UserInv

\* mail_user_unref, called by the session or by end_txn, keeps the counts exact
\* and enters deinit exactly when nobody holds the user any more.
LEMMA SessionReleasesUserInv ==
    ASSUME UserInv, NEW u \in Users, SessionReleases(u)
    PROVE  UserInv'
<1> USE DEF UserInv
<1>1. /\ refs' = [refs EXCEPT ![u] = refs[u] - 1]
      /\ ustate' = [ustate EXCEPT ![u] = IF refs[u] = 1 THEN "closing" ELSE "left"]
      /\ closing' = IF refs[u] = 1 THEN u ELSE closing
      /\ closing = NoUser
      /\ ustate[u] = "live"
      /\ txn' = txn /\ cstate' = cstate
  BY DEF SessionReleases, mail_user_unref, Running, ctxVars
<1>2. \A v : Holders(v)' = Holders(v)
  BY <1>1 DEF Holders
<1>3. refs[u] = Cardinality(Holders(u)) + 1
  BY <1>1 DEF RefsExact
<1>4. Cardinality(Holders(u)) \in Nat /\ IsFiniteSet(Holders(u))
  BY HoldersFinite
<1>5. refs[u] = 1 => Holders(u) = {}
  BY <1>3, <1>4, FS_EmptySet
<1>6. TypeOK'
  BY <1>1, <1>3, <1>4 DEF TypeOK, UserStates, SessionReleases, ctxVars, globalVars, rdVars
<1>7. RefsExact'
  <2> SUFFICES ASSUME NEW v \in Users
               PROVE  refs'[v] = Cardinality(Holders(v)) + (IF ustate'[v] = "live" THEN 1 ELSE 0)
    BY <1>2 DEF RefsExact
  <2>1. CASE v = u
    <3>1. refs'[u] = refs[u] - 1 /\ ustate'[u] # "live"
      BY <1>1 DEF TypeOK
    <3> QED
      BY <2>1, <3>1, <1>3, <1>4
  <2>2. CASE v # u
    <3>1. refs'[v] = refs[v] /\ ustate'[v] = ustate[v]
      BY <2>2, <1>1 DEF TypeOK
    <3> QED
      BY <3>1 DEF RefsExact
  <2> QED
    BY <2>1, <2>2
<1>8. ClosingExact'
  BY <1>1, UsersAssumption DEF ClosingExact, TypeOK
<1>9. UnheldUsers'
  BY <1>1, <1>2, <1>5 DEF UnheldUsers, TypeOK
<1>10. OpenTxnContext'
  BY <1>1 DEF OpenTxnContext
<1> QED
  BY <1>6, <1>7, <1>8, <1>9, <1>10

\* begin_txn adds itself to the holders, enabled or not.
LEMMA BeginTxnUserInv ==
    ASSUME UserInv, NEW t \in Txns, push_notification_driver_kafka_begin_txn(t)
    PROVE  UserInv'
<1> USE DEF UserInv
<1> DEFINE u == Owner[DuserOf[t]]
<1>1. u \in Users /\ DuserOf[t] \in Dusers
  BY DusersAssumption, TxnsAssumption
<1>2. /\ refs' = [refs EXCEPT ![u] = refs[u] + 1]
      /\ ustate' = ustate /\ closing' = closing /\ cstate' = cstate
      /\ txn[t] = "new" /\ ustate[u] = "live" /\ cstate[DuserOf[t]] = "live"
      /\ txn' = [txn EXCEPT ![t] = IF enabled[DuserOf[t]] THEN "open" ELSE "skipped"]
  BY DEF push_notification_driver_kafka_begin_txn, mail_user_ref, ctxVars
<1>3. Holders(u)' = Holders(u) \cup {t} /\ t \notin Holders(u)
  BY <1>2 DEF Holders, TypeOK
<1>4. \A v \in Users : v # u => Holders(v)' = Holders(v)
  BY <1>2 DEF Holders, TypeOK
<1>5. Cardinality(Holders(u)') = Cardinality(Holders(u)) + 1
  BY <1>3, HoldersFinite, FS_AddElement
<1>6. TypeOK'
  BY <1>1, <1>2 DEF TypeOK, TxnStates, push_notification_driver_kafka_begin_txn,
                    ctxVars, globalVars, rdVars
<1>7. RefsExact'
  <2> SUFFICES ASSUME NEW v \in Users
               PROVE  refs'[v] = Cardinality(Holders(v)') + (IF ustate[v] = "live" THEN 1 ELSE 0)
    BY <1>2 DEF RefsExact
  <2>1. CASE v = u
    <3>1. refs'[u] = refs[u] + 1
      BY <1>1, <1>2 DEF TypeOK
    <3>2. refs[u] = Cardinality(Holders(u)) + 1
      BY <1>1, <1>2 DEF RefsExact
    <3> QED
      BY <2>1, <3>1, <3>2, <1>2, <1>5
  <2>2. CASE v # u
    <3>1. refs'[v] = refs[v]
      BY <2>2, <1>2 DEF TypeOK
    <3> QED
      BY <3>1, <2>2, <1>4 DEF RefsExact
  <2> QED
    BY <2>1, <2>2
<1>8. ClosingExact'
  BY <1>2 DEF ClosingExact
<1>9. UnheldUsers'
  BY <1>2, <1>4 DEF UnheldUsers
<1>10. OpenTxnContext'
  BY <1>2 DEF OpenTxnContext, TypeOK
<1> QED
  BY <1>6, <1>7, <1>8, <1>9, <1>10

\* end_txn gives up exactly the reference its begin_txn took.
LEMMA EndTxnUserInv ==
    ASSUME UserInv, NEW t \in Txns, push_notification_driver_kafka_end_txn(t)
    PROVE  UserInv'
<1> USE DEF UserInv
<1> DEFINE u == Owner[DuserOf[t]]
<1>1. u \in Users /\ DuserOf[t] \in Dusers
  BY DusersAssumption, TxnsAssumption
<1>2. /\ refs' = [refs EXCEPT ![u] = refs[u] - 1]
      /\ ustate' = [ustate EXCEPT ![u] = IF refs[u] = 1 THEN "closing" ELSE ustate[u]]
      /\ closing' = IF refs[u] = 1 THEN u ELSE closing
      /\ closing = NoUser
      /\ cstate' = cstate
      /\ txn[t] = "open"
      /\ txn' = [txn EXCEPT ![t] = "ended"]
  BY DEF push_notification_driver_kafka_end_txn, mail_user_unref, Running, ctxVars
<1>3. Holders(u)' = Holders(u) \ {t} /\ t \in Holders(u)
  BY <1>2 DEF Holders, TypeOK
<1>4. \A v \in Users : v # u => Holders(v)' = Holders(v)
  BY <1>2 DEF Holders, TypeOK
<1>5. /\ Cardinality(Holders(u)') = Cardinality(Holders(u)) - 1
      /\ IsFiniteSet(Holders(u)')
      /\ Cardinality(Holders(u)') \in Nat
  BY <1>3, HoldersFinite, FS_RemoveElement, FS_CardinalityType
<1>6. refs[u] = Cardinality(Holders(u)') + 1 + (IF ustate[u] = "live" THEN 1 ELSE 0)
  BY <1>1, <1>5, HoldersFinite DEF RefsExact
<1>7. refs[u] = 1 => ustate[u] # "live" /\ Holders(u)' = {}
  BY <1>5, <1>6, FS_EmptySet
<1>8. TypeOK'
  BY <1>1, <1>2, <1>5, <1>6 DEF TypeOK, UserStates, TxnStates,
        push_notification_driver_kafka_end_txn, ctxVars, globalVars, rdVars
<1>9. RefsExact'
  <2> SUFFICES ASSUME NEW v \in Users
               PROVE  refs'[v] = Cardinality(Holders(v)') + (IF ustate'[v] = "live" THEN 1 ELSE 0)
    BY DEF RefsExact
  <2>1. CASE v = u
    <3>1. refs'[u] = refs[u] - 1 /\ (ustate'[u] = "live" <=> ustate[u] = "live")
      BY <1>1, <1>2, <1>7 DEF TypeOK
    <3> QED
      BY <2>1, <3>1, <1>5, <1>6
  <2>2. CASE v # u
    <3>1. refs'[v] = refs[v] /\ ustate'[v] = ustate[v]
      BY <2>2, <1>2 DEF TypeOK
    <3> QED
      BY <3>1, <2>2, <1>4 DEF RefsExact
  <2> QED
    BY <2>1, <2>2
<1>10. ustate[u] \notin {"new", "closing", "freed"}
  BY <1>1, <1>3 DEF UnheldUsers
<1>11. ClosingExact'
  BY <1>1, <1>2, <1>10, UsersAssumption DEF ClosingExact, TypeOK
<1>12. UnheldUsers'
  BY <1>1, <1>2, <1>4, <1>7, <1>10 DEF UnheldUsers, TypeOK
<1>13. OpenTxnContext'
  BY <1>2 DEF OpenTxnContext, TypeOK
<1> QED
  BY <1>8, <1>9, <1>11, <1>12, <1>13

\* An action that leaves the users and the transactions alone only has to keep
\* the contexts of open transactions.
LEMMA UserVarsUnchanged ==
    ASSUME UserInv, UNCHANGED <<ustate, refs, closing, txn>>, TypeOK', OpenTxnContext'
    PROVE  UserInv'
<1>1. \A v : Holders(v)' = Holders(v)
  BY DEF Holders
<1>2. RefsExact'
  BY <1>1 DEF UserInv, RefsExact
<1>3. ClosingExact'
  BY DEF UserInv, ClosingExact
<1>4. UnheldUsers'
  BY <1>1 DEF UserInv, UnheldUsers
<1> QED
  BY <1>2, <1>3, <1>4 DEF UserInv

\* A created user is held by its session only.
LEMMA UserCreatedUserInv ==
    ASSUME UserInv, NEW u \in Users, UserCreated(u)
    PROVE  UserInv'
<1> USE DEF UserInv
<1>1. /\ refs' = [refs EXCEPT ![u] = 1]
      /\ ustate' = [ustate EXCEPT ![u] = "live"]
      /\ ustate[u] = "new" /\ closing = NoUser /\ closing' = NoUser
      /\ txn' = txn /\ cstate' = cstate
  BY DEF UserCreated, Running, ctxVars
<1>2. \A v : Holders(v)' = Holders(v)
  BY <1>1 DEF Holders
<1>3. Cardinality(Holders(u)) = 0
  BY <1>1, FS_EmptySet DEF UnheldUsers
<1>4. TypeOK'
  BY <1>1 DEF TypeOK, UserStates, UserCreated, ctxVars, globalVars, rdVars
<1>5. RefsExact'
  <2> SUFFICES ASSUME NEW v \in Users
               PROVE  refs'[v] = Cardinality(Holders(v)) + (IF ustate'[v] = "live" THEN 1 ELSE 0)
    BY <1>2 DEF RefsExact
  <2>1. CASE v = u
    BY <2>1, <1>1, <1>3 DEF TypeOK
  <2>2. CASE v # u
    <3>1. refs'[v] = refs[v] /\ ustate'[v] = ustate[v]
      BY <2>2, <1>1 DEF TypeOK
    <3> QED
      BY <3>1 DEF RefsExact
  <2> QED
    BY <2>1, <2>2
<1>6. ClosingExact'
  BY <1>1, UsersAssumption DEF ClosingExact, TypeOK
<1>7. UnheldUsers'
  BY <1>1, <1>2 DEF UnheldUsers, TypeOK
<1>8. OpenTxnContext'
  BY <1>1 DEF OpenTxnContext
<1> QED
  BY <1>4, <1>5, <1>6, <1>7, <1>8

\* The user that is freed is the one whose deinit was on the call stack.
LEMMA UserFreedUserInv ==
    ASSUME UserInv, NEW u \in Users, UserFreed(u)
    PROVE  UserInv'
<1> USE DEF UserInv
<1>1. /\ refs' = refs
      /\ ustate' = [ustate EXCEPT ![u] = "freed"]
      /\ closing = u /\ closing' = NoUser
      /\ txn' = txn /\ cstate' = cstate
  BY DEF UserFreed, ctxVars
<1>2. \A v : Holders(v)' = Holders(v)
  BY <1>1 DEF Holders
<1>3. ustate[u] = "closing"
  BY <1>1 DEF ClosingExact
<1>4. TypeOK'
  BY <1>1 DEF TypeOK, UserStates, UserFreed, ctxVars, globalVars, rdVars
<1>5. RefsExact'
  <2> SUFFICES ASSUME NEW v \in Users
               PROVE  refs[v] = Cardinality(Holders(v)) + (IF ustate'[v] = "live" THEN 1 ELSE 0)
    BY <1>1, <1>2 DEF RefsExact
  <2>1. ustate'[v] = "live" <=> ustate[v] = "live"
    BY <1>1, <1>3 DEF TypeOK
  <2> QED
    BY <2>1 DEF RefsExact
<1>6. ClosingExact'
  BY <1>1, UsersAssumption DEF ClosingExact, TypeOK
<1>7. UnheldUsers'
  BY <1>1, <1>2, <1>3 DEF UnheldUsers, TypeOK
<1>8. OpenTxnContext'
  BY <1>1 DEF OpenTxnContext
<1> QED
  BY <1>4, <1>5, <1>6, <1>7, <1>8

\* deinit frees the context of a user nobody holds: no transaction on it is open.
LEMMA DeinitUserInv ==
    ASSUME UserInv, NEW d \in Dusers, push_notification_driver_kafka_deinit(d)
    PROVE  UserInv'
<1> USE DEF UserInv
<1>1. /\ UNCHANGED <<ustate, refs, closing, txn>>
      /\ cstate' = [cstate EXCEPT ![d] = "freed"]
      /\ closing = Owner[d]
  BY DEF push_notification_driver_kafka_deinit
<1>2. Holders(Owner[d]) = {}
  BY <1>1, DusersAssumption DEF ClosingExact, UnheldUsers
<1>3. \A t \in Txns : txn[t] = "open" => DuserOf[t] # d
  BY <1>2 DEF Holders
<1>4. OpenTxnContext'
  BY <1>1, <1>3, TxnsAssumption DEF OpenTxnContext, TypeOK
<1>5. TypeOK'
  BY DusersAssumption DEF TypeOK, Faults, push_notification_driver_kafka_deinit,
        push_notification_driver_kafka_deinit_topic, rdVars
<1> QED
  BY <1>1, <1>4, <1>5, UserVarsUnchanged

\* Every step keeps the references on users exact.
LEMMA UserInvNext == UserInv /\ [Next]_vars => UserInv'
<1> SUFFICES ASSUME UserInv, [Next]_vars PROVE UserInv'
  OBVIOUS
<1> USE DEF UserInv
<1>1. CASE push_notification_kafka_plugin_init
  <2>1. TypeOK' /\ OpenTxnContext' /\ UNCHANGED <<ustate, refs, closing, txn>>
    BY <1>1 DEF TypeOK, OpenTxnContext, push_notification_kafka_plugin_init,
                userVars, ctxVars, globalVars, rdVars
  <2> QED
    BY <2>1, UserVarsUnchanged
<1>2. CASE push_notification_kafka_plugin_deinit
  <2>1. TypeOK' /\ OpenTxnContext' /\ UNCHANGED <<ustate, refs, closing, txn>>
    BY <1>2 DEF TypeOK, OpenTxnContext, push_notification_kafka_plugin_deinit,
                userVars, ctxVars, globalVars, rdVars
  <2> QED
    BY <2>1, UserVarsUnchanged
<1>3. ASSUME NEW u \in Users, UserCreated(u) \/ SessionReleases(u) \/ UserFreed(u)
      PROVE  UserInv'
  BY <1>3, UserCreatedUserInv, SessionReleasesUserInv, UserFreedUserInv
<1>4. ASSUME NEW d \in Dusers, push_notification_driver_kafka_init(d)
      PROVE  UserInv'
  <2>3. enabled' \in [Dusers -> BOOLEAN]
    <3>1. PICK e \in EnabledValues : enabled' = [enabled EXCEPT ![d] = e]
      BY <1>4 DEF push_notification_driver_kafka_init
    <3>2. e \in BOOLEAN
      BY EnabledAssumption
    <3>3. enabled \in [Dusers -> BOOLEAN]
      BY DEF TypeOK
    <3> QED
      BY <3>1, <3>2, <3>3, Zenon
  <2>4. refcount' \in Nat /\ rk' \in Nat /\ guser' \in Users \cup {NoUser}
    <3>1. Owner[d] \in Users
      BY DusersAssumption
    <3>2. CASE kafka_global
      BY <1>4, <3>2 DEF TypeOK, push_notification_driver_kafka_init
    <3>3. CASE ~kafka_global
      BY <1>4, <3>1, <3>3 DEF TypeOK, push_notification_driver_kafka_init
    <3> QED
      BY <3>2, <3>3
  <2>5. cstate' \in [Dusers -> {"none", "live", "freed"}] /\ kafka_global' \in BOOLEAN
    BY <1>4 DEF TypeOK, push_notification_driver_kafka_init
  <2>1. TypeOK'
    BY <1>4, <2>3, <2>4, <2>5 DEF TypeOK, push_notification_driver_kafka_init, userVars, rdVars
  <2>2. OpenTxnContext' /\ UNCHANGED <<ustate, refs, closing, txn>>
    BY <1>4, TxnsAssumption
       DEF TypeOK, OpenTxnContext, push_notification_driver_kafka_init, userVars
  <2> QED
    BY <2>1, <2>2, UserVarsUnchanged
<1>5. ASSUME NEW d \in Dusers, push_notification_driver_kafka_deinit(d)
      PROVE  UserInv'
  BY <1>5, DeinitUserInv
<1>6. ASSUME NEW t \in Txns, push_notification_driver_kafka_begin_txn(t)
      PROVE  UserInv'
  BY <1>6, BeginTxnUserInv
<1>7. ASSUME NEW t \in Txns, push_notification_driver_kafka_send_to_kafka(t)
      PROVE  UserInv'
  <2>1. OpenTxnContext' /\ UNCHANGED <<ustate, refs, closing, txn>>
    BY <1>7 DEF OpenTxnContext, push_notification_driver_kafka_send_to_kafka, userVars
  <2>5. push_notification_driver_kafka_init_global
    BY <1>7 DEF push_notification_driver_kafka_send_to_kafka,
                push_notification_driver_kafka_init_topic
  <2>6. proc' = proc \/ proc' \in Faults
    BY <2>5 DEF Faults, push_notification_driver_kafka_init_global
  <2>7. \/ UNCHANGED <<rk, handles, alive>>
        \/ handles' = handles + 1 /\ rk' = handles + 1 /\ alive' = alive \cup {handles + 1}
    BY <2>5 DEF push_notification_driver_kafka_init_global
  <2>2. /\ rk' \in Nat /\ handles' \in Nat /\ alive' \in SUBSET Nat
        /\ proc' \in {"up"} \cup Faults
    <3>1. proc' \in {"up"} \cup Faults
      BY <2>6 DEF TypeOK
    <3>2. rk \in Nat /\ handles \in Nat /\ alive \in SUBSET Nat
      BY DEF TypeOK
    <3>3. handles + 1 \in Nat /\ alive \cup {handles + 1} \in SUBSET Nat
      BY <3>2
    <3> QED
      BY <2>7, <3>1, <3>2, <3>3
  <2>3. rkt' \in [Dusers -> Nat] /\ unflushed' \in SUBSET Txns
    BY <1>7, <2>2 DEF TypeOK, push_notification_driver_kafka_send_to_kafka,
                      push_notification_driver_kafka_init_topic
  <2>4. TypeOK'
    BY <1>7, <2>2, <2>3 DEF TypeOK, push_notification_driver_kafka_send_to_kafka, userVars
  <2> QED
    BY <2>1, <2>4, UserVarsUnchanged
<1>8. ASSUME NEW t \in Txns, push_notification_driver_kafka_end_txn(t)
      PROVE  UserInv'
  BY <1>8, EndTxnUserInv
<1>9. CASE push_notification_driver_kafka_cleanup
  <2>2. OpenTxnContext' /\ UNCHANGED <<ustate, refs, closing, txn>>
    BY <1>9 DEF OpenTxnContext, push_notification_driver_kafka_cleanup, ctxVars
  <2>3. /\ rk' \in Nat /\ alive' \in SUBSET Nat /\ unflushed' \in SUBSET Txns
        /\ guser' \in Users \cup {NoUser}
    <3>1. \/ UNCHANGED <<unflushed, alive, rk>>
          \/ unflushed' = {} /\ alive' = alive \ {rk} /\ rk' = 0
      BY <1>9 DEF push_notification_driver_kafka_cleanup,
                  push_notification_driver_kafka_deinit_global
    <3>2. guser' = guser \/ guser' = NoUser
      BY <1>9 DEF push_notification_driver_kafka_cleanup
    <3>3. /\ rk \in Nat /\ alive \in SUBSET Nat /\ unflushed \in SUBSET Txns
          /\ guser \in Users \cup {NoUser}
      BY DEF TypeOK
    <3>4. alive \ {rk} \in SUBSET Nat /\ {} \in SUBSET Txns
      BY <3>3
    <3>5. rk' \in Nat /\ alive' \in SUBSET Nat /\ unflushed' \in SUBSET Txns
      <4>1. CASE UNCHANGED <<unflushed, alive, rk>>
        BY <4>1, <3>3
      <4>2. CASE unflushed' = {} /\ alive' = alive \ {rk} /\ rk' = 0
        BY <4>2, <3>4
      <4> QED
        BY <3>1, <4>1, <4>2
    <3>6. guser' \in Users \cup {NoUser}
      BY <3>2, <3>3
    <3> QED
      BY <3>5, <3>6
  <2>4. kafka_global' = kafka_global \/ kafka_global' = FALSE
    BY <1>9 DEF push_notification_driver_kafka_cleanup
  <2>5. kafka_global' \in BOOLEAN
    BY <2>4 DEF TypeOK
  <2>1. TypeOK' /\ OpenTxnContext' /\ UNCHANGED <<ustate, refs, closing, txn>>
    BY <1>9, <2>2, <2>3, <2>5 DEF TypeOK, push_notification_driver_kafka_cleanup, ctxVars
  <2> QED
    BY <2>1, UserVarsUnchanged
<1>10. CASE UNCHANGED vars
  <2>1. TypeOK' /\ OpenTxnContext' /\ UNCHANGED <<ustate, refs, closing, txn>>
    BY <1>10 DEF TypeOK, OpenTxnContext, vars, userVars, ctxVars, globalVars, rdVars
  <2> QED
    BY <2>1, UserVarsUnchanged
<1> QED
  BY <1>1, <1>2, <1>3, <1>4, <1>5, <1>6, <1>7, <1>8, <1>9, <1>10 DEF Next, Finished

\* The references on users are exact in every reachable state.
THEOREM UserInvariant == Spec => []UserInv
<1>1. Init => UserInv
  BY UserInvInit
<1>2. UserInv /\ [Next]_vars => UserInv'
  BY UserInvNext
<1> QED
  BY <1>1, <1>2, PTL DEF Spec

\* Every variable keeps its type: in particular refcount never goes below zero.
THEOREM TypeCorrect == Spec => []TypeOK
<1>1. UserInv => TypeOK
  BY DEF UserInv
<1> QED
  BY <1>1, UserInvariant, PTL

\* While a transaction is open, its driver context and its user are alive, however
\* many sessions and transactions overlap.
THEOREM TxnPinsContext == Spec => []OpenTxnPinsContext
<1>1. UserInv => OpenTxnPinsContext
  <2> SUFFICES ASSUME UserInv, NEW t \in Txns, txn[t] = "open"
               PROVE  /\ cstate[DuserOf[t]] = "live"
                      /\ ustate[Owner[DuserOf[t]]] \in {"live", "left"}
    BY DEF OpenTxnPinsContext
  <2>1. Owner[DuserOf[t]] \in Users
    BY TxnsAssumption, DusersAssumption
  <2>2. t \in Holders(Owner[DuserOf[t]])
    BY DEF Holders
  <2>3. ustate[Owner[DuserOf[t]]] \in UserStates \ {"new", "closing", "freed"}
    BY <2>1, <2>2 DEF UserInv, UnheldUsers, TypeOK
  <2> QED
    BY <2>3 DEF UserInv, OpenTxnContext, UserStates
<1> QED
  BY <1>1, UserInvariant, PTL

-----------------------------------------------------------------------------
(***************************************************************************)
(* kafka_global, its producer and the topic objects.                       *)
(***************************************************************************)
\* Initially there is no context, no kafka_global and no producer.
LEMMA SharedInvInit == Init => SharedInv
<1> SUFFICES ASSUME Init PROVE SharedInv
  OBVIOUS
<1>1. LiveContexts = {}
  BY DEF Init, LiveContexts
<1>2. RefcountExact
  BY <1>1 DEF Init, RefcountExact
<1>3. TopicOfLiveProducer /\ TopicOfLiveContext
  BY DEF Init, TopicOfLiveProducer, TopicOfLiveContext
<1>4. OneProducer /\ NoSharedStateFault
  BY DEF Init, OneProducer, NoSharedStateFault
<1> QED
  BY <1>2, <1>3, <1>4 DEF SharedInv

\* A context in existence keeps kafka_global in existence.
LEMMA ContextPinsGlobal ==
    ASSUME SharedInv, NEW d \in Dusers, cstate[d] = "live"
    PROVE  kafka_global /\ refcount = Cardinality(LiveContexts) /\ refcount # 0
<1>1. d \in LiveContexts
  BY DEF LiveContexts
<1>2. kafka_global /\ refcount = Cardinality(LiveContexts)
  BY <1>1 DEF SharedInv, RefcountExact
<1> QED
  BY <1>1, <1>2, LiveContextsFinite

\* An action that touches neither the contexts nor the shared state.
LEMMA SharedVarsUnchanged ==
    ASSUME SharedInv, UNCHANGED <<proc, cstate, rkt, kafka_global, refcount, rk, alive>>
    PROVE  SharedInv'
<1>1. LiveContexts' = LiveContexts
  BY DEF LiveContexts
<1>2. RefcountExact'
  BY <1>1 DEF SharedInv, RefcountExact
<1>3. TopicOfLiveProducer' /\ TopicOfLiveContext'
  BY DEF SharedInv, TopicOfLiveProducer, TopicOfLiveContext
<1>4. OneProducer' /\ NoSharedStateFault'
  BY DEF SharedInv, OneProducer, NoSharedStateFault
<1> QED
  BY <1>2, <1>3, <1>4 DEF SharedInv

\* init adds one context and one reference; allocating kafka_global anew forgets
\* no producer, because there is none while kafka_global is NULL.
LEMMA InitSharedInv ==
    ASSUME UserInv, SharedInv, NEW d \in Dusers, push_notification_driver_kafka_init(d)
    PROVE  SharedInv' /\ rk' = rk
<1>1. /\ cstate[d] = "none" /\ cstate' = [cstate EXCEPT ![d] = "live"]
      /\ cstate \in [Dusers -> {"none", "live", "freed"}]
      /\ kafka_global' = TRUE
      /\ UNCHANGED <<proc, rkt, alive>>
  BY DEF push_notification_driver_kafka_init, rdVars, UserInv, TypeOK
<1>2. LiveContexts' = LiveContexts \cup {d} /\ d \notin LiveContexts
  BY <1>1 DEF LiveContexts
<1>3. Cardinality(LiveContexts') = Cardinality(LiveContexts) + 1
  BY <1>2, LiveContextsFinite, FS_AddElement
<1>4. rk' = rk /\ refcount' = Cardinality(LiveContexts) + 1
  <2>1. CASE kafka_global
    BY <2>1 DEF push_notification_driver_kafka_init, SharedInv, RefcountExact
  <2>2. CASE ~kafka_global
    <3>1. LiveContexts = {} /\ rk = 0
      BY <2>2 DEF SharedInv, RefcountExact
    <3>2. Cardinality(LiveContexts) = 0
      BY <3>1, LiveContextsFinite
    <3>3. rk' = 0 /\ refcount' = 1
      BY <2>2 DEF push_notification_driver_kafka_init
    <3> QED
      BY <3>1, <3>2, <3>3
  <2> QED
    BY <2>1, <2>2
<1>5. RefcountExact'
  BY <1>1, <1>3, <1>4 DEF RefcountExact
<1>6. TopicOfLiveProducer'
  BY <1>1, <1>4 DEF SharedInv, TopicOfLiveProducer
<1>7. TopicOfLiveContext'
  BY <1>1 DEF SharedInv, TopicOfLiveContext
<1>8. OneProducer' /\ NoSharedStateFault'
  BY <1>1, <1>4 DEF SharedInv, OneProducer, NoSharedStateFault
<1> QED
  BY <1>4, <1>5, <1>6, <1>7, <1>8 DEF SharedInv

\* deinit finds kafka_global with a positive refcount: neither the dereference in
\* deinit_topic nor the assertion fails.
LEMMA DeinitSharedInv ==
    ASSUME UserInv, SharedInv, NEW d \in Dusers, push_notification_driver_kafka_deinit(d)
    PROVE  SharedInv'
<1>1. /\ cstate[d] = "live" /\ cstate' = [cstate EXCEPT ![d] = "freed"]
      /\ cstate \in [Dusers -> {"none", "live", "freed"}]
      /\ rkt' = [rkt EXCEPT ![d] = 0] /\ rkt \in [Dusers -> Nat]
      /\ UNCHANGED <<kafka_global, rk, alive>>
  BY DEF push_notification_driver_kafka_deinit, push_notification_driver_kafka_deinit_topic,
         rdVars, UserInv, TypeOK
<1>2. kafka_global /\ refcount = Cardinality(LiveContexts) /\ refcount # 0
  BY <1>1, ContextPinsGlobal
<1>3. proc' = "up" /\ refcount' = refcount - 1
  BY <1>2 DEF push_notification_driver_kafka_deinit
<1>4. LiveContexts' = LiveContexts \ {d} /\ d \in LiveContexts
  BY <1>1 DEF LiveContexts
<1>5. Cardinality(LiveContexts') = Cardinality(LiveContexts) - 1
  BY <1>4, LiveContextsFinite, FS_RemoveElement
<1>6. RefcountExact'
  BY <1>1, <1>2, <1>3, <1>5 DEF RefcountExact
<1>7. TopicOfLiveProducer' /\ TopicOfLiveContext'
  BY <1>1 DEF SharedInv, TopicOfLiveProducer, TopicOfLiveContext
<1>8. OneProducer' /\ NoSharedStateFault'
  BY <1>1, <1>3 DEF SharedInv, OneProducer, NoSharedStateFault
<1> QED
  BY <1>6, <1>7, <1>8 DEF SharedInv

\* send_to_kafka runs for a live context, so kafka_global is there; a producer is
\* created only when there is none, and then no context has a topic object yet.
LEMMA SendSharedInv ==
    ASSUME UserInv, SharedInv, NEW t \in Txns, push_notification_driver_kafka_send_to_kafka(t)
    PROVE  SharedInv' /\ (rk # 0 => rk' = rk)
<1> DEFINE d == DuserOf[t]
<1>1. /\ d \in Dusers /\ cstate[d] = "live"
      /\ rkt \in [Dusers -> Nat] /\ rk \in Nat /\ handles \in Nat
      /\ UNCHANGED <<cstate, kafka_global, refcount>>
      /\ proc = "up"
  BY TxnsAssumption DEF push_notification_driver_kafka_send_to_kafka, Running,
                        UserInv, OpenTxnContext, TypeOK
<1>2. kafka_global
  BY <1>1, ContextPinsGlobal
<1>3. push_notification_driver_kafka_init_global
  BY DEF push_notification_driver_kafka_send_to_kafka, push_notification_driver_kafka_init_topic
<1>4. \/ UNCHANGED <<rk, alive>>
      \/ rk = 0 /\ rk' = handles + 1 /\ alive' = alive \cup {handles + 1}
  BY <1>3 DEF push_notification_driver_kafka_init_global
<1>5. NoSharedStateFault'
  BY <1>1, <1>2, <1>3 DEF NoSharedStateFault, push_notification_driver_kafka_init_global
<1>6. RefcountExact'
  <2>1. LiveContexts' = LiveContexts
    BY <1>1 DEF LiveContexts
  <2> QED
    BY <1>1, <1>2, <2>1 DEF SharedInv, RefcountExact
<1>7. OneProducer'
  <2>1. CASE UNCHANGED <<rk, alive>>
    BY <2>1 DEF SharedInv, OneProducer
  <2>2. CASE rk = 0 /\ rk' = handles + 1 /\ alive' = alive \cup {handles + 1}
    <3>1. alive = {} /\ rk' # 0
      BY <1>1, <2>2 DEF SharedInv, OneProducer
    <3> QED
      BY <2>2, <3>1 DEF OneProducer
  <2> QED
    BY <1>4, <2>1, <2>2
<1>8. rkt' = rkt \/ rkt' = [rkt EXCEPT ![d] = rk']
  BY DEF push_notification_driver_kafka_send_to_kafka, push_notification_driver_kafka_init_topic
<1>9. TopicOfLiveContext'
  BY <1>1, <1>8 DEF SharedInv, TopicOfLiveContext
<1>10. TopicOfLiveProducer'
  <2> SUFFICES ASSUME NEW e \in Dusers, rkt'[e] # 0
               PROVE  rkt'[e] = rk' /\ rkt'[e] \in alive'
    BY DEF TopicOfLiveProducer
  <2>1. rkt'[e] = rkt[e] \/ rkt'[e] = rk'
    BY <1>1, <1>8
  <2>2. CASE rkt'[e] = rkt[e]
    <3>1. rkt[e] = rk /\ rkt[e] \in alive /\ rk # 0
      BY <2>2 DEF SharedInv, TopicOfLiveProducer
    <3> QED
      BY <2>2, <3>1, <1>4
  <2>3. CASE rkt'[e] = rk'
    BY <2>3, <1>7 DEF OneProducer
  <2> QED
    BY <2>1, <2>2, <2>3
<1> QED
  BY <1>4, <1>5, <1>6, <1>7, <1>9, <1>10 DEF SharedInv

\* cleanup destroys the producer only for a refcount of zero: then no context is
\* left, so no topic object is either.
LEMMA CleanupSharedInv ==
    ASSUME UserInv, SharedInv, push_notification_driver_kafka_cleanup
    PROVE  SharedInv' /\ (rk # 0 /\ rk' = 0 => LiveContexts = {} /\ unflushed' = {})
<1>1. UNCHANGED <<proc, cstate, rkt, refcount>>
  BY DEF push_notification_driver_kafka_cleanup, ctxVars
<1>2. CASE ~Unused
  <2>1. UNCHANGED <<rk, alive, kafka_global>>
    BY <1>2 DEF push_notification_driver_kafka_cleanup
  <2> QED
    BY <1>1, <2>1, SharedVarsUnchanged
<1>3. CASE Unused
  <2>1. push_notification_driver_kafka_deinit_global /\ kafka_global' = FALSE
    BY <1>3 DEF push_notification_driver_kafka_cleanup
  <2>2. LiveContexts = {}
    BY <1>3, LiveContextsFinite DEF Unused, SharedInv, RefcountExact
  <2>3. rk' = 0 /\ alive' = {} /\ (rk # 0 => unflushed' = {})
    <3>1. CASE rk = 0
      BY <2>1, <3>1 DEF push_notification_driver_kafka_deinit_global, SharedInv, OneProducer
    <3>2. CASE rk # 0
      <4>1. alive = {rk}
        BY <3>2 DEF SharedInv, OneProducer
      <4>2. rk' = 0 /\ alive' = alive \ {rk} /\ unflushed' = {}
        BY <2>1, <3>2 DEF push_notification_driver_kafka_deinit_global
      <4> QED
        BY <4>1, <4>2
    <3> QED
      BY <3>1, <3>2
  <2>4. \A d \in Dusers : rkt[d] = 0
    BY <2>2 DEF LiveContexts, SharedInv, TopicOfLiveContext
  <2>5. RefcountExact'
    BY <1>1, <2>1, <2>2, <2>3 DEF RefcountExact, LiveContexts
  <2>6. TopicOfLiveProducer' /\ TopicOfLiveContext'
    BY <1>1, <2>4 DEF TopicOfLiveProducer, TopicOfLiveContext
  <2>7. OneProducer' /\ NoSharedStateFault'
    BY <1>1, <2>3 DEF SharedInv, OneProducer, NoSharedStateFault
  <2> QED
    BY <2>2, <2>3, <2>5, <2>6, <2>7 DEF SharedInv
<1> QED
  BY <1>2, <1>3

\* Every step keeps the shared state consistent, and gives up a producer only in
\* cleanup, with no context left and its messages flushed.
LEMMA SharedInvNext ==
    UserInv /\ SharedInv /\ [Next]_vars =>
        SharedInv' /\ (rk # 0 /\ rk' = 0 => LiveContexts = {} /\ unflushed' = {})
<1> SUFFICES ASSUME UserInv, SharedInv, [Next]_vars
             PROVE  SharedInv' /\ (rk # 0 /\ rk' = 0 => LiveContexts = {} /\ unflushed' = {})
  OBVIOUS
<1> DEFINE Same == UNCHANGED <<proc, cstate, rkt, kafka_global, refcount, rk, alive>>
<1>1. CASE push_notification_kafka_plugin_init
  <2>1. Same
    BY <1>1 DEF push_notification_kafka_plugin_init, ctxVars, globalVars, rdVars
  <2> QED
    BY <2>1, SharedVarsUnchanged
<1>2. CASE push_notification_kafka_plugin_deinit
  <2>1. Same
    BY <1>2 DEF push_notification_kafka_plugin_deinit, ctxVars, globalVars, rdVars
  <2> QED
    BY <2>1, SharedVarsUnchanged
<1>3. ASSUME NEW u \in Users, UserCreated(u) \/ SessionReleases(u) \/ UserFreed(u)
      PROVE  SharedInv' /\ rk' = rk
  <2>1. Same
    BY <1>3 DEF UserCreated, SessionReleases, UserFreed, ctxVars, globalVars, rdVars
  <2> QED
    BY <2>1, SharedVarsUnchanged
<1>4. ASSUME NEW d \in Dusers, push_notification_driver_kafka_init(d)
      PROVE  SharedInv' /\ rk' = rk
  BY <1>4, InitSharedInv
<1>5. ASSUME NEW d \in Dusers, push_notification_driver_kafka_deinit(d)
      PROVE  SharedInv' /\ rk' = rk
  BY <1>5, DeinitSharedInv DEF push_notification_driver_kafka_deinit
<1>6. ASSUME NEW t \in Txns,
             \/ push_notification_driver_kafka_begin_txn(t)
             \/ push_notification_driver_kafka_end_txn(t)
      PROVE  SharedInv' /\ rk' = rk
  <2>1. Same
    BY <1>6 DEF push_notification_driver_kafka_begin_txn,
                push_notification_driver_kafka_end_txn, ctxVars, globalVars, rdVars
  <2> QED
    BY <2>1, SharedVarsUnchanged
<1>7. ASSUME NEW t \in Txns, push_notification_driver_kafka_send_to_kafka(t)
      PROVE  SharedInv' /\ (rk # 0 => rk' = rk)
  BY <1>7, SendSharedInv
<1>8. CASE push_notification_driver_kafka_cleanup
  BY <1>8, CleanupSharedInv
<1>9. CASE UNCHANGED vars
  <2>1. Same
    BY <1>9 DEF vars, ctxVars, globalVars, rdVars
  <2> QED
    BY <2>1, SharedVarsUnchanged
<1> QED
  BY <1>1, <1>2, <1>3, <1>4, <1>5, <1>6, <1>7, <1>8, <1>9 DEF Next, Finished

\* The shared state is consistent in every reachable state.
THEOREM SharedInvariant == Spec => []SharedInv
<1>1. Init => SharedInv
  BY SharedInvInit
<1>2. UserInv /\ SharedInv /\ [Next]_vars => SharedInv'
  BY SharedInvNext
<1> QED
  BY <1>1, <1>2, UserInvariant, PTL DEF Spec

\* kafka_global->refcount is the number of driver contexts in existence.
THEOREM RefcountIsExact == Spec => []RefcountExact
<1>1. SharedInv => RefcountExact
  BY DEF SharedInv
<1> QED
  BY <1>1, SharedInvariant, PTL

\* No context keeps a topic object of a producer that was destroyed.
THEOREM TopicsBelongToProducer == Spec => []TopicOfLiveProducer
<1>1. SharedInv => TopicOfLiveProducer
  BY DEF SharedInv
<1> QED
  BY <1>1, SharedInvariant, PTL

\* There is never more than one producer, and none that is out of reach.
THEOREM ProducerIsUnique == Spec => []OneProducer
<1>1. SharedInv => OneProducer
  BY DEF SharedInv
<1> QED
  BY <1>1, SharedInvariant, PTL

\* The assertion in deinit holds and kafka_global is never NULL where it is used.
THEOREM SharedStateIsSafe == Spec => []NoSharedStateFault
<1>1. SharedInv => NoSharedStateFault
  BY DEF SharedInv
<1> QED
  BY <1>1, SharedInvariant, PTL

\* The producer is destroyed only with no context left, after a flush.
THEOREM ProducerOutlivesContexts == Spec => DestroyedOnlyWhenUnused
<1>1. UserInv /\ SharedInv /\ [Next]_vars =>
          [rk # 0 /\ rk' = 0 => LiveContexts = {} /\ unflushed' = {}]_vars
  BY SharedInvNext
<1> QED
  BY <1>1, UserInvariant, SharedInvariant, PTL DEF Spec, DestroyedOnlyWhenUnused

-----------------------------------------------------------------------------
(***************************************************************************)
(* The shutdown before the plugin is unloaded.  It is reached because,     *)
(* with every user enabled, nobody holds a user once its session and its   *)
(* transactions are over.                                                  *)
(***************************************************************************)
\* Every context is enabled, hence no transaction is skipped.
AllEnabled ==
    /\ \A d \in Dusers : cstate[d] = "live" => enabled[d]
    /\ \A t \in Txns : txn[t] # "skipped"

\* A context belongs to a user that is not freed; a user its session has left is
\* held by somebody.
UsersOfContexts ==
    /\ \A d \in Dusers : cstate[d] = "live" => ustate[Owner[d]] \in {"live", "left", "closing"}
    /\ \A u \in Users : ustate[u] = "left" => refs[u] # 0

\* kafka_global is left without a context only until cleanup, inside a deinit.
CleanupPending ==
    /\ kafka_global /\ LiveContexts = {} => cleanupDue
    /\ cleanupDue => closing # NoUser

UnflushedHasProducer == unflushed # {} => rk # 0

UnloadedQuiet == plugin = "unregistered" => closing = NoUser /\ alive = {} /\ unflushed = {}

ShutdownInv ==
    AllEnabled /\ UsersOfContexts /\ CleanupPending /\ UnflushedHasProducer /\ UnloadedQuiet

\* mail_user_unref leaves no user without a holder outside its deinit.
LEMMA UnrefKeepsHolders ==
    ASSUME TypeOK, UsersOfContexts, NEW u \in Users, NEW next \in {"live", "left"},
           mail_user_unref(u, next), refs[u] # 0, ustate[u] \in {"live", "left"},
           cstate' = cstate
    PROVE  UsersOfContexts'
<1>1. /\ ustate' = [ustate EXCEPT ![u] = IF refs[u] = 1 THEN "closing" ELSE next]
      /\ refs' = [refs EXCEPT ![u] = refs[u] - 1]
  BY DEF mail_user_unref
<1>2. ustate'[u] \in {"live", "left", "closing"} /\ (ustate'[u] = "left" => refs'[u] # 0)
  BY <1>1 DEF TypeOK
<1>3. \A v \in Users : v # u => ustate'[v] = ustate[v] /\ refs'[v] = refs[v]
  BY <1>1 DEF TypeOK
<1>4. \A d \in Dusers : Owner[d] \in Users
  BY DusersAssumption
<1> QED
  BY <1>2, <1>3, <1>4 DEF UsersOfContexts

\* Unloading finds no context, hence no kafka_global and nothing unflushed.
LEMMA UnloadIsQuiet ==
    ASSUME UserInv, SharedInv, ShutdownInv, push_notification_kafka_plugin_deinit
    PROVE  ShutdownInv'
<1>1. /\ closing = NoUser
      /\ \A u \in Users : ustate[u] # "live"
      /\ \A t \in Txns : txn[t] # "open"
      /\ UNCHANGED <<ustate, refs, closing, cleanupDue, cstate, enabled, txn, kafka_global,
                     rk, alive, unflushed>>
  BY DEF push_notification_kafka_plugin_deinit, Running, userVars, ctxVars, globalVars, rdVars
<1>2. \A u \in Users : Holders(u) = {}
  BY <1>1 DEF Holders, ShutdownInv, AllEnabled
<1>3. \A u \in Users : refs[u] = 0
  BY <1>1, <1>2, FS_EmptySet DEF UserInv, RefsExact
<1>4. \A u \in Users : ustate[u] \notin {"live", "left", "closing"}
  BY <1>1, <1>3, UsersAssumption DEF ShutdownInv, UsersOfContexts, UserInv, ClosingExact
<1>5. LiveContexts = {}
  BY <1>4, DusersAssumption DEF LiveContexts, ShutdownInv, UsersOfContexts
<1>6. ~kafka_global
  BY <1>1, <1>5 DEF ShutdownInv, CleanupPending
<1>7. rk = 0 /\ alive = {} /\ unflushed = {}
  BY <1>6 DEF SharedInv, RefcountExact, OneProducer, ShutdownInv, UnflushedHasProducer
<1> QED
  BY <1>1, <1>7 DEF ShutdownInv, AllEnabled, UsersOfContexts, CleanupPending, LiveContexts,
                    UnflushedHasProducer, UnloadedQuiet

\* Each step on the way there, with every user enabled.
LEMMA ShutdownInvNext ==
    ASSUME EnabledValues = {TRUE}, UserInv, SharedInv, SharedInv', ShutdownInv, [Next]_vars
    PROVE  ShutdownInv'
<1> USE DEF ShutdownInv
<1>1. CASE push_notification_kafka_plugin_init
  BY <1>1 DEF push_notification_kafka_plugin_init, userVars, ctxVars, globalVars, rdVars,
              AllEnabled, UsersOfContexts, CleanupPending, LiveContexts, UnflushedHasProducer,
              UnloadedQuiet
<1>2. CASE push_notification_kafka_plugin_deinit
  BY <1>2, UnloadIsQuiet
<1>3. ASSUME NEW u \in Users, UserCreated(u)
      PROVE  ShutdownInv'
  <2>1. /\ ustate' = [ustate EXCEPT ![u] = "live"] /\ refs' = [refs EXCEPT ![u] = 1]
        /\ plugin # "unregistered"
        /\ UNCHANGED <<plugin, closing, cleanupDue, cstate, enabled, txn, kafka_global, rk, alive,
                       unflushed>>
    BY <1>3 DEF UserCreated, Running, ctxVars, globalVars, rdVars
  <2>2. UsersOfContexts'
    BY <2>1, DusersAssumption DEF UsersOfContexts, UserInv, TypeOK
  <2> QED
    BY <2>1, <2>2 DEF AllEnabled, CleanupPending, LiveContexts, UnflushedHasProducer, UnloadedQuiet
<1>4. ASSUME NEW u \in Users, SessionReleases(u)
      PROVE  ShutdownInv'
  <2>1. /\ mail_user_unref(u, "left") /\ ustate[u] = "live" /\ closing = NoUser
        /\ closing' \in {NoUser, u} /\ plugin # "unregistered"
        /\ UNCHANGED <<plugin, cleanupDue, cstate, enabled, txn, kafka_global, rk, alive, unflushed>>
    BY <1>4 DEF SessionReleases, Running, mail_user_unref, ctxVars, globalVars, rdVars
  <2>2. refs[u] # 0
    BY <2>1, HoldersFinite DEF UserInv, RefsExact
  <2>3. UsersOfContexts'
    BY <2>1, <2>2, UnrefKeepsHolders DEF UserInv
  <2> QED
    BY <2>1, <2>3 DEF AllEnabled, CleanupPending, LiveContexts, UnflushedHasProducer, UnloadedQuiet
<1>5. ASSUME NEW u \in Users, UserFreed(u)
      PROVE  ShutdownInv'
  <2>1. /\ ustate' = [ustate EXCEPT ![u] = "freed"] /\ closing = u /\ ~cleanupDue /\ closing' = NoUser
        /\ \A d \in Dusers : Owner[d] = u => cstate[d] # "live"
        /\ UNCHANGED <<plugin, refs, cleanupDue, cstate, enabled, txn, kafka_global, rk, alive,
                       unflushed>>
    BY <1>5 DEF UserFreed, ctxVars, globalVars, rdVars
  <2>2. UsersOfContexts'
    BY <2>1, DusersAssumption DEF UsersOfContexts, UserInv, TypeOK
  <2> QED
    BY <2>1, <2>2 DEF AllEnabled, CleanupPending, LiveContexts, UnflushedHasProducer, UnloadedQuiet
<1>6. ASSUME NEW d \in Dusers, push_notification_driver_kafka_init(d)
      PROVE  ShutdownInv'
  <2>1. /\ ustate[Owner[d]] = "live" /\ plugin # "unregistered"
        /\ cstate' = [cstate EXCEPT ![d] = "live"] /\ enabled' = [enabled EXCEPT ![d] = TRUE]
        /\ rk' = IF kafka_global THEN rk ELSE 0
        /\ UNCHANGED <<plugin, ustate, refs, closing, cleanupDue, txn, alive, unflushed>>
    BY <1>6 DEF push_notification_driver_kafka_init, Running, userVars, rdVars
  <2>2. d \in LiveContexts'
    BY <2>1 DEF LiveContexts, UserInv, TypeOK
  <2>3. AllEnabled' /\ UsersOfContexts'
    BY <2>1 DEF AllEnabled, UsersOfContexts, UserInv, TypeOK
  <2>4. UnflushedHasProducer'
    BY <2>1 DEF UnflushedHasProducer, SharedInv, RefcountExact
  <2> QED
    BY <2>1, <2>2, <2>3, <2>4 DEF CleanupPending, UnloadedQuiet
<1>7. ASSUME NEW d \in Dusers, push_notification_driver_kafka_deinit(d)
      PROVE  ShutdownInv'
  <2>1. /\ closing = Owner[d] /\ Owner[d] # NoUser /\ cleanupDue'
        /\ cstate' = [cstate EXCEPT ![d] = "freed"]
        /\ UNCHANGED <<plugin, ustate, refs, closing, enabled, txn, rk, alive, unflushed>>
    BY <1>7, UsersAssumption, DusersAssumption DEF push_notification_driver_kafka_deinit, rdVars
  <2>2. AllEnabled' /\ UsersOfContexts'
    BY <2>1 DEF AllEnabled, UsersOfContexts, UserInv, TypeOK
  <2> QED
    BY <2>1, <2>2 DEF CleanupPending, UnflushedHasProducer, UnloadedQuiet
<1>8. ASSUME NEW t \in Txns, push_notification_driver_kafka_begin_txn(t)
      PROVE  ShutdownInv'
  <2>1. /\ cstate[DuserOf[t]] = "live" /\ plugin # "unregistered"
        /\ txn' = [txn EXCEPT ![t] = IF enabled[DuserOf[t]] THEN "open" ELSE "skipped"]
        /\ refs' = [refs EXCEPT ![Owner[DuserOf[t]]] = refs[Owner[DuserOf[t]]] + 1]
        /\ UNCHANGED <<plugin, ustate, closing, cleanupDue, cstate, enabled, kafka_global, rk, alive,
                       unflushed>>
    BY <1>8 DEF push_notification_driver_kafka_begin_txn, mail_user_ref, Running, ctxVars,
                globalVars, rdVars
  <2>2. DuserOf[t] \in Dusers /\ Owner[DuserOf[t]] \in Users
    BY TxnsAssumption, DusersAssumption
  <2>3. AllEnabled'
    BY <2>1, <2>2 DEF AllEnabled, UserInv, TypeOK
  <2>4. UsersOfContexts'
    BY <2>1, <2>2 DEF UsersOfContexts, UserInv, TypeOK
  <2> QED
    BY <2>1, <2>3, <2>4 DEF CleanupPending, LiveContexts, UnflushedHasProducer, UnloadedQuiet
<1>9. ASSUME NEW t \in Txns, push_notification_driver_kafka_send_to_kafka(t)
      PROVE  ShutdownInv'
  <2>1. /\ plugin # "unregistered"
        /\ \/ rkt'[DuserOf[t]] # 0
           \/ UNCHANGED unflushed
        /\ rk' = rk \/ rk' = handles + 1
        /\ UNCHANGED <<plugin, ustate, refs, closing, cleanupDue, cstate, enabled, txn, kafka_global>>
    BY <1>9 DEF push_notification_driver_kafka_send_to_kafka, push_notification_driver_kafka_init_topic,
                push_notification_driver_kafka_init_global, Running, userVars
  <2>2. DuserOf[t] \in Dusers
    BY TxnsAssumption
  <2>3. rkt'[DuserOf[t]] # 0 => rk' # 0
    BY <2>2 DEF SharedInv, TopicOfLiveProducer
  <2>4. handles + 1 # 0
    BY DEF UserInv, TypeOK
  <2> QED
    BY <2>1, <2>3, <2>4 DEF AllEnabled, UsersOfContexts, CleanupPending, LiveContexts,
                            UnflushedHasProducer, UnloadedQuiet
<1>10. ASSUME NEW t \in Txns, push_notification_driver_kafka_end_txn(t)
       PROVE  ShutdownInv'
  <2> DEFINE u == Owner[DuserOf[t]]
  <2>1. /\ mail_user_unref(u, ustate[u]) /\ closing = NoUser
        /\ closing' \in {NoUser, u} /\ plugin # "unregistered" /\ txn[t] = "open"
        /\ txn' = [txn EXCEPT ![t] = "ended"]
        /\ UNCHANGED <<plugin, cleanupDue, cstate, enabled, kafka_global, rk, alive, unflushed>>
    BY <1>10 DEF push_notification_driver_kafka_end_txn, Running, mail_user_unref, ctxVars,
                 globalVars, rdVars
  <2>2. u \in Users
    BY TxnsAssumption, DusersAssumption
  <2>3. t \in Holders(u)
    BY <2>1 DEF Holders
  <2>4. refs[u] # 0
    BY <2>2, <2>3, HoldersFinite, FS_EmptySet DEF UserInv, RefsExact
  <2>5. ustate[u] \in {"live", "left"}
    BY <2>2, <2>3 DEF UserInv, UnheldUsers, TypeOK, UserStates
  <2>6. UsersOfContexts'
    BY <2>1, <2>2, <2>4, <2>5, UnrefKeepsHolders DEF UserInv
  <2>7. AllEnabled'
    BY <2>1 DEF AllEnabled, UserInv, TypeOK
  <2> QED
    BY <2>1, <2>6, <2>7 DEF CleanupPending, LiveContexts, UnflushedHasProducer, UnloadedQuiet
<1>11. CASE push_notification_driver_kafka_cleanup
  <2>1. /\ cleanupDue
        /\ UNCHANGED <<plugin, ustate, refs, closing, cstate, enabled, txn>>
    BY <1>11 DEF push_notification_driver_kafka_cleanup, ctxVars
  <2>2. LiveContexts' = LiveContexts /\ closing # NoUser
    BY <2>1 DEF LiveContexts, CleanupPending
  <2>3. kafka_global' => kafka_global /\ LiveContexts # {}
    <3>1. CASE Unused
      BY <1>11, <3>1 DEF push_notification_driver_kafka_cleanup
    <3>2. CASE ~Unused
      <4>1. kafka_global' = kafka_global
        BY <1>11, <3>2 DEF push_notification_driver_kafka_cleanup
      <4>2. kafka_global => refcount # 0 /\ refcount = Cardinality(LiveContexts)
        BY <3>2 DEF Unused, SharedInv, RefcountExact, UserInv, TypeOK
      <4>3. kafka_global => LiveContexts # {}
        BY <4>2, LiveContextsFinite
      <4> QED
        BY <4>1, <4>3
    <3> QED
      BY <3>1, <3>2
  <2>4. UnflushedHasProducer'
    BY <1>11 DEF push_notification_driver_kafka_cleanup, push_notification_driver_kafka_deinit_global,
                 UnflushedHasProducer
  <2>5. cleanupDue' = FALSE
    BY <1>11 DEF push_notification_driver_kafka_cleanup
  <2> QED
    BY <2>1, <2>2, <2>3, <2>4, <2>5 DEF AllEnabled, UsersOfContexts, CleanupPending, UnloadedQuiet
<1>12. CASE UNCHANGED vars
  BY <1>12 DEF vars, userVars, ctxVars, globalVars, rdVars, AllEnabled, UsersOfContexts,
               CleanupPending, LiveContexts, UnflushedHasProducer, UnloadedQuiet
<1> QED
  BY <1>1, <1>2, <1>3, <1>4, <1>5, <1>6, <1>7, <1>8, <1>9, <1>10, <1>11, <1>12 DEF Next, Finished

\* With every user enabled, the producer has been flushed and destroyed when the
\* plugin is unloaded.
THEOREM ShutdownPrecedesUnload ==
    ASSUME EnabledValues = {TRUE}
    PROVE  Spec => []ShutdownBeforeUnload
<1>1. Init => ShutdownInv
  BY DEF Init, ShutdownInv, AllEnabled, UsersOfContexts, CleanupPending, UnflushedHasProducer,
         UnloadedQuiet
<1>2. UserInv /\ SharedInv /\ SharedInv' /\ ShutdownInv /\ [Next]_vars => ShutdownInv'
  BY ShutdownInvNext
<1>3. ShutdownInv => ShutdownBeforeUnload
  BY DEF ShutdownInv, UnloadedQuiet, ShutdownBeforeUnload
<1> QED
  BY <1>1, <1>2, <1>3, UserInvariant, SharedInvariant, PTL DEF Spec
=============================================================================
