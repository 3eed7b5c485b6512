---------------------------- MODULE KafkaDriver ----------------------------
(***************************************************************************)
(* Life cycle of the state the Kafka driver shares inside one mail         *)
(* process: the driver contexts of all users, the reference-counted        *)
(* kafka_global with its lazily created producer, the topic objects, and   *)
(* the references the driver takes on mail_user objects                    *)
(* (src/src/push-notification-kafka-driver.c).                             *)
(*                                                                         *)
(* The process is single threaded: each entry of the driver's vfunc table  *)
(* runs to completion, so each is one action.  Dovecot, which calls them,  *)
(* and librdkafka are external; their part is kept to what the driver      *)
(* relies on:                                                              *)
(*   - a user is deinitialised when its last reference goes; deinit and    *)
(*     then cleanup are called for each of its drivers, nested in the call *)
(*     that dropped the reference, so nothing else runs in between;        *)
(*   - a driver whose begin_txn returned FALSE is left out of the          *)
(*     transaction: neither process_* nor end_txn is called for it.        *)
(***************************************************************************)
EXTENDS Naturals, FiniteSets

CONSTANTS
    Users,          \* struct mail_user objects, each created and freed once
    Dusers,         \* struct push_notification_driver_user: a user's kafka drivers
    Txns,           \* struct push_notification_driver_txn objects
    Owner,          \* Owner[d]: the user of driver instance d
    DuserOf,        \* DuserOf[t]: dtxn->duser
    EnabledValues,  \* values ctx->enabled can get from the "feature" setting
    NoUser

ASSUME UsersAssumption   == NoUser \notin Users
ASSUME DusersAssumption  == IsFiniteSet(Dusers) /\ Owner \in [Dusers -> Users]
ASSUME TxnsAssumption    == IsFiniteSet(Txns) /\ DuserOf \in [Txns -> Dusers]
ASSUME EnabledAssumption == EnabledValues \subseteq BOOLEAN

VARIABLES
    plugin,        \* "no", "registered", "unregistered": the plugin's own life cycle
    proc,          \* "up", or the fault that ended the process (see Faults)
    ustate,        \* per user: "new", "live", "left" (released by its session but
                   \* still referenced), "closing" (inside its deinit), "freed"
    refs,          \* mail_user->refcount
    closing,       \* the user whose deinit is on the call stack, or NoUser
    cleanupDue,    \* deinit of a driver returned, cleanup is the next call
    cstate,        \* per driver context: "none", "live", "freed"
    enabled,       \* ctx->enabled
    rkt,           \* ctx->rkt: 0 for NULL, or the handle the topic object belongs to
    txn,           \* "new", "open", "skipped" (begin_txn returned FALSE), "ended"
    kafka_global,  \* kafka_global != NULL
    refcount,      \* kafka_global->refcount
    rk,            \* kafka_global->rk: 0 for NULL, or a handle
    guser,         \* kafka_global->user
    handles,       \* number of handles rd_kafka_new returned: they are 1..handles
    alive,         \* handles that were created and not destroyed
    unflushed      \* txns that have produced a message since the last rd_kafka_flush

userVars   == <<ustate, refs, closing, cleanupDue>>
ctxVars    == <<cstate, enabled, rkt>>
globalVars == <<kafka_global, refcount, rk, guser>>
rdVars     == <<handles, alive, unflushed>>
vars       == <<plugin, proc, userVars, ctxVars, txn, globalVars, rdVars>>

\* What can bring the process down inside the driver: kafka_global is NULL where
\* it is dereferenced, i_assert(refcount > 0) fails, a freed user's settings are
\* read, a NULL handle is passed to rd_kafka_set_log_level.
Faults     == {"null_global", "refcount_assert", "stale_user", "null_handle"}
UserStates == {"new", "live", "left", "closing", "freed"}
TxnStates  == {"new", "open", "skipped", "ended"}

LiveContexts == {d \in Dusers : cstate[d] = "live"}

\* The driver transactions that still hold the reference begin_txn took on u.
Holders(u) == {t \in Txns : txn[t] \in {"open", "skipped"} /\ Owner[DuserOf[t]] = u}

TypeOK ==
    /\ plugin \in {"no", "registered", "unregistered"}
    /\ proc \in {"up"} \cup Faults
    /\ ustate \in [Users -> UserStates]
    /\ refs \in [Users -> Nat]
    /\ closing \in Users \cup {NoUser}
    /\ cleanupDue \in BOOLEAN
    /\ cstate \in [Dusers -> {"none", "live", "freed"}]
    /\ enabled \in [Dusers -> BOOLEAN]
    /\ rkt \in [Dusers -> Nat]
    /\ txn \in [Txns -> TxnStates]
    /\ kafka_global \in BOOLEAN
    /\ refcount \in Nat
    /\ rk \in Nat
    /\ guser \in Users \cup {NoUser}
    /\ handles \in Nat
    /\ alive \in SUBSET Nat
    /\ unflushed \in SUBSET Txns

Init ==
    /\ plugin = "no"
    /\ proc = "up"
    /\ ustate = [u \in Users |-> "new"]
    /\ refs = [u \in Users |-> 0]
    /\ closing = NoUser
    /\ cleanupDue = FALSE
    /\ cstate = [d \in Dusers |-> "none"]
    /\ enabled = [d \in Dusers |-> FALSE]
    /\ rkt = [d \in Dusers |-> 0]
    /\ txn = [t \in Txns |-> "new"]
    /\ kafka_global = FALSE
    /\ refcount = 0
    /\ rk = 0
    /\ guser = NoUser
    /\ handles = 0
    /\ alive = {}
    /\ unflushed = {}

\* Dovecot calls into the driver, outside any user's deinit.
Running == proc = "up" /\ plugin = "registered" /\ closing = NoUser

-----------------------------------------------------------------------------
(***************************************************************************)
(* mail_user (external): creation, mail_user_ref and mail_user_unref.      *)
(***************************************************************************)
UserCreated(u) ==
    /\ Running
    /\ ustate[u] = "new"
    /\ ustate' = [ustate EXCEPT ![u] = "live"]
    /\ refs' = [refs EXCEPT ![u] = 1]
    /\ UNCHANGED <<plugin, proc, closing, cleanupDue, ctxVars, txn, globalVars, rdVars>>

mail_user_ref(u) ==
    /\ refs' = [refs EXCEPT ![u] = @ + 1]
    /\ UNCHANGED <<ustate, closing>>

\* Dropping the last reference enters the user's deinit; next is the user's
\* state if references remain.
mail_user_unref(u, next) ==
    /\ refs' = [refs EXCEPT ![u] = @ - 1]
    /\ ustate' = [ustate EXCEPT ![u] = IF refs[u] = 1 THEN "closing" ELSE next]
    /\ closing' = IF refs[u] = 1 THEN u ELSE closing

\* The session that created the user is done with it.
SessionReleases(u) ==
    /\ Running
    /\ ustate[u] = "live"
    /\ mail_user_unref(u, "left")
    /\ UNCHANGED <<plugin, proc, cleanupDue, ctxVars, txn, globalVars, rdVars>>

\* All drivers of the user are deinitialised: its memory is freed.
UserFreed(u) ==
    /\ proc = "up"
    /\ closing = u
    /\ ~cleanupDue
    /\ \A d \in Dusers : Owner[d] = u => cstate[d] # "live"
    /\ ustate' = [ustate EXCEPT ![u] = "freed"]
    /\ closing' = NoUser
    /\ UNCHANGED <<plugin, proc, refs, cleanupDue, ctxVars, txn, globalVars, rdVars>>

-----------------------------------------------------------------------------
(***************************************************************************)
(* The plugin and the driver's vfuncs.                                     *)
(***************************************************************************)
push_notification_kafka_plugin_init ==
    /\ plugin = "no"
    /\ plugin' = "registered"
    /\ UNCHANGED <<proc, userVars, ctxVars, txn, globalVars, rdVars>>

\* Modules are unloaded once every session is over and every transaction ended.
push_notification_kafka_plugin_deinit ==
    /\ Running
    /\ \A u \in Users : ustate[u] # "live"
    /\ \A t \in Txns : txn[t] # "open"
    /\ plugin' = "unregistered"
    /\ UNCHANGED <<proc, userVars, ctxVars, txn, globalVars, rdVars>>

\* Mutant: the shared counter is only incremented by the driver that allocates it.
InitCountsOnlyFirst(d) ==
    /\ Running
    /\ cstate[d] = "none"
    /\ ustate[Owner[d]] = "live"
    /\ cstate' = [cstate EXCEPT ![d] = "live"]
    /\ \E e \in EnabledValues : enabled' = [enabled EXCEPT ![d] = e]
    /\ kafka_global' = TRUE
    /\ refcount' = IF kafka_global THEN refcount ELSE 1
    /\ rk' = IF kafka_global THEN rk ELSE 0
    /\ guser' = IF kafka_global THEN guser ELSE Owner[d]
    /\ UNCHANGED <<plugin, proc, userVars, rkt, txn, rdVars>>

\* Init allocates the context and, for the first driver of the process,
\* kafka_global; the producer is left for the first message to create.
push_notification_driver_kafka_init(d) ==
    /\ Running
    /\ cstate[d] = "none"
    /\ ustate[Owner[d]] = "live"
    /\ cstate' = [cstate EXCEPT ![d] = "live"]
    /\ \E e \in EnabledValues : enabled' = [enabled EXCEPT ![d] = e]
    /\ kafka_global' = TRUE
    /\ refcount' = IF kafka_global THEN refcount + 1 ELSE 1
    /\ rk' = IF kafka_global THEN rk ELSE 0
    /\ guser' = IF kafka_global THEN guser ELSE Owner[d]
    /\ UNCHANGED <<plugin, proc, userVars, rkt, txn, rdVars>>

\* Mutant: no reference is taken on the user.
BeginTxnWithoutRef(t) ==
    /\ Running
    /\ txn[t] = "new"
    /\ cstate[DuserOf[t]] = "live"
    /\ ustate[Owner[DuserOf[t]]] = "live"
    /\ txn' = [txn EXCEPT ![t] = IF enabled[DuserOf[t]] THEN "open" ELSE "skipped"]
    /\ UNCHANGED <<plugin, proc, userVars, ctxVars, globalVars, rdVars>>

\* The reference on the user is taken before ctx->enabled is looked at.
push_notification_driver_kafka_begin_txn(t) ==
    LET d == DuserOf[t] IN
    /\ Running
    /\ txn[t] = "new"
    /\ cstate[d] = "live"
    /\ ustate[Owner[d]] = "live"
    /\ mail_user_ref(Owner[d])
    /\ txn' = [txn EXCEPT ![t] = IF enabled[d] THEN "open" ELSE "skipped"]
    /\ UNCHANGED <<plugin, proc, cleanupDue, ctxVars, globalVars, rdVars>>

\* Nothing to do while a producer exists.  Otherwise its configuration is read
\* from kafka_global->user, where a freed user is undefined behaviour (a crash, or
\* the call goes on with what it finds); a refused configuration returns NULL; a
\* failed rd_kafka_new leaves rk NULL and then passes it to
\* rd_kafka_set_log_level, which writes through it.
push_notification_driver_kafka_init_global ==
    \/ /\ kafka_global /\ rk # 0
       /\ UNCHANGED <<proc, rk, handles, alive>>
    \/ /\ kafka_global /\ rk = 0
       /\ \/ proc' = "stale_user" /\ ustate[guser] = "freed"
          \/ proc' = "null_handle"
          \/ UNCHANGED proc
       /\ UNCHANGED <<rk, handles, alive>>
    \/ /\ kafka_global /\ rk = 0
       /\ handles' = handles + 1
       /\ rk' = handles + 1
       /\ alive' = alive \cup {handles + 1}
       /\ UNCHANGED proc
    \/ /\ ~kafka_global
       /\ proc' = "null_global"
       /\ UNCHANGED <<rk, handles, alive>>

\* rd_kafka_topic_new may fail and leave rkt NULL.
push_notification_driver_kafka_init_topic(d) ==
    /\ push_notification_driver_kafka_init_global
    /\ \/ /\ rk' # 0 /\ rkt[d] = 0
          /\ rkt' = [rkt EXCEPT ![d] = rk']
       \/ UNCHANGED rkt

\* One rendered event of process_msg or process_mbox.  Whether the context has a
\* topic object is all that send_to_kafka tests; rd_kafka_produce may fail.
push_notification_driver_kafka_send_to_kafka(t) ==
    /\ Running
    /\ txn[t] = "open"
    /\ push_notification_driver_kafka_init_topic(DuserOf[t])
    /\ \/ /\ proc' = "up" /\ rkt'[DuserOf[t]] # 0
          /\ unflushed' = unflushed \cup {t}
       \/ UNCHANGED unflushed
    /\ UNCHANGED <<plugin, userVars, cstate, enabled, txn, kafka_global, refcount, guser>>

\* Mutant: the reference begin_txn took is kept.
EndTxnWithoutUnref(t) ==
    /\ Running
    /\ txn[t] = "open"
    /\ txn' = [txn EXCEPT ![t] = "ended"]
    /\ UNCHANGED <<plugin, proc, userVars, ctxVars, globalVars, rdVars>>

\* Mutant: the user is released once more than it was referenced.
EndTxnDoubleUnref(t) ==
    LET u == Owner[DuserOf[t]] IN
    /\ Running
    /\ txn[t] = "open"
    /\ txn' = [txn EXCEPT ![t] = "ended"]
    /\ refs' = [refs EXCEPT ![u] = @ - 2]
    /\ ustate' = [ustate EXCEPT ![u] = IF refs[u] = 2 THEN "closing" ELSE @]
    /\ closing' = IF refs[u] = 2 THEN u ELSE closing
    /\ UNCHANGED <<plugin, proc, cleanupDue, ctxVars, globalVars, rdVars>>

push_notification_driver_kafka_end_txn(t) ==
    LET u == Owner[DuserOf[t]] IN
    /\ Running
    /\ txn[t] = "open"
    /\ txn' = [txn EXCEPT ![t] = "ended"]
    /\ mail_user_unref(u, ustate[u])
    /\ UNCHANGED <<plugin, proc, cleanupDue, ctxVars, globalVars, rdVars>>

\* Mutant: ctx->rkt is not reset.
DeinitTopicKeepsPointer(d) == UNCHANGED rkt

\* Reads kafka_global->rk to poll it, then drops the topic object.
push_notification_driver_kafka_deinit_topic(d) ==
    rkt' = [rkt EXCEPT ![d] = 0]

\* deinit_topic has dereferenced kafka_global before deinit tests it for NULL,
\* and refcount > 0 is asserted before it is decremented.
push_notification_driver_kafka_deinit(d) ==
    /\ proc = "up"
    /\ closing = Owner[d]
    /\ ~cleanupDue
    /\ cstate[d] = "live"
    /\ push_notification_driver_kafka_deinit_topic(d)
    /\ proc' = IF ~kafka_global THEN "null_global"
               ELSE IF refcount = 0 THEN "refcount_assert" ELSE "up"
    /\ refcount' = IF proc' = "up" THEN refcount - 1 ELSE refcount
    /\ cstate' = [cstate EXCEPT ![d] = "freed"]
    /\ cleanupDue' = TRUE
    /\ UNCHANGED <<plugin, ustate, refs, closing, enabled, txn, kafka_global, rk, guser, rdVars>>

\* Mutant: the handle is forgotten without rd_kafka_destroy.
DeinitGlobalWithoutDestroy ==
    IF rk # 0 THEN unflushed' = {} /\ rk' = 0 /\ UNCHANGED alive
              ELSE UNCHANGED <<unflushed, alive, rk>>

\* Mutant: the handle is destroyed without rd_kafka_flush.
DeinitGlobalWithoutFlush ==
    IF rk # 0 THEN alive' = alive \ {rk} /\ rk' = 0 /\ UNCHANGED unflushed
              ELSE UNCHANGED <<unflushed, alive, rk>>

\* Flush, destroy and forget the producer.
push_notification_driver_kafka_deinit_global ==
    IF rk # 0
    THEN /\ unflushed' = {}
         /\ alive' = alive \ {rk}
         /\ rk' = 0
    ELSE UNCHANGED <<unflushed, alive, rk>>

\* Mutant: cleanup does not wait for the last driver context.
UnusedAlways == kafka_global

\* Mutant: the refcount is tested for being negative.
UnusedNever == kafka_global /\ refcount < 0

\* No driver context is left: cleanup shuts the producer down.
Unused == kafka_global /\ refcount <= 0

push_notification_driver_kafka_cleanup ==
    /\ proc = "up"
    /\ cleanupDue
    /\ cleanupDue' = FALSE
    /\ IF Unused
       THEN /\ push_notification_driver_kafka_deinit_global
            /\ kafka_global' = FALSE
            /\ guser' = NoUser
       ELSE UNCHANGED <<unflushed, alive, rk, kafka_global, guser>>
    /\ UNCHANGED <<plugin, proc, ustate, refs, closing, ctxVars, txn, refcount, handles>>

\* The process is over.
Finished ==
    /\ proc # "up" \/ plugin = "unregistered"
    /\ UNCHANGED vars

-----------------------------------------------------------------------------
Next ==
    \/ push_notification_kafka_plugin_init
    \/ push_notification_kafka_plugin_deinit
    \/ \E u \in Users : UserCreated(u) \/ SessionReleases(u) \/ UserFreed(u)
    \/ \E d \in Dusers : \/ push_notification_driver_kafka_init(d)
                         \/ push_notification_driver_kafka_deinit(d)
    \/ \E t \in Txns : \/ push_notification_driver_kafka_begin_txn(t)
                       \/ push_notification_driver_kafka_send_to_kafka(t)
                       \/ push_notification_driver_kafka_end_txn(t)
    \/ push_notification_driver_kafka_cleanup
    \/ Finished

Spec == Init /\ [][Next]_vars

-----------------------------------------------------------------------------
(***************************************************************************)
(* Safety.                                                                 *)
(***************************************************************************)

\* kafka_global->refcount counts exactly the initialised driver contexts of all
\* users, and kafka_global exists while there is one: init and deinit of any
\* number of interleaved users keep the shared counter in step.
RefcountExact ==
    IF kafka_global THEN refcount = Cardinality(LiveContexts)
                    ELSE LiveContexts = {} /\ rk = 0

\* A topic object never outlives the producer it was created on: send_to_kafka
\* tests only ctx->rkt, so a context that kept one across deinit_global would
\* produce through a destroyed handle.
TopicOfLiveProducer ==
    \A d \in Dusers : rkt[d] # 0 => rkt[d] = rk /\ rkt[d] \in alive

\* The process never has a second producer, nor one that kafka_global has lost
\* sight of: init_global creates one only when the last was destroyed.
OneProducer == alive = IF rk = 0 THEN {} ELSE {rk}

\* The reference begin_txn takes keeps the user and the driver context alive until
\* end_txn, also when the session lets go of the user in between.
OpenTxnPinsContext ==
    \A t \in Txns : txn[t] = "open" =>
        /\ cstate[DuserOf[t]] = "live"
        /\ ustate[Owner[DuserOf[t]]] \in {"live", "left"}

\* Neither the assertion in deinit nor the unchecked kafka_global dereferences in
\* deinit_topic and init_global can fail, whatever order users come and go in.
NoSharedStateFault == proc \notin {"null_global", "refcount_assert"}

\* The producer is destroyed only when no driver context is left that could use
\* it, and not before its messages were flushed.
DestroyedOnlyWhenUnused ==
    [][rk # 0 /\ rk' = 0 => LiveContexts = {} /\ unflushed' = {}]_vars

\* When the plugin is unloaded no producer is left running with messages nobody
\* has waited for (the shutdown sequence of deinit_global has been reached).
ShutdownBeforeUnload ==
    plugin = "unregistered" => alive = {} /\ unflushed = {}

\* init_global reads the librdkafka settings of a user that still exists.
SettingsFromLiveUser == [][handles' # handles => ustate[guser] # "freed"]_vars

\* A producer that cannot be created is reported and the process goes on.
InitFailureIsSurvived == proc # "null_handle"

(***************************************************************************)
(* Liveness, under the fairness KafkaProcess states.                       *)
(***************************************************************************)

\* Every producer is eventually flushed and destroyed, unless the process dies.
ProducerEventuallyDestroyed ==
    \A h \in 1..Cardinality(Users) : h \in alive ~> (h \notin alive \/ proc # "up")
=============================================================================
