---------------------------- MODULE KafkaProcess ----------------------------
(***************************************************************************)
(* One mail process: the life cycle of users, driver contexts and producer *)
(* (KafkaDriver) together with what happens to the messages inside the     *)
(* calls that life cycle makes (KafkaSend).  The two share the producer:   *)
(* kafka_global->rk and the number of handles.                             *)
(*                                                                         *)
(* The process has one thread.  While a send, a poll or a flush is under   *)
(* way only that call goes on, beside librdkafka's thread; all other calls *)
(* into the driver happen in between.                                      *)
(***************************************************************************)
EXTENDS Integers, Sequences, FiniteSets

CONSTANTS
    Users, Dusers, Txns, Owner, DuserOf, EnabledValues, NoUser,  \* see KafkaDriver
    NumMsgs, QueueMax, Unset, NotANumber,                        \* see KafkaSend
    RawMaxRetries, RawRetryPollTime, RawTopicCloseTime, RawFlushTime

ASSUME UsersAssumption    == NoUser \notin Users
ASSUME DusersAssumption   == IsFiniteSet(Dusers) /\ Owner \in [Dusers -> Users]
ASSUME TxnsAssumption     == IsFiniteSet(Txns) /\ DuserOf \in [Txns -> Dusers]
ASSUME EnabledAssumption  == EnabledValues \subseteq BOOLEAN
ASSUME BoundsAssumption   == NumMsgs \in Nat /\ QueueMax \in Nat \ {0}
ASSUME SettingsAssumption ==
    {RawMaxRetries, RawRetryPollTime, RawTopicCloseTime, RawFlushTime}
        \subseteq Int \cup {Unset, NotANumber}

VARIABLES
    rk, handles,
    \* of KafkaDriver
    plugin, proc, ustate, refs, closing, cleanupDue, cstate, enabled, rkt, txn,
    kafka_global, refcount, guser, alive, unflushed,
    \* of KafkaSend
    pc, cur, retry_counter, queue, reports, acked, reported, dropped, errors,
    flushTimedOut, lost, accepted, attempts, served

Driver == INSTANCE KafkaDriver
Send   == INSTANCE KafkaSend

driverVars == <<plugin, proc, ustate, refs, closing, cleanupDue, cstate, enabled, rkt, txn,
                kafka_global, refcount, guser, alive, unflushed>>
sendVars   == <<pc, cur, retry_counter, queue, reports, acked, reported, dropped, errors,
                flushTimedOut, lost, accepted, attempts, served>>
vars       == <<rk, handles, driverVars, sendVars>>

Init == Driver!Init /\ Send!Init

-----------------------------------------------------------------------------
(***************************************************************************)
(* Steps of one part only.                                                 *)
(***************************************************************************)
\* A call that has no business with librdkafka's queue.
DriverAlone(step) == pc = "idle" /\ step /\ UNCHANGED sendVars

\* Inside a call, or in librdkafka's thread.
SendAlone(step) == proc = "up" /\ step /\ UNCHANGED <<rk, handles, driverVars>>

PluginStep ==
    \/ DriverAlone(Driver!push_notification_kafka_plugin_init)
    \/ DriverAlone(Driver!push_notification_kafka_plugin_deinit)

UserCreated(u)     == DriverAlone(Driver!UserCreated(u))
SessionReleases(u) == DriverAlone(Driver!SessionReleases(u))
UserFreed(u)       == DriverAlone(Driver!UserFreed(u))

init(d)      == DriverAlone(Driver!push_notification_driver_kafka_init(d))
begin_txn(t) == DriverAlone(Driver!push_notification_driver_kafka_begin_txn(t))
end_txn(t)   == DriverAlone(Driver!push_notification_driver_kafka_end_txn(t))

SendGoesOn ==
    SendAlone(Send!Produce \/ Send!PollFull \/ Send!PollAfterSend
              \/ Send!FlushPoll \/ Send!FlushReturn)

LibrdkafkaStep == SendAlone(Send!Deliver \/ Send!Fail)

-----------------------------------------------------------------------------
(***************************************************************************)
(* Steps of both.                                                          *)
(***************************************************************************)
\* send_to_kafka up to its test of ctx->rkt: the produce loop follows, or an
\* error is logged, or init_global has brought the process down.
send_to_kafka(t) ==
    /\ Driver!push_notification_driver_kafka_send_to_kafka(t)
    /\ \/ proc' = "up" /\ rkt'[DuserOf[t]] # 0 /\ t \in unflushed' /\ Send!Submit
       \/ proc' = "up" /\ rkt'[DuserOf[t]] = 0 /\ Send!NotInitialized
       \/ proc' # "up" /\ pc = "idle" /\ cur < NumMsgs /\ UNCHANGED sendVars

\* A deinit is the next call into the driver.
DeinitDue ==
    /\ proc = "up" /\ ~cleanupDue
    /\ \E d \in Dusers : closing = Owner[d] /\ cstate[d] = "live"

\* deinit_topic polls the producer, if there is one.
deinit_enters == DeinitDue /\ SendAlone(Send!Deinit)

\* deinit goes on once that poll has returned.
deinit(d) ==
    /\ Driver!push_notification_driver_kafka_deinit(d)
    /\ \/ rk # 0 /\ Send!push_notification_driver_kafka_deinit_topic
       \/ rk = 0 /\ pc = "idle" /\ UNCHANGED sendVars

\* cleanup flushes and destroys the producer when no context is left.
cleanup_enters == cleanupDue /\ Driver!Unused /\ SendAlone(Send!Cleanup)

\* Mutant: the handle is forgotten, not destroyed.
CleanupForgets ==
    /\ Driver!push_notification_driver_kafka_cleanup
    /\ \/ Driver!Unused /\ rk # 0 /\ pc = "destroy" /\ pc' = "idle"
          /\ UNCHANGED <<cur, retry_counter, queue, reports, acked, reported, dropped, errors,
                         flushTimedOut, lost, accepted, attempts, served>>
       \/ ~(Driver!Unused /\ rk # 0) /\ pc = "idle" /\ UNCHANGED sendVars

cleanup ==
    /\ Driver!push_notification_driver_kafka_cleanup
    /\ \/ Driver!Unused /\ rk # 0 /\ Send!Destroy
       \/ ~(Driver!Unused /\ rk # 0) /\ pc = "idle" /\ UNCHANGED sendVars

Finished == DriverAlone(Driver!Finished)

-----------------------------------------------------------------------------
\* A call into the driver that has begun, or that Dovecot makes next on the
\* same stack.
CallGoesOn ==
    \/ SendGoesOn
    \/ deinit_enters \/ \E d \in Dusers : deinit(d)
    \/ cleanup_enters \/ cleanup
    \/ \E u \in Users : UserFreed(u)

Next ==
    \/ PluginStep
    \/ \E u \in Users : UserCreated(u) \/ SessionReleases(u)
    \/ \E d \in Dusers : init(d)
    \/ \E t \in Txns : begin_txn(t) \/ send_to_kafka(t) \/ end_txn(t)
    \/ CallGoesOn
    \/ LibrdkafkaStep
    \/ Finished

Spec == Init /\ [][Next]_vars

\* The thread is never blocked for ever, and Dovecot ends the sessions and the
\* transactions it began.  Nothing obliges librdkafka or the broker.
Fairness ==
    /\ WF_vars(CallGoesOn)
    /\ \A u \in Users : WF_vars(SessionReleases(u))
    /\ \A t \in Txns : WF_vars(end_txn(t))

FairSpec == Spec /\ Fairness

-----------------------------------------------------------------------------
(***************************************************************************)
(* Properties.                                                             *)
(***************************************************************************)
\* What librdkafka still holds belongs to the living producer, and KafkaDriver's
\* unflushed knows of it: nothing is left in a queue nobody will flush.
PendingIsUnflushed == queue \cup reports # {} => rk # 0 /\ unflushed # {}

\* Messages are purged only once no driver context of any user is left, and
\* only after a flush that ran into its timeout: a user who leaves does not
\* cost the others their messages.
LossOnlyAtShutdown ==
    [][lost' # lost => Driver!LiveContexts = {} /\ flushTimedOut]_vars

\* Every message send_to_kafka got is reported, given up or purged before the
\* plugin is unloaded.
SettledBeforeUnload ==
    plugin = "unregistered" => reported \cup dropped \cup lost = 1..cur

\* No producer is left running when the plugin is unloaded: the shutdown sequence
\* is reached in time.
ShutdownBeforeUnload == Driver!ShutdownBeforeUnload

\* The life cycle never disturbs the message handling: no init resets the producer
\* under a message, and none is destroyed outside the shutdown sequence.
ImplementsSend == Send!Spec

\* Every producer is flushed and destroyed in the end, however long the sends,
\* polls and flushes take that come before.
ProducerEventuallyDestroyed == Driver!ProducerEventuallyDestroyed

\* Every message is settled in the end, even if the broker never answers: then
\* it is given up, or purged by the shutdown that follows the last user.
EveryMessageSettled ==
    \A m \in 1..NumMsgs :
        m <= cur ~> (m \in reported \cup dropped \cup lost \/ proc # "up")
=============================================================================
