------------------------- MODULE KafkaProcessProofs -------------------------
(***************************************************************************)
(* Proofs about the mail process.  It implements both of its parts, so     *)
(* what is proved of KafkaDriver and of KafkaSend holds in it; the         *)
(* properties that relate the two follow with one more inductive           *)
(* invariant, ProducerHoldsMessages.                                       *)
(***************************************************************************)
EXTENDS KafkaProcess, TLAPS

DP == INSTANCE KafkaDriverProofs
SP == INSTANCE KafkaSendProofs

-----------------------------------------------------------------------------
(***************************************************************************)
(* The assumptions of the parts, and the two instances of each.            *)
(***************************************************************************)
\* The assumptions KafkaDriver makes are those of the process.
LEMMA DriverAssumptions ==
    /\ NoUser \notin Users
    /\ DP!IsFiniteSet(Dusers) /\ Owner \in [Dusers -> Users]
    /\ DP!IsFiniteSet(Txns) /\ DuserOf \in [Txns -> Dusers]
    /\ EnabledValues \subseteq BOOLEAN
<1>1. \A S : DP!IsFiniteSet(S) <=> IsFiniteSet(S)
  BY DEF DP!IsFiniteSet, IsFiniteSet
<1> QED
  BY <1>1, UsersAssumption, DusersAssumption, TxnsAssumption, EnabledAssumption

\* So are those KafkaSend makes.
LEMMA SendAssumptions ==
    /\ NumMsgs \in Nat /\ QueueMax \in Nat \ {0}
    /\ {RawMaxRetries, RawRetryPollTime, RawTopicCloseTime, RawFlushTime} \subseteq SP!RawSettings
BY BoundsAssumption, SettingsAssumption DEF SP!RawSettings

\* Driver is the module KafkaDriverProofs is about.
LEMMA SameDriver == Driver!Spec <=> DP!Spec
<1>1. Driver!Init <=> DP!Init
  BY DEF Driver!Init, DP!Init
<1>2. Driver!Next <=> DP!Next
  BY DEF Driver!Next, DP!Next, Driver!push_notification_kafka_plugin_init,
         DP!push_notification_kafka_plugin_init, Driver!userVars, DP!userVars, Driver!ctxVars,
         DP!ctxVars, Driver!globalVars, DP!globalVars, Driver!rdVars, DP!rdVars,
         Driver!push_notification_kafka_plugin_deinit,
         DP!push_notification_kafka_plugin_deinit, Driver!Running, DP!Running,
         Driver!UserCreated, DP!UserCreated, Driver!SessionReleases, DP!SessionReleases,
         Driver!mail_user_unref, DP!mail_user_unref, Driver!UserFreed, DP!UserFreed,
         Driver!push_notification_driver_kafka_init, DP!push_notification_driver_kafka_init,
         Driver!push_notification_driver_kafka_deinit,
         DP!push_notification_driver_kafka_deinit,
         Driver!push_notification_driver_kafka_deinit_topic,
         DP!push_notification_driver_kafka_deinit_topic,
         Driver!push_notification_driver_kafka_begin_txn,
         DP!push_notification_driver_kafka_begin_txn, Driver!mail_user_ref, DP!mail_user_ref,
         Driver!push_notification_driver_kafka_send_to_kafka,
         DP!push_notification_driver_kafka_send_to_kafka,
         Driver!push_notification_driver_kafka_init_topic,
         DP!push_notification_driver_kafka_init_topic,
         Driver!push_notification_driver_kafka_init_global,
         DP!push_notification_driver_kafka_init_global,
         Driver!push_notification_driver_kafka_end_txn,
         DP!push_notification_driver_kafka_end_txn,
         Driver!push_notification_driver_kafka_cleanup,
         DP!push_notification_driver_kafka_cleanup, Driver!Unused, DP!Unused,
         Driver!push_notification_driver_kafka_deinit_global,
         DP!push_notification_driver_kafka_deinit_global, Driver!Finished, DP!Finished,
         Driver!vars, DP!vars
<1>3. UNCHANGED Driver!vars <=> UNCHANGED DP!vars
  BY DEF Driver!vars, DP!vars, Driver!userVars, DP!userVars, Driver!ctxVars, DP!ctxVars,
         Driver!globalVars, DP!globalVars, Driver!rdVars, DP!rdVars
<1>4. [Driver!Next]_Driver!vars <=> [DP!Next]_DP!vars
  BY <1>2, <1>3
<1> QED
  BY <1>1, <1>4, PTL DEF Driver!Spec, DP!Spec

\* Send is the module KafkaSendProofs is about: first its settings.
LEMMA SameSettings ==
    /\ Send!max_retries = SP!max_retries
    /\ Send!retry_poll_time_in_ms = SP!retry_poll_time_in_ms
    /\ Send!topic_close_time_in_ms = SP!topic_close_time_in_ms
    /\ Send!flush_time_in_ms = SP!flush_time_in_ms
<1>1. Send!INT_MAX = SP!INT_MAX
  BY SMT DEF Send!INT_MAX, SP!INT_MAX
<1>2. \A raw, default : Send!IntSetting(raw, default) = SP!IntSetting(raw, default)
  BY <1>1 DEF Send!IntSetting, SP!IntSetting
<1> QED
  BY <1>2 DEF Send!max_retries, SP!max_retries,
              Send!retry_poll_time_in_ms, SP!retry_poll_time_in_ms,
              Send!topic_close_time_in_ms, SP!topic_close_time_in_ms,
              Send!flush_time_in_ms, SP!flush_time_in_ms

\* Then its behaviours.
LEMMA SameSend == Send!Spec <=> SP!Spec
<1>1. Send!Init <=> SP!Init
  BY DEF Send!Init, SP!Init
<1>2. \A S : Send!Cardinality(S) = SP!Cardinality(S)
  BY Zenon DEF Send!Cardinality, SP!Cardinality
<1>3. Send!OutqLen = SP!OutqLen
  BY <1>2 DEF Send!OutqLen, SP!OutqLen
<1>4. Send!Next <=> SP!Next
  BY <1>3, SameSettings
     DEF Send!Next, SP!Next, Send!Submit, SP!Submit, Send!CreateProducer, SP!CreateProducer,
         Send!librdkafka, SP!librdkafka, Send!NotInitialized, SP!NotInitialized, Send!Deinit,
         SP!Deinit, Send!GoTo, SP!GoTo, Send!handle, SP!handle, Send!Cleanup, SP!Cleanup,
         Send!ThreadStep, SP!ThreadStep, Send!Produce, SP!Produce, Send!Enqueue, SP!Enqueue,
         Send!PollFull, SP!PollFull, Send!rd_kafka_poll, SP!rd_kafka_poll,
         Send!push_notification_driver_kafka_msg_cb, SP!push_notification_driver_kafka_msg_cb,
         Send!PollAfterSend, SP!PollAfterSend,
         Send!push_notification_driver_kafka_deinit_topic,
         SP!push_notification_driver_kafka_deinit_topic, Send!FlushPoll, SP!FlushPoll,
         Send!call, SP!call, Send!FlushReturn, SP!FlushReturn, Send!Destroy, SP!Destroy,
         Send!Deliver, SP!Deliver, Send!Settle, SP!Settle, Send!Fail, SP!Fail, Send!Finished,
         SP!Finished, Send!vars, SP!vars
<1>5. UNCHANGED Send!vars <=> UNCHANGED SP!vars
  BY DEF Send!vars, SP!vars, Send!handle, SP!handle, Send!call, SP!call, Send!librdkafka,
         SP!librdkafka
<1>6. [Send!Next]_Send!vars <=> [SP!Next]_SP!vars
  BY <1>4, <1>5
<1> QED
  BY <1>1, <1>6, PTL DEF Send!Spec, SP!Spec

-----------------------------------------------------------------------------
(***************************************************************************)
(* The process keeps to the life cycle, as Next is built from its actions. *)
(***************************************************************************)
\* Every step is one of KafkaDriver's, or leaves its variables alone.
LEMMA DriverStep == [Next]_vars => [Driver!Next]_Driver!vars
<1> DEFINE Same == UNCHANGED <<rk, handles, driverVars>>
<1>1. Same => UNCHANGED Driver!vars
  BY DEF driverVars, Driver!vars, Driver!userVars, Driver!ctxVars, Driver!globalVars, Driver!rdVars
<1>2. SendGoesOn \/ LibrdkafkaStep \/ deinit_enters \/ cleanup_enters => Same
  BY DEF SendGoesOn, LibrdkafkaStep, deinit_enters, cleanup_enters, SendAlone
<1>3. PluginStep \/ Finished \/ cleanup => Driver!Next
  BY DEF PluginStep, Finished, DriverAlone, cleanup, Driver!Next
<1>4. \A u \in Users : UserCreated(u) \/ SessionReleases(u) \/ UserFreed(u) => Driver!Next
  BY DEF UserCreated, SessionReleases, UserFreed, DriverAlone, Driver!Next
<1>5. \A d \in Dusers : init(d) \/ deinit(d) => Driver!Next
  BY DEF init, deinit, DriverAlone, Driver!Next
<1>6. \A t \in Txns : begin_txn(t) \/ send_to_kafka(t) \/ end_txn(t) => Driver!Next
  BY DEF begin_txn, send_to_kafka, end_txn, DriverAlone, Driver!Next
<1>7. UNCHANGED vars => Same
  BY DEF vars
<1> QED
  BY <1>1, <1>2, <1>3, <1>4, <1>5, <1>6, <1>7 DEF Next, CallGoesOn

\* The mail process is a behaviour of KafkaDriver.
LEMMA ProcessIsDriver == Spec => Driver!Spec
<1>1. Init => Driver!Init
  BY DEF Init
<1> QED
  BY <1>1, DriverStep, PTL DEF Spec, Driver!Spec

\* So what is proved of KafkaDriver holds in the mail process.
LEMMA DriverFacts ==
    Spec => /\ []DP!RefcountExact
            /\ DP!DestroyedOnlyWhenUnused
<1>1. DP!Spec => []DP!RefcountExact
  BY DriverAssumptions, DP!RefcountIsExact
<1>2. DP!Spec => DP!DestroyedOnlyWhenUnused
  BY DriverAssumptions, DP!ProducerOutlivesContexts
<1>3. Spec => DP!Spec
  BY ProcessIsDriver, SameDriver
<1> QED
  BY <1>1, <1>2, <1>3, PTL

-----------------------------------------------------------------------------
(***************************************************************************)
(* The process implements the message handling.                            *)
(***************************************************************************)
\* The calls that do not touch the producer leave KafkaSend's variables alone.
LEMMA LifeCycleStep ==
    ASSUME DP!RefcountExact,
           \/ PluginStep \/ Finished
           \/ \E u \in Users : UserCreated(u) \/ SessionReleases(u) \/ UserFreed(u)
           \/ \E d \in Dusers : init(d)
           \/ \E t \in Txns : begin_txn(t) \/ end_txn(t)
    PROVE  UNCHANGED <<rk, handles, sendVars>>
<1> USE DEF DriverAlone, Driver!userVars, Driver!ctxVars, Driver!globalVars, Driver!rdVars
<1>1. CASE PluginStep
  BY <1>1 DEF PluginStep, Driver!push_notification_kafka_plugin_init,
              Driver!push_notification_kafka_plugin_deinit
<1>2. CASE Finished
  BY <1>2 DEF Finished, Driver!Finished, Driver!vars
<1>3. ASSUME NEW u \in Users, UserCreated(u) \/ SessionReleases(u) \/ UserFreed(u)
      PROVE  UNCHANGED <<rk, handles, sendVars>>
  BY <1>3 DEF UserCreated, SessionReleases, UserFreed, Driver!UserCreated,
              Driver!SessionReleases, Driver!UserFreed
<1>4. ASSUME NEW d \in Dusers, init(d)
      PROVE  UNCHANGED <<rk, handles, sendVars>>
  <2>1. ~kafka_global => rk = 0
    BY DEF DP!RefcountExact
  <2> QED
    BY <1>4, <2>1 DEF init, Driver!push_notification_driver_kafka_init
<1>5. ASSUME NEW t \in Txns, begin_txn(t) \/ end_txn(t)
      PROVE  UNCHANGED <<rk, handles, sendVars>>
  BY <1>5 DEF begin_txn, end_txn, Driver!push_notification_driver_kafka_begin_txn,
              Driver!push_notification_driver_kafka_end_txn
<1> QED
  BY <1>1, <1>2, <1>3, <1>4, <1>5

\* Every step is one of KafkaSend's, or leaves its variables alone.
LEMMA SendStep ==
    ASSUME DP!RefcountExact, [Next]_vars
    PROVE  [Send!Next]_Send!vars
<1> DEFINE Same == UNCHANGED <<rk, handles, sendVars>>
<1>1. Same => UNCHANGED Send!vars
  BY DEF sendVars, Send!vars, Send!handle, Send!call, Send!librdkafka
<1>2. SendGoesOn \/ LibrdkafkaStep \/ deinit_enters \/ cleanup_enters => Send!Next
  BY DEF SendGoesOn, LibrdkafkaStep, deinit_enters, cleanup_enters, SendAlone, Send!Next,
         Send!ThreadStep
<1>3. ASSUME NEW t \in Txns, send_to_kafka(t)
      PROVE  Send!Next \/ Same
  <2>1. CASE Send!Submit \/ Send!NotInitialized
    BY <2>1 DEF Send!Next
  <2>2. CASE proc' # "up" /\ UNCHANGED sendVars
    BY <1>3, <2>2 DEF send_to_kafka, Driver!push_notification_driver_kafka_send_to_kafka,
                      Driver!push_notification_driver_kafka_init_topic,
                      Driver!push_notification_driver_kafka_init_global, Driver!Running
  <2> QED
    BY <1>3, <2>1, <2>2 DEF send_to_kafka
<1>4. ASSUME NEW d \in Dusers, deinit(d)
      PROVE  Send!Next \/ Same
  <2>1. CASE Send!push_notification_driver_kafka_deinit_topic
    BY <2>1 DEF Send!Next, Send!ThreadStep
  <2>2. CASE UNCHANGED sendVars
    BY <1>4, <2>2 DEF deinit, Driver!push_notification_driver_kafka_deinit, Driver!rdVars
  <2> QED
    BY <1>4, <2>1, <2>2 DEF deinit
<1>5. ASSUME cleanup
      PROVE  Send!Next \/ Same
  <2>1. CASE Send!Destroy
    BY <2>1 DEF Send!Next, Send!ThreadStep
  <2>2. CASE ~(Driver!Unused /\ rk # 0) /\ UNCHANGED sendVars
    BY <1>5, <2>2 DEF cleanup, Driver!push_notification_driver_kafka_cleanup,
                      Driver!push_notification_driver_kafka_deinit_global
  <2> QED
    BY <1>5, <2>1, <2>2 DEF cleanup
<1>6. UNCHANGED vars => Same
  BY DEF vars
<1>7. Next => Send!Next \/ Same
  BY <1>2, <1>3, <1>4, <1>5, LifeCycleStep DEF Next, CallGoesOn
<1> QED
  BY <1>1, <1>6, <1>7

\* The mail process is a behaviour of KafkaSend.
THEOREM ProcessImplementsSend == Spec => ImplementsSend
<1>1. Init => Send!Init
  BY DEF Init
<1>2. DP!RefcountExact /\ [Next]_vars => [Send!Next]_Send!vars
  BY SendStep
<1> QED
  BY <1>1, <1>2, DriverFacts, PTL DEF Spec, ImplementsSend, Send!Spec

\* So what is proved of KafkaSend holds in the mail process.
LEMMA SendFacts ==
    Spec => /\ []SP!TypeOK
            /\ []SP!EveryMessageInOnePlace
            /\ SP!LostOnlyByFlushTimeout
<1>1. SP!Spec => []SP!TypeOK
  BY SendAssumptions, SP!SendTypeCorrect
<1>2. SP!Spec => []SP!EveryMessageInOnePlace
  BY SendAssumptions, SP!MessagesAreInOnePlace
<1>3. SP!Spec => SP!LostOnlyByFlushTimeout
  BY SendAssumptions, SP!LossNeedsFlushTimeout
<1>4. Spec => SP!Spec
  BY ProcessImplementsSend, SameSend DEF ImplementsSend
<1> QED
  BY <1>1, <1>2, <1>3, <1>4, PTL

-----------------------------------------------------------------------------
(***************************************************************************)
(* Properties that relate the two.                                         *)
(***************************************************************************)
\* Messages are purged only when the last producer goes.
LEMMA LossDestroys == [Next]_vars => [lost' # lost => rk # 0 /\ rk' = 0]_vars
<1> SUFFICES ASSUME Next, lost' # lost PROVE rk # 0 /\ rk' = 0
  OBVIOUS
<1>1. ~ UNCHANGED sendVars
  BY DEF sendVars
<1>2. ~ (SendGoesOn \/ LibrdkafkaStep \/ deinit_enters \/ cleanup_enters)
  BY DEF SendGoesOn, LibrdkafkaStep, deinit_enters, cleanup_enters, SendAlone, Send!Produce,
         Send!PollFull, Send!PollAfterSend, Send!FlushPoll, Send!FlushReturn, Send!Deliver,
         Send!Fail, Send!Settle, Send!Deinit, Send!Cleanup, Send!GoTo
<1>3. ~ \E t \in Txns : send_to_kafka(t)
  BY <1>1 DEF send_to_kafka, Send!Submit, Send!NotInitialized
<1>4. ~ \E d \in Dusers : deinit(d)
  BY <1>1 DEF deinit, Send!push_notification_driver_kafka_deinit_topic
<1>5. cleanup
  BY <1>1, <1>2, <1>3, <1>4 DEF Next, CallGoesOn, PluginStep, UserCreated, SessionReleases,
                            UserFreed, init, begin_txn, end_txn, Finished, DriverAlone
<1> QED
  BY <1>1, <1>5 DEF cleanup, Send!Destroy

\* A user who leaves does not cost the others their messages: they are purged
\* only with no context left, after a flush that ran into its timeout.
THEOREM NoLossBeforeShutdown == Spec => LossOnlyAtShutdown
<1> DEFINE OnlyPending ==
        \A m \in lost' \ lost : (\E i \in DOMAIN accepted : accepted[i] = m) /\ m \notin reported
<1>1. /\ [Next]_vars
      /\ [rk # 0 /\ rk' = 0 => DP!LiveContexts = {} /\ unflushed' = {}]_DP!vars
      /\ [lost' # lost => flushTimedOut /\ OnlyPending]_SP!vars
      => [lost' # lost => Driver!LiveContexts = {} /\ flushTimedOut]_vars
  <2> SUFFICES ASSUME [lost' # lost => rk # 0 /\ rk' = 0]_vars,
                      [rk # 0 /\ rk' = 0 => DP!LiveContexts = {} /\ unflushed' = {}]_DP!vars,
                      [lost' # lost => flushTimedOut /\ OnlyPending]_SP!vars,
                      lost' # lost
               PROVE  Driver!LiveContexts = {} /\ flushTimedOut
    BY LossDestroys
  <2>1. rk # 0 /\ rk' = 0
    BY DEF vars, sendVars
  <2>2. DP!LiveContexts = {}
    BY <2>1 DEF DP!vars, DP!globalVars
  <2>3. flushTimedOut
    BY DEF SP!vars
  <2> QED
    BY <2>2, <2>3 DEF Driver!LiveContexts, DP!LiveContexts
<1> QED
  BY <1>1, DriverFacts, SendFacts, PTL
     DEF Spec, LossOnlyAtShutdown, DP!DestroyedOnlyWhenUnused, SP!LostOnlyByFlushTimeout

\* There is a producer for every message librdkafka holds and inside every call
\* that uses one, and it counts as unflushed from before the first message on.
ProducerHoldsMessages ==
    /\ pc # "idle" => rk # 0
    /\ pc \in {"produce", "full"} => unflushed # {}
    /\ queue \cup reports # {} => rk # 0 /\ unflushed # {}

\* Steps inside a call and of librdkafka's thread.
LEMMA SendAloneHolds ==
    ASSUME ProducerHoldsMessages,
           SendGoesOn \/ LibrdkafkaStep \/ deinit_enters \/ cleanup_enters
    PROVE  ProducerHoldsMessages'
<1> USE DEF ProducerHoldsMessages
<1>1. UNCHANGED <<rk, unflushed>>
  BY DEF SendGoesOn, LibrdkafkaStep, deinit_enters, cleanup_enters, SendAlone, driverVars
<1>2. CASE SendGoesOn
  <2>1. CASE Send!Produce
    BY <1>1, <2>1 DEF Send!Produce, Send!Enqueue
  <2>2. CASE Send!PollFull
    BY <1>1, <2>2 DEF Send!PollFull, Send!rd_kafka_poll
  <2>3. CASE Send!PollAfterSend
    BY <1>1, <2>3 DEF Send!PollAfterSend, Send!rd_kafka_poll
  <2>4. CASE Send!FlushPoll
    BY <1>1, <2>4 DEF Send!FlushPoll, Send!rd_kafka_poll, Send!call
  <2>5. CASE Send!FlushReturn
    BY <1>1, <2>5 DEF Send!FlushReturn, Send!librdkafka
  <2> QED
    BY <1>2, <2>1, <2>2, <2>3, <2>4, <2>5 DEF SendGoesOn, SendAlone
<1>3. CASE LibrdkafkaStep
  BY <1>1, <1>3 DEF LibrdkafkaStep, SendAlone, Send!Deliver, Send!Fail, Send!Settle, Send!call
<1>4. CASE deinit_enters \/ cleanup_enters
  BY <1>1, <1>4 DEF deinit_enters, cleanup_enters, SendAlone, Send!Deinit, Send!Cleanup,
                    Send!GoTo, Send!librdkafka
<1> QED
  BY <1>2, <1>3, <1>4

\* The calls into the driver that touch both parts.
LEMMA CallHolds ==
    ASSUME SP!TypeOK, ProducerHoldsMessages,
           \/ \E t \in Txns : send_to_kafka(t)
           \/ \E d \in Dusers : deinit(d)
           \/ cleanup
    PROVE  ProducerHoldsMessages'
<1> USE DEF ProducerHoldsMessages
<1>1. ASSUME NEW t \in Txns, send_to_kafka(t)
      PROVE  ProducerHoldsMessages'
  <2>1. handles + 1 # 0
    BY DEF SP!TypeOK
  <2>2. unflushed \subseteq unflushed'
    BY <1>1 DEF send_to_kafka, Driver!push_notification_driver_kafka_send_to_kafka
  <2>3. rk' = rk \/ rk' = handles + 1
    BY <1>1 DEF send_to_kafka, Driver!push_notification_driver_kafka_send_to_kafka,
                Driver!push_notification_driver_kafka_init_topic,
                Driver!push_notification_driver_kafka_init_global
  <2>4. CASE Send!Submit /\ t \in unflushed'
    BY <2>1, <2>2, <2>3, <2>4 DEF Send!Submit, Send!CreateProducer, Send!librdkafka
  <2>5. CASE Send!NotInitialized
    BY <2>1, <2>2, <2>3, <2>5 DEF Send!NotInitialized, Send!librdkafka
  <2>6. CASE UNCHANGED sendVars
    BY <2>1, <2>2, <2>3, <2>6 DEF sendVars
  <2> QED
    BY <1>1, <2>4, <2>5, <2>6 DEF send_to_kafka
<1>2. ASSUME NEW d \in Dusers, deinit(d)
      PROVE  ProducerHoldsMessages'
  <2>1. UNCHANGED <<rk, unflushed>>
    BY <1>2 DEF deinit, Driver!push_notification_driver_kafka_deinit, Driver!rdVars
  <2>2. CASE Send!push_notification_driver_kafka_deinit_topic
    BY <2>1, <2>2 DEF Send!push_notification_driver_kafka_deinit_topic, Send!rd_kafka_poll
  <2>3. CASE UNCHANGED sendVars
    BY <2>1, <2>3 DEF sendVars
  <2> QED
    BY <1>2, <2>2, <2>3 DEF deinit
<1>3. CASE cleanup
  <2>1. CASE Send!Destroy
    BY <2>1 DEF Send!Destroy
  <2>2. CASE ~(Driver!Unused /\ rk # 0) /\ UNCHANGED sendVars
    <3>1. UNCHANGED <<rk, unflushed>>
      BY <1>3, <2>2 DEF cleanup, Driver!push_notification_driver_kafka_cleanup,
                        Driver!push_notification_driver_kafka_deinit_global
    <3> QED
      BY <2>2, <3>1 DEF sendVars
  <2> QED
    BY <1>3, <2>1, <2>2 DEF cleanup
<1> QED
  BY <1>1, <1>2, <1>3

\* ProducerHoldsMessages is inductive, given the facts about the parts.
LEMMA HoldsInvariant == Spec => []ProducerHoldsMessages
<1>1. Init => ProducerHoldsMessages
  BY DEF Init, Send!Init, ProducerHoldsMessages
<1>2. DP!RefcountExact /\ SP!TypeOK /\ ProducerHoldsMessages /\ [Next]_vars
      => ProducerHoldsMessages'
  <2> SUFFICES ASSUME DP!RefcountExact, SP!TypeOK, ProducerHoldsMessages, [Next]_vars
               PROVE  ProducerHoldsMessages'
    OBVIOUS
  <2>1. CASE \/ PluginStep \/ Finished
             \/ \E u \in Users : UserCreated(u) \/ SessionReleases(u) \/ UserFreed(u)
             \/ \E d \in Dusers : init(d)
             \/ \E t \in Txns : begin_txn(t) \/ end_txn(t)
    <3>1. UNCHANGED <<rk, sendVars>>
      BY <2>1, LifeCycleStep
    <3>2. UNCHANGED unflushed
      BY <2>1 DEF PluginStep, Finished, UserCreated, SessionReleases, UserFreed, init, begin_txn,
                  end_txn, DriverAlone, Driver!push_notification_kafka_plugin_init,
                  Driver!push_notification_kafka_plugin_deinit, Driver!Finished, Driver!vars,
                  Driver!UserCreated, Driver!SessionReleases, Driver!UserFreed,
                  Driver!push_notification_driver_kafka_init,
                  Driver!push_notification_driver_kafka_begin_txn,
                  Driver!push_notification_driver_kafka_end_txn, Driver!rdVars
    <3> QED
      BY <3>1, <3>2 DEF sendVars, ProducerHoldsMessages
  <2>2. CASE UNCHANGED vars
    BY <2>2 DEF vars, sendVars, driverVars, ProducerHoldsMessages
  <2> QED
    BY <2>1, <2>2, SendAloneHolds, CallHolds DEF Next, CallGoesOn
<1> QED
  BY <1>1, <1>2, DriverFacts, SendFacts, PTL DEF Spec

\* No message is left in the queue of a producer nobody will flush.
THEOREM PendingMessagesAreUnflushed == Spec => []PendingIsUnflushed
<1>1. ProducerHoldsMessages => PendingIsUnflushed
  BY DEF ProducerHoldsMessages, PendingIsUnflushed
<1> QED
  BY <1>1, HoldsInvariant, PTL

\* With every user enabled, no producer is left when the plugin is unloaded.
THEOREM ProcessShutsDown ==
    ASSUME EnabledValues = {TRUE}
    PROVE  Spec => []ShutdownBeforeUnload
<1>1. DP!Spec => []DP!ShutdownBeforeUnload
  BY DriverAssumptions, DP!ShutdownPrecedesUnload
<1>2. DP!ShutdownBeforeUnload => ShutdownBeforeUnload
  BY DEF DP!ShutdownBeforeUnload, ShutdownBeforeUnload, Driver!ShutdownBeforeUnload
<1> QED
  BY <1>1, <1>2, ProcessIsDriver, SameDriver, PTL

\* With every user enabled, each message is settled when the plugin is unloaded.
THEOREM MessagesSettledBeforeUnload ==
    ASSUME EnabledValues = {TRUE}
    PROVE  Spec => []SettledBeforeUnload
<1>1. Spec => []ShutdownBeforeUnload
  BY ProcessShutsDown
<1>2. ShutdownBeforeUnload /\ SP!EveryMessageInOnePlace /\ ProducerHoldsMessages
      => SettledBeforeUnload
  <2> SUFFICES ASSUME ShutdownBeforeUnload, SP!EveryMessageInOnePlace, ProducerHoldsMessages,
                      plugin = "unregistered"
               PROVE  reported \cup dropped \cup lost = 1..cur
    BY DEF SettledBeforeUnload
  <2>1. queue = {} /\ reports = {} /\ pc \notin {"produce", "full"}
    BY DEF ShutdownBeforeUnload, Driver!ShutdownBeforeUnload, ProducerHoldsMessages
  <2>2. SP!InHand = {}
    BY <2>1 DEF SP!InHand
  <2>3. DOMAIN SP!Places = {1, 2, 3, 4, 5, 6}
    BY DEF SP!Places
  <2>4. UNION {SP!Places[i] : i \in DOMAIN SP!Places} = dropped \cup reported \cup lost
    BY <2>1, <2>2, <2>3 DEF SP!Places
  <2> QED
    BY <2>4 DEF SP!EveryMessageInOnePlace
<1> QED
  BY <1>1, <1>2, SendFacts, HoldsInvariant, PTL
=============================================================================
