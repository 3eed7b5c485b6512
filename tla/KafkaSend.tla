----------------------------- MODULE KafkaSend -----------------------------
(***************************************************************************)
(* What happens to the messages: the retry loop of send_to_kafka, the poll *)
(* in deinit_topic and the flush and destroy of deinit_global              *)
(* (src/src/push-notification-kafka-driver.c), run by the mail process's   *)
(* single thread, against librdkafka's background thread.                  *)
(*                                                                         *)
(* librdkafka and the broker are external.  What the driver relies on:     *)
(* a message accepted by rd_kafka_produce counts against the queue limit   *)
(* until its delivery report has been served (comment at line 247); polls  *)
(* serve the reports that are waiting, and return without one once their   *)
(* timeout, if it is not negative, has passed; what is still queued when   *)
(* the handle is destroyed is purged.  Partitions, batches and resends let *)
(* the messages of one queue settle in any order.  The broker may be gone  *)
(* for good: nothing below assumes that a message is ever delivered.       *)
(*                                                                         *)
(* Messages are numbered in the order in which send_to_kafka gets them.    *)
(* When deinit and cleanup are called is KafkaDriver's subject: here they  *)
(* may come whenever no other call is in progress.                         *)
(***************************************************************************)
EXTENDS Integers, Sequences, FiniteSets

CONSTANTS
    NumMsgs,            \* bound: messages submitted in a behaviour
    QueueMax,           \* queue.buffering.max.messages
    Unset, NotANumber,  \* a setting that is absent, or that str_to_int refuses
    RawMaxRetries,      \* kafka.notification.kafka_max_retries
    RawRetryPollTime,   \* kafka.notification.kafka_retry_poll_time_in_ms
    RawTopicCloseTime,  \* kafka.notification.kafka_topic_close_time_in_ms
    RawFlushTime        \* kafka.notification.kafka_flush_time_in_ms

INT_MAX == 2147483647

RawSettings == Int \cup {Unset, NotANumber}

ASSUME BoundsAssumption   == NumMsgs \in Nat /\ QueueMax \in Nat \ {0}
ASSUME SettingsAssumption ==
    {RawMaxRetries, RawRetryPollTime, RawTopicCloseTime, RawFlushTime} \subseteq RawSettings

\* Mutant: only what str_to_int refuses is replaced, a negative number is kept.
IntSettingAnyNumber(raw, default) == IF raw \in -INT_MAX..INT_MAX THEN raw ELSE default

\* init takes a setting if str_to_int accepts it and it is not negative.
IntSetting(raw, default) == IF raw \in 0..INT_MAX THEN raw ELSE default

max_retries            == IntSetting(RawMaxRetries, 0)
retry_poll_time_in_ms  == IntSetting(RawRetryPollTime, 500)
topic_close_time_in_ms == IntSetting(RawTopicCloseTime, 1000)
flush_time_in_ms       == IntSetting(RawFlushTime, 1000)

VARIABLES
    rk,             \* kafka_global->rk: 0 for NULL, or the number of a handle
    handles,        \* number of handles rd_kafka_new returned: they are 1..handles
    pc,             \* where the mail process's thread is
    cur,            \* the message last handed to send_to_kafka
    retry_counter,  \* send_to_kafka's local
    queue,          \* librdkafka: messages accepted and not yet delivered or failed
    reports,        \* librdkafka: messages whose delivery report waits for a poll
    acked,          \* librdkafka: messages the broker acknowledged
    reported,       \* messages msg_cb was called for
    dropped,        \* messages send_to_kafka gave up
    errors,         \* messages with a failure in the log that a later success did not undo
    flushTimedOut,  \* the last rd_kafka_flush returned with messages left
    lost,           \* history: messages purged with their handle
    accepted,       \* history: the messages rd_kafka_produce enqueued
    attempts,       \* history: rd_kafka_produce calls made for cur
    served          \* history: a retry poll for cur served a report

call       == <<pc, cur, retry_counter, attempts, served>>
librdkafka == <<queue, reports, acked, reported>>
handle     == <<rk, handles>>
vars       == <<handle, call, librdkafka, dropped, errors, flushTimedOut, lost, accepted>>

Msgs == 1..NumMsgs

\* rd_kafka_outq_len: what counts against the queue limit.
OutqLen == Cardinality(queue) + Cardinality(reports)

TypeOK ==
    /\ rk \in Nat /\ handles \in Nat
    /\ pc \in {"idle", "produce", "full", "poll", "close", "flush", "destroy"}
    /\ cur \in 0..NumMsgs
    /\ retry_counter \in Nat
    /\ queue \in SUBSET Msgs
    /\ reports \in SUBSET Msgs
    /\ acked \in SUBSET Msgs
    /\ reported \in SUBSET Msgs
    /\ dropped \in SUBSET Msgs
    /\ errors \in SUBSET Msgs
    /\ flushTimedOut \in BOOLEAN
    /\ lost \in SUBSET Msgs
    /\ accepted \in Seq(Msgs)
    /\ attempts \in Nat
    /\ served \in BOOLEAN

Init ==
    /\ rk = 0 /\ handles = 0
    /\ pc = "idle"
    /\ cur = 0
    /\ retry_counter = 0
    /\ queue = {}
    /\ reports = {}
    /\ acked = {}
    /\ reported = {}
    /\ dropped = {}
    /\ errors = {}
    /\ flushTimedOut = FALSE
    /\ lost = {}
    /\ accepted = <<>>
    /\ attempts = 0
    /\ served = FALSE

-----------------------------------------------------------------------------
(***************************************************************************)
(* librdkafka's thread.  Both steps leave a report for the next poll.      *)
(***************************************************************************)
Settle(m) ==
    /\ queue' = queue \ {m}
    /\ reports' = reports \cup {m}
    /\ UNCHANGED <<handle, call, reported, dropped, errors, flushTimedOut, lost, accepted>>

Deliver == \E m \in queue : Settle(m) /\ acked' = acked \cup {m}

\* Timed out or refused by the broker for good.
Fail == \E m \in queue : Settle(m) /\ UNCHANGED acked

\* Mutant: msg_cb leaves failed deliveries to the debug build.
MsgCbOnlyInDebug(S) == UNCHANGED errors

\* The delivery report callback writes down the deliveries that failed.
push_notification_driver_kafka_msg_cb(S) == errors' = errors \cup (S \ acked)

\* rd_kafka_poll(rk, timeout): serves every waiting report through msg_cb, or
\* returns with none when the timeout passes.  A negative timeout never passes.
rd_kafka_poll(timeout) ==
    /\ reports # {} \/ timeout >= 0
    /\ reported' = reported \cup reports
    /\ reports' = {}
    /\ push_notification_driver_kafka_msg_cb(reports)
    /\ UNCHANGED <<queue, acked>>

-----------------------------------------------------------------------------
(***************************************************************************)
(* send_to_kafka.                                                          *)
(***************************************************************************)
\* init_global: the producer is created when there is none.
CreateProducer ==
    /\ rk' = IF rk = 0 THEN handles + 1 ELSE rk
    /\ handles' = IF rk = 0 THEN handles + 1 ELSE handles

\* A topic object is in place once init_topic returns.
Submit ==
    /\ pc = "idle"
    /\ cur < NumMsgs
    /\ CreateProducer
    /\ pc' = "produce"
    /\ cur' = cur + 1
    /\ retry_counter' = 0
    /\ attempts' = 0
    /\ served' = FALSE
    /\ UNCHANGED <<librdkafka, dropped, errors, flushTimedOut, lost, accepted>>

\* There is no topic object, as the producer or the topic could not be created.
NotInitialized ==
    /\ pc = "idle"
    /\ cur < NumMsgs
    /\ CreateProducer \/ (rk' = rk /\ handles' = handles)
    /\ cur' = cur + 1
    /\ dropped' = dropped \cup {cur'}
    /\ errors' = errors \cup {cur'}
    /\ UNCHANGED <<pc, retry_counter, attempts, served, librdkafka, flushTimedOut, lost, accepted>>

Enqueue ==
    /\ queue' = queue \cup {cur}
    /\ accepted' = Append(accepted, cur)

\* Mutant: a produce that succeeded goes through the retry loop as well.
ProduceRetriesSuccess ==
    /\ pc = "produce"
    /\ attempts' = attempts + 1
    /\ IF OutqLen < QueueMax THEN Enqueue ELSE UNCHANGED <<queue, accepted>>
    /\ pc' = "full"
    /\ UNCHANGED <<handle, cur, retry_counter, served, reports, acked, reported, dropped,
                   errors, flushTimedOut, lost>>

\* The three outcomes of rd_kafka_produce: enqueued; RD_KAFKA_RESP_ERR__QUEUE_FULL;
\* any other error, which is not retried.  Each failed call is logged; the line about
\* a full queue no longer tells of a failure once a retry gets the message through.
Produce ==
    /\ pc = "produce"
    /\ attempts' = attempts + 1
    /\ \/ /\ OutqLen < QueueMax
          /\ Enqueue
          /\ pc' = "poll"
          /\ errors' = errors \ {cur}
          /\ UNCHANGED dropped
       \/ /\ OutqLen >= QueueMax
          /\ pc' = "full"
          /\ errors' = errors \cup {cur}
          /\ UNCHANGED <<queue, accepted, dropped>>
       \/ /\ pc' = "poll"
          /\ errors' = errors \cup {cur}
          /\ dropped' = dropped \cup {cur}
          /\ UNCHANGED <<queue, accepted>>
    /\ UNCHANGED <<handle, cur, retry_counter, served, reports, acked, reported, flushTimedOut, lost>>

\* Mutant: the counter is compared after it was incremented.
PollFullOneRetryShort ==
    /\ pc = "full"
    /\ rd_kafka_poll(retry_poll_time_in_ms)
    /\ retry_counter' = retry_counter + 1
    /\ IF retry_counter + 1 < max_retries
       THEN pc' = "produce" /\ served' = (served \/ reports # {}) /\ UNCHANGED dropped
       ELSE pc' = "poll" /\ dropped' = dropped \cup {cur} /\ UNCHANGED served
    /\ UNCHANGED <<handle, cur, attempts, flushTimedOut, lost, accepted>>

\* Mutant: the counter runs downwards.
PollFullCountsDown ==
    /\ pc = "full"
    /\ rd_kafka_poll(retry_poll_time_in_ms)
    /\ retry_counter' = retry_counter - 1
    /\ pc' = "produce"
    /\ served' = (served \/ reports # {})
    /\ UNCHANGED <<handle, cur, attempts, dropped, flushTimedOut, lost, accepted>>

\* Wait for reports to make room, then retry or give the message up.
PollFull ==
    /\ pc = "full"
    /\ rd_kafka_poll(retry_poll_time_in_ms)
    /\ retry_counter' = retry_counter + 1
    /\ \/ /\ retry_counter < max_retries
          /\ pc' = "produce"
          /\ served' = (served \/ reports # {})
          /\ UNCHANGED dropped
       \/ /\ retry_counter >= max_retries
          /\ pc' = "poll"
          /\ dropped' = dropped \cup {cur}
          /\ UNCHANGED served
    /\ UNCHANGED <<handle, cur, attempts, flushTimedOut, lost, accepted>>

\* "Keep Kafka happy": a non-blocking poll ends every send.
PollAfterSend ==
    /\ pc = "poll"
    /\ rd_kafka_poll(0)
    /\ pc' = "idle"
    /\ UNCHANGED <<handle, cur, retry_counter, attempts, served, dropped, flushTimedOut, lost, accepted>>

-----------------------------------------------------------------------------
(***************************************************************************)
(* A driver context is deinitialised; after the last one, cleanup.         *)
(***************************************************************************)
GoTo(label) ==
    /\ pc' = label
    /\ UNCHANGED <<handle, cur, retry_counter, attempts, served, librdkafka, dropped, errors,
                   flushTimedOut, lost, accepted>>

Deinit == pc = "idle" /\ rk # 0 /\ GoTo("close")

push_notification_driver_kafka_deinit_topic ==
    /\ pc = "close"
    /\ rd_kafka_poll(topic_close_time_in_ms)
    /\ pc' = "idle"
    /\ UNCHANGED <<handle, cur, retry_counter, attempts, served, dropped, flushTimedOut, lost, accepted>>

\* Mutant: the producer is destroyed without being flushed.
CleanupWithoutFlush == pc = "idle" /\ rk # 0 /\ GoTo("destroy")

\* cleanup enters deinit_global with a producer to shut down.
Cleanup == pc = "idle" /\ rk # 0 /\ GoTo("flush")

\* rd_kafka_flush polls until nothing is left or its time is up; the driver does
\* not look at what it returns.
FlushPoll ==
    /\ pc = "flush"
    /\ reports # {}
    /\ rd_kafka_poll(0)
    /\ UNCHANGED <<handle, call, dropped, flushTimedOut, lost, accepted>>

FlushReturn ==
    /\ pc = "flush"
    /\ OutqLen = 0 \/ flush_time_in_ms >= 0
    /\ flushTimedOut' = (OutqLen # 0)
    /\ pc' = "destroy"
    /\ UNCHANGED <<handle, cur, retry_counter, attempts, served, librdkafka, dropped, errors, lost, accepted>>

\* rd_kafka_destroy purges what is left without calling msg_cb, and
\* rd_kafka_wait_destroyed returns at the latest after its timeout.
Destroy ==
    /\ pc = "destroy"
    /\ pc' = "idle"
    /\ rk' = 0
    /\ lost' = lost \cup queue \cup reports
    /\ queue' = {}
    /\ reports' = {}
    /\ UNCHANGED <<handles, cur, retry_counter, attempts, served, acked, reported, dropped,
                   errors, flushTimedOut, accepted>>

\* The process is over.
Finished == pc = "idle" /\ UNCHANGED vars

-----------------------------------------------------------------------------
\* Steps of a call in progress on the mail process's thread.
ThreadStep ==
    \/ Produce \/ PollFull \/ PollAfterSend
    \/ push_notification_driver_kafka_deinit_topic
    \/ FlushPoll \/ FlushReturn \/ Destroy

Next ==
    \/ Submit \/ NotInitialized \/ Deinit \/ Cleanup
    \/ ThreadStep
    \/ Deliver \/ Fail
    \/ Finished

Spec == Init /\ [][Next]_vars

\* A call in progress goes on.  No fairness for librdkafka: with the broker out of
\* reach its messages may stay queued for longer than any wait of the driver.
FairSpec == Spec /\ WF_vars(ThreadStep)

-----------------------------------------------------------------------------
(***************************************************************************)
(* Safety.                                                                 *)
(***************************************************************************)

\* send_to_kafka gives a message up for a full queue only after max_retries
\* retries, and only if none of the waits before a retry made room: a retry that
\* follows a served report cannot meet a full queue.
GiveUpIsJustified ==
    [][pc = "full" /\ pc' = "poll" => attempts = max_retries + 1 /\ ~served]_vars

\* The retry loop never enqueues a message twice nor lets one overtake an
\* earlier one: what librdkafka gets is strictly increasing.
AcceptedOnceInOrder ==
    \A i, j \in DOMAIN accepted : i < j => accepted[i] < accepted[j]

\* Each submitted message is in exactly one place: given up, queued, waiting for
\* its report to be served, reported, purged with a handle, or in the hands of
\* send_to_kafka.
InHand == IF pc \in {"produce", "full"} THEN {cur} ELSE {}

Places == <<dropped, queue, reports, reported, lost, InHand>>

EveryMessageInOnePlace ==
    /\ UNION {Places[i] : i \in DOMAIN Places} = 1..cur
    /\ \A i, j \in DOMAIN Places : i # j => Places[i] \cap Places[j] = {}

\* A message that is no longer on its way was acknowledged by the broker, or a
\* failure was logged for it, or it was purged with its handle.
NoSilentFailure ==
    1..cur \subseteq acked \cup errors \cup queue \cup reports \cup InHand \cup lost

\* A message is purged with its handle only if the flush before the destroy ran into
\* its timeout, and then only one that rd_kafka_produce had enqueued and for which
\* msg_cb has not been called.
LostOnlyByFlushTimeout ==
    [][lost' # lost =>
         /\ flushTimedOut
         /\ \A m \in lost' \ lost : (\E i \in DOMAIN accepted : accepted[i] = m) /\ m \notin reported]_vars

\* msg_cb is called for every message librdkafka accepted.
CallbackForEveryMessage == lost = {}

(***************************************************************************)
(* Liveness.                                                               *)
(***************************************************************************)

\* send_to_kafka returns, even if the broker never answers again.
SendReturns == pc \in {"produce", "full", "poll"} ~> pc = "idle"

\* Shutting down ends, even if the broker never answers again and whatever the
\* configured waiting times are.
ShutdownEnds == pc \in {"close", "flush", "destroy"} ~> pc = "idle"

(***************************************************************************)
(* Refinement.                                                             *)
(***************************************************************************)
Fate == [m \in Msgs |->
    CASE m > cur                  -> "unsent"
      [] m \in dropped            -> "given up"
      [] m \in queue \cup reports -> "queued"
      [] m \in reported           -> "reported"
      [] m \in lost               -> "lost"
      [] OTHER                    -> "handed"]

D == INSTANCE Delivery WITH fate <- Fate

\* The retry loop, the polls and the shutdown sequence together are the simple
\* protocol of Delivery.
ImplementsDelivery == D!Spec
=============================================================================
