-------------------------- MODULE KafkaSendProofs --------------------------
(***************************************************************************)
(* Proofs about KafkaSend, for any number of messages, queue limit and     *)
(* settings.  SendInv, the inductive invariant, has a part for each        *)
(* question: where a message is, in which order librdkafka got them, what  *)
(* the log says of them, what a flush leaves behind, and how far the retry *)
(* loop has come.                                                          *)
(***************************************************************************)
EXTENDS KafkaSend, FiniteSetTheorems, SequenceTheorems, TLAPS

\* EveryMessageInOnePlace, place by place.
PlacesExact ==
    /\ dropped \cup queue \cup reports \cup reported \cup lost \cup InHand = 1..cur
    /\ dropped \cap (queue \cup reports \cup reported \cup lost \cup InHand) = {}
    /\ queue \cap (reports \cup reported \cup lost \cup InHand) = {}
    /\ reports \cap (reported \cup lost \cup InHand) = {}
    /\ reported \cap (lost \cup InHand) = {}
    /\ lost \cap InHand = {}

\* Only messages from before the one in hand were accepted.
AcceptedBefore ==
    \A i \in DOMAIN accepted :
        accepted[i] <= cur /\ (pc \in {"produce", "full"} => accepted[i] < cur)

\* librdkafka has only messages that rd_kafka_produce enqueued.
PendingWereAccepted ==
    \A m \in queue \cup reports : \E i \in DOMAIN accepted : accepted[i] = m

\* A failure is logged before the message leaves the driver's hands or its
\* report is forgotten.
FailuresLogged ==
    /\ dropped \subseteq errors
    /\ reported \subseteq acked \cup errors
    /\ pc = "full" => cur \in errors

\* A flush that did not time out left nothing behind.
FlushedIsEmpty == pc = "destroy" /\ ~flushTimedOut => queue \cup reports = {}

\* The queue never exceeds its limit, the calls made are the retries plus one,
\* and a served report leaves room until the retry.
RetryExact ==
    /\ OutqLen <= QueueMax
    /\ pc \in {"produce", "full"} => retry_counter <= max_retries
    /\ pc = "produce" => attempts = retry_counter /\ (served => OutqLen < QueueMax)
    /\ pc = "full" => attempts = retry_counter + 1 /\ ~served

SendInv ==
    /\ TypeOK
    /\ PlacesExact
    /\ AcceptedOnceInOrder /\ AcceptedBefore /\ PendingWereAccepted
    /\ FailuresLogged
    /\ FlushedIsEmpty
    /\ RetryExact

-----------------------------------------------------------------------------
(***************************************************************************)
(* Settings and the queue's length.                                        *)
(***************************************************************************)
\* Whatever is configured, the number of retries is a natural number.
LEMMA MaxRetriesType == max_retries \in Nat
<1>1. INT_MAX \in Int
  BY SMT DEF INT_MAX
<1> QED
  BY <1>1 DEF max_retries, IntSetting

\* The sets whose sizes rd_kafka_outq_len adds up are finite.
LEMMA OutqLenType ==
    ASSUME TypeOK
    PROVE  /\ IsFiniteSet(queue) /\ IsFiniteSet(reports)
           /\ Cardinality(queue) \in Nat /\ Cardinality(reports) \in Nat
           /\ OutqLen \in Nat
           /\ OutqLen = 0 <=> queue \cup reports = {}
<1>1. IsFiniteSet(Msgs)
  BY BoundsAssumption, FS_Interval DEF Msgs
<1>2. IsFiniteSet(queue) /\ IsFiniteSet(reports)
  BY <1>1, FS_Subset DEF TypeOK
<1>3. Cardinality(queue) \in Nat /\ Cardinality(reports) \in Nat
  BY <1>2, FS_CardinalityType
<1>4. (Cardinality(queue) = 0 <=> queue = {}) /\ (Cardinality(reports) = 0 <=> reports = {})
  BY <1>2, FS_EmptySet
<1> QED
  BY <1>2, <1>3, <1>4 DEF OutqLen

\* A message that is delivered or fails keeps its place in the queue's count.
LEMMA SettleKeepsOutqLen ==
    ASSUME TypeOK, PlacesExact, NEW m \in queue,
           queue' = queue \ {m}, reports' = reports \cup {m}
    PROVE  OutqLen' = OutqLen
<1>1. m \notin reports
  BY DEF PlacesExact
<1>2. Cardinality(queue') = Cardinality(queue) - 1
  BY OutqLenType, FS_RemoveElement
<1>3. Cardinality(reports') = Cardinality(reports) + 1
  BY <1>1, OutqLenType, FS_AddElement
<1> QED
  BY <1>2, <1>3, OutqLenType DEF OutqLen

\* An accepted message counts once.
LEMMA EnqueueCounts ==
    ASSUME TypeOK, PlacesExact, pc = "produce", Enqueue, reports' = reports
    PROVE  OutqLen' = OutqLen + 1
<1>1. cur \notin queue
  BY DEF PlacesExact, InHand
<1>2. Cardinality(queue') = Cardinality(queue) + 1
  BY <1>1, OutqLenType, FS_AddElement DEF Enqueue
<1> QED
  BY <1>2, OutqLenType DEF OutqLen

\* A poll that serves a report makes room, and no poll fills the queue.
LEMMA PollMakesRoom ==
    ASSUME TypeOK, NEW timeout, rd_kafka_poll(timeout)
    PROVE  OutqLen' \in Nat /\ OutqLen' <= OutqLen /\ (reports # {} => OutqLen' < OutqLen)
<1>1. Cardinality(queue') = Cardinality(queue) /\ Cardinality(reports') = 0
  BY FS_EmptySet DEF rd_kafka_poll
<1>2. reports # {} => Cardinality(reports) # 0
  BY OutqLenType, FS_EmptySet
<1> QED
  BY <1>1, <1>2, OutqLenType DEF OutqLen

\* What librdkafka accepted are numbers of messages.
LEMMA AcceptedType ==
    ASSUME TypeOK
    PROVE  \A i \in DOMAIN accepted : accepted[i] \in Nat
<1>1. accepted \in Seq(Msgs) /\ Msgs \subseteq Nat
  BY DEF TypeOK, Msgs
<1>2. DOMAIN accepted = 1..Len(accepted)
  BY <1>1, LenProperties
<1> QED
  BY <1>1, <1>2, ElementOfSeq

-----------------------------------------------------------------------------
(***************************************************************************)
(* The parts of the invariant, one step of the specification at a time.    *)
(***************************************************************************)
\* No message exists yet.
LEMMA SendInvInit == Init => SendInv
<1> SUFFICES ASSUME Init PROVE SendInv
  OBVIOUS
<1>1. TypeOK
  <2>1. cur \in 0..NumMsgs /\ accepted \in Seq(Msgs)
    BY BoundsAssumption DEF Init
  <2> QED
    BY <2>1 DEF Init, TypeOK
<1>2. PlacesExact
  BY DEF Init, PlacesExact, InHand
<1>3. AcceptedOnceInOrder /\ AcceptedBefore /\ PendingWereAccepted
  BY DEF Init, AcceptedOnceInOrder, AcceptedBefore, PendingWereAccepted
<1>4. FailuresLogged /\ FlushedIsEmpty
  BY DEF Init, FailuresLogged, FlushedIsEmpty
<1>5. OutqLen = 0
  BY <1>1, OutqLenType DEF Init
<1>6. RetryExact
  BY <1>5, BoundsAssumption DEF Init, RetryExact
<1> QED
  BY <1>1, <1>2, <1>3, <1>4, <1>6 DEF SendInv

\* Every step keeps the types; of the counters only retry_counter and attempts
\* are not bounded by it.
LEMMA TypeStep ==
    ASSUME TypeOK, PlacesExact, [Next]_vars
    PROVE  TypeOK'
<1> USE DEF TypeOK, vars, handle, call, librdkafka
<1>1. CASE Submit
  <2>1. cur' \in 0..NumMsgs
    BY <1>1, BoundsAssumption DEF Submit
  <2>2. rk' \in Nat /\ handles' \in Nat
    BY <1>1 DEF Submit, CreateProducer
  <2>3. retry_counter' \in Nat /\ attempts' \in Nat /\ served' \in BOOLEAN /\ pc' = "produce"
    BY <1>1 DEF Submit
  <2> QED
    BY <1>1, <2>1, <2>2, <2>3 DEF Submit
<1>2. CASE NotInitialized
  <2>1. cur' \in 0..NumMsgs /\ cur' \in Msgs
    BY <1>2, BoundsAssumption DEF NotInitialized, Msgs
  <2> QED
    BY <1>2, <2>1 DEF NotInitialized, CreateProducer
<1>3. CASE Deinit
  BY <1>3 DEF Deinit, GoTo
<1>4. CASE Cleanup
  BY <1>4 DEF Cleanup, GoTo
<1>5. CASE Produce
  <2>1. cur \in Msgs
    BY <1>5 DEF Produce, PlacesExact, InHand, Msgs
  <2>2. queue' \in SUBSET Msgs /\ accepted' \in Seq(Msgs)
    <3>1. Append(accepted, cur) \in Seq(Msgs)
      BY <2>1, AppendProperties
    <3> QED
      BY <1>5, <2>1, <3>1 DEF Produce, Enqueue
  <2> QED
    <3>1. dropped' \in SUBSET Msgs /\ errors' \in SUBSET Msgs /\ pc' \in {"poll", "full"}
      BY <1>5, <2>1 DEF Produce
    <3>2. attempts' \in Nat
      BY <1>5 DEF Produce
    <3> QED
      BY <1>5, <2>2, <3>1, <3>2 DEF Produce
<1>6. CASE PollFull
  <2>1. cur \in Msgs
    BY <1>6 DEF PollFull, PlacesExact, InHand, Msgs
  <2>2. served' \in BOOLEAN /\ dropped' \in SUBSET Msgs /\ pc' \in {"produce", "poll"}
    BY <1>6, <2>1 DEF PollFull
  <2> QED
    BY <1>6, <2>2 DEF PollFull, rd_kafka_poll, push_notification_driver_kafka_msg_cb
<1>7. CASE PollAfterSend
  BY <1>7 DEF PollAfterSend, rd_kafka_poll, push_notification_driver_kafka_msg_cb
<1>8. CASE push_notification_driver_kafka_deinit_topic
  BY <1>8 DEF push_notification_driver_kafka_deinit_topic, rd_kafka_poll,
              push_notification_driver_kafka_msg_cb
<1>9. CASE FlushPoll
  BY <1>9 DEF FlushPoll, rd_kafka_poll, push_notification_driver_kafka_msg_cb
<1>10. CASE FlushReturn
  BY <1>10 DEF FlushReturn
<1>11. CASE Destroy
  BY <1>11 DEF Destroy
<1>12. CASE Deliver \/ Fail
  BY <1>12 DEF Deliver, Fail, Settle
<1>13. CASE UNCHANGED vars
  BY <1>13
<1> QED
  BY <1>1, <1>2, <1>3, <1>4, <1>5, <1>6, <1>7, <1>8, <1>9, <1>10, <1>11, <1>12, <1>13
     DEF Next, ThreadStep, Finished

\* Each step moves messages from one place to the next: the new one into the
\* driver's hands, the one in hand to the queue or away, reports to reported.
LEMMA PlacesStep ==
    ASSUME TypeOK, PlacesExact, [Next]_vars
    PROVE  PlacesExact'
<1> USE DEF PlacesExact, InHand, vars, handle, call, librdkafka
<1>1. CASE Submit
  <2>1. 1..cur' = (1..cur) \cup {cur'} /\ cur' \notin 1..cur
    BY <1>1 DEF Submit, TypeOK
  <2> QED
    BY <1>1, <2>1 DEF Submit
<1>2. CASE NotInitialized
  <2>1. 1..cur' = (1..cur) \cup {cur'} /\ cur' \notin 1..cur
    BY <1>2 DEF NotInitialized, TypeOK
  <2> QED
    BY <1>2, <2>1 DEF NotInitialized
<1>3. CASE Deinit
  BY <1>3 DEF Deinit, GoTo
<1>4. CASE Cleanup
  BY <1>4 DEF Cleanup, GoTo
<1>5. CASE Produce
  BY <1>5 DEF Produce, Enqueue
<1>6. CASE PollFull
  BY <1>6 DEF PollFull, rd_kafka_poll
<1>7. CASE PollAfterSend
  BY <1>7 DEF PollAfterSend, rd_kafka_poll
<1>8. CASE push_notification_driver_kafka_deinit_topic
  BY <1>8 DEF push_notification_driver_kafka_deinit_topic, rd_kafka_poll
<1>9. CASE FlushPoll
  BY <1>9 DEF FlushPoll, rd_kafka_poll
<1>10. CASE FlushReturn
  BY <1>10 DEF FlushReturn
<1>11. CASE Destroy
  BY <1>11 DEF Destroy
<1>12. CASE Deliver \/ Fail
  BY <1>12 DEF Deliver, Fail, Settle
<1>13. CASE UNCHANGED vars
  BY <1>13
<1> QED
  BY <1>1, <1>2, <1>3, <1>4, <1>5, <1>6, <1>7, <1>8, <1>9, <1>10, <1>11, <1>12, <1>13
     DEF Next, ThreadStep, Finished

\* Only Produce appends to accepted, a message later than all before it.
LEMMA AcceptedStep ==
    ASSUME TypeOK, PlacesExact, AcceptedOnceInOrder, AcceptedBefore, [Next]_vars
    PROVE  AcceptedOnceInOrder' /\ AcceptedBefore'
<1> USE DEF AcceptedOnceInOrder, AcceptedBefore, vars, handle, call, librdkafka
<1>1. CASE Submit \/ NotInitialized
  <2>1. accepted' = accepted /\ cur' = cur + 1 /\ pc \notin {"produce", "full"}
    BY <1>1 DEF Submit, NotInitialized
  <2>2. \A i \in DOMAIN accepted : accepted[i] \in Nat
    BY AcceptedType
  <2> QED
    BY <2>1, <2>2 DEF TypeOK
<1>2. CASE Produce
  <2>1. CASE accepted' = accepted
    BY <1>2, <2>1 DEF Produce
  <2>2. CASE accepted' = Append(accepted, cur) /\ pc' = "poll"
    <3>1. accepted \in Seq(Msgs) /\ cur \in Nat /\ cur' = cur /\ pc = "produce"
      BY <1>2 DEF TypeOK, Produce
    <3>2. /\ DOMAIN accepted' = (DOMAIN accepted) \cup {Len(accepted) + 1}
          /\ \A i \in DOMAIN accepted : accepted'[i] = accepted[i] /\ i < Len(accepted) + 1
          /\ accepted'[Len(accepted) + 1] = cur
      BY <2>2, <3>1
    <3>3. \A i \in DOMAIN accepted : accepted[i] \in Nat /\ accepted[i] < cur
      BY <3>1, AcceptedType
    <3>4. Len(accepted) + 1 \notin DOMAIN accepted /\ DOMAIN accepted \subseteq Nat /\ Len(accepted) \in Nat
      BY <3>1
    <3>5. AcceptedBefore'
      BY <2>2, <3>1, <3>2, <3>3
    <3>6. AcceptedOnceInOrder'
      <4> SUFFICES ASSUME NEW i \in DOMAIN accepted', NEW j \in DOMAIN accepted', i < j
                   PROVE  accepted'[i] < accepted'[j]
        OBVIOUS
      <4>1. i \in DOMAIN accepted
        BY <3>2, <3>4
      <4>2. CASE j \in DOMAIN accepted
        BY <4>1, <4>2, <3>2
      <4>3. CASE j = Len(accepted) + 1
        BY <4>1, <4>3, <3>2, <3>3
      <4> QED
        BY <4>2, <4>3, <3>2
    <3> QED
      BY <3>5, <3>6
  <2> QED
    BY <1>2, <2>1, <2>2 DEF Produce, Enqueue
<1>3. CASE PollFull \/ PollAfterSend \/ push_notification_driver_kafka_deinit_topic
  BY <1>3 DEF PollFull, PollAfterSend, push_notification_driver_kafka_deinit_topic
<1>4. CASE Deinit \/ Cleanup \/ FlushPoll \/ FlushReturn \/ Destroy \/ Deliver \/ Fail
  BY <1>4 DEF Deinit, Cleanup, GoTo, FlushPoll, FlushReturn, Destroy, Deliver, Fail, Settle
<1>5. CASE UNCHANGED vars
  BY <1>5
<1> QED
  BY <1>1, <1>2, <1>3, <1>4, <1>5 DEF Next, ThreadStep, Finished

\* Only Produce adds to the queue, the message it appends to accepted; reports come
\* from the queue.
LEMMA PendingStep ==
    ASSUME TypeOK, PlacesExact, PendingWereAccepted, [Next]_vars
    PROVE  PendingWereAccepted'
<1> USE DEF PendingWereAccepted, vars, handle, call, librdkafka
<1>1. CASE Produce
  <2>1. CASE accepted' = accepted /\ queue' = queue
    BY <1>1, <2>1 DEF Produce
  <2>2. CASE Enqueue
    <3>1. accepted \in Seq(Msgs) /\ cur \in Msgs
      BY <1>1 DEF TypeOK, Produce, PlacesExact, InHand, Msgs
    <3>2. /\ DOMAIN accepted' = (DOMAIN accepted) \cup {Len(accepted) + 1}
          /\ \A i \in DOMAIN accepted : accepted'[i] = accepted[i]
          /\ accepted'[Len(accepted) + 1] = cur
      BY <2>2, <3>1 DEF Enqueue
    <3> QED
      BY <1>1, <2>2, <3>2 DEF Produce, Enqueue
  <2> QED
    BY <1>1, <2>1, <2>2 DEF Produce
<1>2. CASE Submit \/ NotInitialized \/ Deinit \/ Cleanup \/ FlushReturn \/ UNCHANGED vars
  BY <1>2 DEF Submit, NotInitialized, Deinit, Cleanup, GoTo, FlushReturn
<1>3. CASE \/ PollFull \/ PollAfterSend \/ push_notification_driver_kafka_deinit_topic
           \/ FlushPoll
  BY <1>3 DEF PollFull, PollAfterSend, push_notification_driver_kafka_deinit_topic, FlushPoll,
              rd_kafka_poll
<1>4. CASE Destroy \/ Deliver \/ Fail
  BY <1>4 DEF Destroy, Deliver, Fail, Settle
<1> QED
  BY <1>1, <1>2, <1>3, <1>4 DEF Next, ThreadStep, Finished

\* A failed produce and a failed delivery are logged at once, and only the message in
\* hand, which was neither given up nor reported, is cleared by a retry that succeeds.
LEMMA FailuresStep ==
    ASSUME PlacesExact, FailuresLogged, [Next]_vars
    PROVE  FailuresLogged'
<1> USE DEF FailuresLogged, vars, handle, call, librdkafka, push_notification_driver_kafka_msg_cb
<1>1. CASE Submit \/ NotInitialized
  BY <1>1 DEF Submit, NotInitialized
<1>2. CASE Produce
  <2>1. cur \notin dropped /\ cur \notin reported
    BY <1>2 DEF Produce, PlacesExact, InHand
  <2> QED
    BY <1>2, <2>1 DEF Produce
<1>3. CASE PollFull
  BY <1>3 DEF PollFull, rd_kafka_poll
<1>4. CASE PollAfterSend \/ push_notification_driver_kafka_deinit_topic \/ FlushPoll
  BY <1>4 DEF PollAfterSend, push_notification_driver_kafka_deinit_topic, FlushPoll, rd_kafka_poll
<1>5. CASE Deinit \/ Cleanup \/ FlushReturn \/ Destroy
  BY <1>5 DEF Deinit, Cleanup, GoTo, FlushReturn, Destroy
<1>6. CASE Deliver \/ Fail
  BY <1>6 DEF Deliver, Fail, Settle
<1>7. CASE UNCHANGED vars
  BY <1>7
<1> QED
  BY <1>1, <1>2, <1>3, <1>4, <1>5, <1>6, <1>7 DEF Next, ThreadStep, Finished

\* Only the end of a flush enters "destroy", and nothing is produced there.
LEMMA FlushedStep ==
    ASSUME TypeOK, FlushedIsEmpty, [Next]_vars
    PROVE  FlushedIsEmpty'
<1> USE DEF FlushedIsEmpty, vars, handle, call, librdkafka
<1>1. CASE FlushReturn
  BY <1>1, OutqLenType DEF FlushReturn
<1>2. CASE Deliver \/ Fail
  BY <1>2 DEF Deliver, Fail, Settle
<1>3. CASE Submit \/ NotInitialized \/ Deinit \/ Cleanup \/ Produce \/ PollFull
  BY <1>3 DEF Submit, NotInitialized, Deinit, Cleanup, GoTo, Produce, PollFull
<1>4. CASE \/ PollAfterSend \/ push_notification_driver_kafka_deinit_topic
           \/ FlushPoll \/ Destroy \/ UNCHANGED vars
  BY <1>4 DEF PollAfterSend, push_notification_driver_kafka_deinit_topic, FlushPoll, Destroy
<1> QED
  BY <1>1, <1>2, <1>3, <1>4 DEF Next, ThreadStep, Finished

\* The retry loop: calls are counted exactly, and room made by a poll stays
\* until the retry, as only the driver's thread fills the queue.
LEMMA RetryStep ==
    ASSUME TypeOK, PlacesExact, RetryExact, [Next]_vars
    PROVE  RetryExact'
<1> USE MaxRetriesType, OutqLenType, BoundsAssumption
    DEF RetryExact, vars, handle, call, librdkafka
<1>1. CASE Submit \/ NotInitialized \/ Deinit \/ Cleanup \/ FlushReturn \/ UNCHANGED vars
  <2>1. OutqLen' = OutqLen
    BY <1>1 DEF Submit, NotInitialized, Deinit, Cleanup, GoTo, FlushReturn, OutqLen
  <2> QED
    BY <1>1, <2>1 DEF Submit, NotInitialized, Deinit, Cleanup, GoTo, FlushReturn
<1>2. CASE Produce
  <2>1. CASE Enqueue /\ OutqLen < QueueMax /\ pc' = "poll"
    <3>1. OutqLen' = OutqLen + 1
      BY <1>2, <2>1, EnqueueCounts DEF Produce
    <3> QED
      BY <2>1, <3>1
  <2>2. CASE queue' = queue /\ OutqLen >= QueueMax /\ pc' = "full"
    <3>1. OutqLen' = OutqLen
      BY <1>2, <2>2 DEF Produce, OutqLen
    <3> QED
      BY <1>2, <2>2, <3>1 DEF Produce, TypeOK
  <2>3. CASE queue' = queue /\ pc' = "poll"
    <3>1. OutqLen' = OutqLen
      BY <1>2, <2>3 DEF Produce, OutqLen
    <3> QED
      BY <2>3, <3>1
  <2> QED
    BY <1>2, <2>1, <2>2, <2>3 DEF Produce
<1>3. CASE PollFull
  <2>1. OutqLen' \in Nat /\ OutqLen' <= OutqLen /\ (reports # {} => OutqLen' < OutqLen)
    BY <1>3, PollMakesRoom DEF PollFull
  <2> QED
    BY <1>3, <2>1 DEF PollFull, TypeOK
<1>4. CASE PollAfterSend \/ push_notification_driver_kafka_deinit_topic \/ FlushPoll
  <2>1. OutqLen' \in Nat /\ OutqLen' <= OutqLen
    BY <1>4, PollMakesRoom
       DEF PollAfterSend, push_notification_driver_kafka_deinit_topic, FlushPoll
  <2> QED
    BY <1>4, <2>1 DEF PollAfterSend, push_notification_driver_kafka_deinit_topic, FlushPoll
<1>5. CASE Destroy
  <2>1. OutqLen' = 0
    BY <1>5, FS_EmptySet DEF Destroy, OutqLen
  <2> QED
    BY <1>5, <2>1 DEF Destroy
<1>6. CASE Deliver \/ Fail
  <2>1. OutqLen' = OutqLen
    BY <1>6, SettleKeepsOutqLen DEF Deliver, Fail, Settle
  <2> QED
    BY <1>6, <2>1 DEF Deliver, Fail, Settle
<1> QED
  BY <1>1, <1>2, <1>3, <1>4, <1>5, <1>6 DEF Next, ThreadStep, Finished

-----------------------------------------------------------------------------
(***************************************************************************)
(* The theorems.                                                           *)
(***************************************************************************)
\* The conjunction of the parts is invariant.
THEOREM SendInvariant == Spec => []SendInv
<1>1. Init => SendInv
  BY SendInvInit
<1>2. SendInv /\ [Next]_vars => SendInv'
  BY TypeStep, PlacesStep, AcceptedStep, PendingStep, FailuresStep, FlushedStep, RetryStep DEF SendInv
<1> QED
  BY <1>1, <1>2, PTL DEF Spec

\* Every variable keeps its type.
THEOREM SendTypeCorrect == Spec => []TypeOK
<1>1. SendInv => TypeOK
  BY DEF SendInv
<1> QED
  BY <1>1, SendInvariant, PTL

\* Each submitted message is in exactly one place.
THEOREM MessagesAreInOnePlace == Spec => []EveryMessageInOnePlace
<1>1. SendInv => EveryMessageInOnePlace
  <2> SUFFICES ASSUME PlacesExact PROVE EveryMessageInOnePlace
    BY DEF SendInv
  <2>1. /\ DOMAIN Places = 1..6
        /\ Places[1] = dropped /\ Places[2] = queue /\ Places[3] = reports
        /\ Places[4] = reported /\ Places[5] = lost /\ Places[6] = InHand
    BY DEF Places
  <2>2. DOMAIN Places = {1, 2, 3, 4, 5, 6}
    BY <2>1
  <2>3. UNION {Places[i] : i \in DOMAIN Places} =
            dropped \cup queue \cup reports \cup reported \cup lost \cup InHand
    BY <2>1, <2>2
  <2>4. \A i, j \in DOMAIN Places : i # j => Places[i] \cap Places[j] = {}
    BY <2>1, <2>2 DEF PlacesExact
  <2> QED
    BY <2>3, <2>4 DEF EveryMessageInOnePlace, PlacesExact
<1> QED
  BY <1>1, SendInvariant, PTL

\* No message is enqueued twice or before an earlier one.
THEOREM AcceptedInOrder == Spec => []AcceptedOnceInOrder
<1>1. SendInv => AcceptedOnceInOrder
  BY DEF SendInv
<1> QED
  BY <1>1, SendInvariant, PTL

\* What is no longer on its way was acknowledged, logged, or purged.
THEOREM FailuresAreLogged == Spec => []NoSilentFailure
<1>1. SendInv => NoSilentFailure
  BY DEF SendInv, PlacesExact, FailuresLogged, NoSilentFailure
<1> QED
  BY <1>1, SendInvariant, PTL

\* Messages are purged only after a flush that ran into its timeout, and only ones that
\* were enqueued and not yet reported.
THEOREM LossNeedsFlushTimeout == Spec => LostOnlyByFlushTimeout
<1> DEFINE Pending(m) == (\E i \in DOMAIN accepted : accepted[i] = m) /\ m \notin reported
<1>1. SendInv /\ [Next]_vars =>
        [lost' # lost => flushTimedOut /\ \A m \in lost' \ lost : Pending(m)]_vars
  <2> SUFFICES ASSUME SendInv, Next, lost' # lost
               PROVE  flushTimedOut /\ \A m \in lost' \ lost : Pending(m)
    OBVIOUS
  <2>1. Destroy
    BY DEF Next, ThreadStep, Submit, NotInitialized, Deinit, Cleanup, GoTo, Produce, PollFull,
           PollAfterSend, push_notification_driver_kafka_deinit_topic, FlushPoll, FlushReturn,
           Deliver, Fail, Settle, Finished, vars
  <2> QED
    BY <2>1 DEF Destroy, SendInv, FlushedIsEmpty, PendingWereAccepted, PlacesExact, TypeOK
<1> QED
  BY <1>1, SendInvariant, PTL DEF Spec, LostOnlyByFlushTimeout

\* A message is given up for a full queue only after all its retries, and only
\* if no wait made room.
THEOREM GivingUpIsJustified == Spec => GiveUpIsJustified
<1>1. SendInv /\ [Next]_vars =>
        [pc = "full" /\ pc' = "poll" => attempts = max_retries + 1 /\ ~served]_vars
  <2> SUFFICES ASSUME SendInv, Next, pc = "full", pc' = "poll"
               PROVE  attempts = max_retries + 1 /\ ~served
    OBVIOUS
  <2>1. PollFull
    BY DEF Next, ThreadStep, Submit, NotInitialized, Deinit, Cleanup, Produce, PollAfterSend,
           push_notification_driver_kafka_deinit_topic, FlushPoll, FlushReturn, Destroy,
           Deliver, Fail, Settle, Finished, vars, call
  <2> QED
    BY <2>1, MaxRetriesType DEF PollFull, SendInv, RetryExact, TypeOK
<1> QED
  BY <1>1, SendInvariant, PTL DEF Spec, GiveUpIsJustified

-----------------------------------------------------------------------------
(***************************************************************************)
(* Every step is a step of Delivery, or leaves the fates alone.            *)
(***************************************************************************)
\* What the state says of one message's fate.
FateFacts(m) ==
    /\ m > cur => Fate[m] = "unsent"
    /\ m \in dropped => Fate[m] = "given up"
    /\ m \in queue \cup reports => Fate[m] = "queued"
    /\ m \in reported => Fate[m] = "reported"
    /\ m \in lost => Fate[m] = "lost"
    /\ m \in InHand => Fate[m] = "handed"
    /\ m > cur \/ m \in dropped \cup queue \cup reports \cup reported \cup lost \cup InHand

\* Each message has one fate, as it is in one place.
LEMMA FateBefore ==
    ASSUME TypeOK, PlacesExact, NEW m \in Msgs
    PROVE  FateFacts(m)
BY DEF TypeOK, PlacesExact, Fate, FateFacts, Msgs

\* The same in the next state.
LEMMA FateAfter ==
    ASSUME TypeOK', PlacesExact', NEW m \in Msgs
    PROVE  FateFacts(m)'
BY DEF TypeOK, PlacesExact, Fate, FateFacts, Msgs

\* The sets of Delivery, in terms of the places.
LEMMA FateSets ==
    ASSUME TypeOK, PlacesExact
    PROVE  /\ D!With("handed") = InHand
           /\ D!With("queued") = queue \cup reports
           /\ \A m \in Msgs : Fate[m] = "unsent" <=> m > cur
<1>1. \A m \in Msgs : FateFacts(m)
  BY FateBefore
<1>2. \A m \in 1..cur : m \in Msgs /\ ~(m > cur)
  <2>1. cur \in 0..NumMsgs
    BY DEF TypeOK
  <2> QED
    BY <2>1, BoundsAssumption DEF Msgs
<1>3. InHand \cup queue \cup reports \subseteq Msgs
  BY <1>2 DEF PlacesExact
<1> QED
  BY <1>1, <1>2, <1>3 DEF FateFacts, D!With, D!Msgs, Msgs, PlacesExact

\* A poll is a Report of the waiting reports.
LEMMA PollReports ==
    ASSUME SendInv, SendInv', NEW timeout, rd_kafka_poll(timeout),
           cur' = cur, dropped' = dropped, lost' = lost, InHand' = InHand
    PROVE  D!Report
<1>1. \A m \in Msgs : FateFacts(m) /\ FateFacts(m)'
  BY FateBefore, FateAfter DEF SendInv
<1>2. Fate' = D!Become(reports, "reported")
  <2> SUFFICES ASSUME NEW m \in Msgs
               PROVE  Fate'[m] = IF m \in reports THEN "reported" ELSE Fate[m]
    BY DEF Fate, D!Become, D!Msgs, Msgs
  <2> QED
    BY <1>1 DEF FateFacts, rd_kafka_poll
<1> QED
  BY <1>2, FateSets DEF D!Report, SendInv

\* The step simulation.
LEMMA StepSimulation ==
    ASSUME SendInv, SendInv', [Next]_vars
    PROVE  D!Next \/ Fate' = Fate
<1> USE DEF SendInv
<1>1. \A m \in Msgs : FateFacts(m) /\ FateFacts(m)'
  BY FateBefore, FateAfter
<1>2. CASE Submit
  <2>1. cur' \in Msgs /\ cur \in Nat /\ cur' = cur + 1
    BY <1>2 DEF Submit, TypeOK, Msgs
  <2>2. Fate' = D!Become({cur'}, "handed")
    <3> SUFFICES ASSUME NEW m \in Msgs
                 PROVE  Fate'[m] = IF m = cur' THEN "handed" ELSE Fate[m]
      BY DEF Fate, D!Become, D!Msgs, Msgs
    <3>1. InHand' = {cur'} /\ InHand = {}
      BY <1>2 DEF Submit, InHand
    <3> QED
      BY <1>1, <1>2, <2>1, <3>1 DEF FateFacts, Submit, librdkafka, Msgs
  <2>3. D!IsNext(cur')
    BY <1>2, <2>1, FateSets DEF D!IsNext, D!Msgs, Msgs, Submit, InHand
  <2> QED
    BY <2>1, <2>2, <2>3 DEF D!Next, D!HandOver, D!Msgs, Msgs
<1>3. CASE NotInitialized
  <2>1. cur' \in Msgs /\ cur \in Nat /\ cur' = cur + 1
    BY <1>3 DEF NotInitialized, TypeOK, Msgs
  <2>2. Fate' = D!Become({cur'}, "given up")
    <3> SUFFICES ASSUME NEW m \in Msgs
                 PROVE  Fate'[m] = IF m = cur' THEN "given up" ELSE Fate[m]
      BY DEF Fate, D!Become, D!Msgs, Msgs
    <3> QED
      BY <1>1, <1>3, <2>1 DEF FateFacts, NotInitialized, librdkafka, InHand, Msgs
  <2>3. D!IsNext(cur')
    BY <1>3, <2>1, FateSets DEF D!IsNext, D!Msgs, Msgs, NotInitialized, InHand
  <2> QED
    BY <2>1, <2>2, <2>3 DEF D!Next, D!Refuse, D!Msgs, Msgs
<1>4. CASE Produce
  <2>1. InHand = {cur} /\ cur' = cur /\ reports' = reports /\ reported' = reported /\ lost' = lost
    BY <1>4 DEF Produce, InHand
  <2>2. D!With("handed") = {cur}
    BY <2>1, FateSets
  <2>3. CASE Enqueue /\ pc' = "poll" /\ dropped' = dropped
    <3>1. Fate' = D!Become({cur}, "queued")
      <4> SUFFICES ASSUME NEW m \in Msgs
                   PROVE  Fate'[m] = IF m = cur THEN "queued" ELSE Fate[m]
        BY DEF Fate, D!Become, D!Msgs, Msgs
      <4> QED
        BY <1>1, <2>1, <2>3 DEF FateFacts, Enqueue, InHand
    <3> QED
      BY <2>2, <3>1 DEF D!Next, D!Queue
  <2>4. CASE queue' = queue /\ pc' = "full" /\ dropped' = dropped
    BY <1>4, <2>1, <2>4 DEF Fate
  <2>5. CASE queue' = queue /\ pc' = "poll" /\ dropped' = dropped \cup {cur}
    <3>1. Fate' = [m \in D!Msgs |-> IF m \in {} THEN "reported" ELSE D!Become({cur}, "given up")[m]]
      <4> SUFFICES ASSUME NEW m \in Msgs
                   PROVE  Fate'[m] = IF m = cur THEN "given up" ELSE Fate[m]
        BY DEF Fate, D!Become, D!Msgs, Msgs
      <4> QED
        BY <1>1, <2>1, <2>5 DEF FateFacts, InHand
    <3>2. {} \in SUBSET D!With("queued")
      OBVIOUS
    <3>3. D!GiveUp
      BY <2>2, <3>1, <3>2 DEF D!GiveUp
    <3> QED
      BY <3>3 DEF D!Next
  <2> QED
    BY <1>4, <2>3, <2>4, <2>5 DEF Produce
<1>5. CASE PollFull
  <2>1. CASE pc' = "produce" /\ dropped' = dropped
    <3>1. InHand' = InHand /\ cur' = cur /\ lost' = lost
      BY <1>5, <2>1 DEF PollFull, InHand
    <3> QED
      BY <1>5, <2>1, <3>1, PollReports DEF PollFull, D!Next
  <2>2. CASE pc' = "poll" /\ dropped' = dropped \cup {cur}
    <3>1. InHand = {cur} /\ InHand' = {} /\ cur' = cur /\ lost' = lost
      BY <1>5, <2>2 DEF PollFull, InHand
    <3>2. Fate' = [m \in D!Msgs |-> IF m \in reports THEN "reported"
                                    ELSE D!Become({cur}, "given up")[m]]
      <4> SUFFICES ASSUME NEW m \in Msgs
                   PROVE  Fate'[m] = IF m \in reports THEN "reported"
                                     ELSE IF m = cur THEN "given up" ELSE Fate[m]
        BY DEF Fate, D!Become, D!Msgs, Msgs
      <4>1. cur \notin reports
        BY <3>1 DEF PlacesExact
      <4> QED
        BY <1>1, <1>5, <2>2, <3>1, <4>1 DEF FateFacts, PollFull, rd_kafka_poll
    <3>3. D!With("handed") = {cur} /\ reports \subseteq D!With("queued")
      BY <3>1, FateSets
    <3> QED
      BY <3>2, <3>3 DEF D!Next, D!GiveUp
  <2> QED
    BY <1>5, <2>1, <2>2 DEF PollFull
<1>6. CASE PollAfterSend \/ push_notification_driver_kafka_deinit_topic \/ FlushPoll
  <2>1. cur' = cur /\ dropped' = dropped /\ lost' = lost /\ InHand' = InHand
    BY <1>6 DEF PollAfterSend, push_notification_driver_kafka_deinit_topic, FlushPoll, call, InHand
  <2> QED
    BY <1>6, <2>1, PollReports
       DEF PollAfterSend, push_notification_driver_kafka_deinit_topic, FlushPoll, D!Next
<1>7. CASE Destroy
  <2>1. InHand = {} /\ InHand' = {} /\ cur' = cur /\ dropped' = dropped /\ reported' = reported
    BY <1>7 DEF Destroy, InHand
  <2>2. Fate' = D!Become(queue \cup reports, "lost")
    <3> SUFFICES ASSUME NEW m \in Msgs
                 PROVE  Fate'[m] = IF m \in queue \cup reports THEN "lost" ELSE Fate[m]
      BY DEF Fate, D!Become, D!Msgs, Msgs
    <3> QED
      BY <1>1, <1>7, <2>1 DEF FateFacts, Destroy
  <2> QED
    BY <2>1, <2>2, FateSets DEF D!Next, D!Lose
<1>8. CASE Deliver \/ Fail
  <2>1. /\ queue' \cup reports' = queue \cup reports
        /\ cur' = cur /\ dropped' = dropped /\ reported' = reported /\ lost' = lost
    BY <1>8 DEF Deliver, Fail, Settle, call
  <2> QED
    BY <2>1 DEF Fate
<1>9. CASE Deinit \/ Cleanup \/ FlushReturn \/ UNCHANGED vars
  <2>1. /\ queue' = queue /\ reports' = reports /\ cur' = cur
        /\ dropped' = dropped /\ reported' = reported /\ lost' = lost
    BY <1>9 DEF Deinit, Cleanup, GoTo, FlushReturn, vars, call, librdkafka
  <2> QED
    BY <2>1 DEF Fate
<1> QED
  BY <1>2, <1>3, <1>4, <1>5, <1>6, <1>7, <1>8, <1>9 DEF Next, ThreadStep, Finished

\* The driver's polls, retries and shutdown implement the delivery protocol.
THEOREM SendImplementsDelivery == Spec => ImplementsDelivery
<1>1. Init => D!Init
  <2> SUFFICES ASSUME Init PROVE Fate = [m \in Msgs |-> "unsent"]
    BY DEF D!Init, D!Msgs, Msgs
  <2>1. \A m \in Msgs : FateFacts(m) /\ m > cur
    BY SendInvInit, FateBefore DEF SendInv, Init, Msgs
  <2> QED
    BY <2>1 DEF FateFacts, Fate
<1>2. SendInv /\ SendInv' /\ [Next]_vars => [D!Next]_Fate
  BY StepSimulation
<1> QED
  BY <1>1, <1>2, SendInvariant, PTL DEF Spec, ImplementsDelivery, D!Spec
=============================================================================
