# Verification of the Kafka driver for Dovecot's push notifications

TLA+ models of the plugin in `src/src/`, checked with TLC, and proofs about
them checked with TLAPS. Paths and line numbers below refer to the repository.

## The system

A Dovecot mail process loads the plugin, which registers one *driver*. Dovecot
calls the driver's vfuncs (`driver.c:595`) from its single thread; librdkafka
runs a background thread of its own and reports back only inside polls.

| part | state it keeps | operations | interacts with |
|---|---|---|---|
| plugin (`push-notification-kafka-plugin.c`) | registered or not | `plugin_init`, `plugin_deinit` | Dovecot's driver table |
| driver life cycle (`-driver.c`) | `kafka_global` (refcount, producer, settings, a user pointer), one context per driver instance (`enabled`, `events`, `rkt`, render options) | `init`, `begin_txn`, `end_txn`, `deinit`, `cleanup` | references on `mail_user`; nested inside a user's deinit |
| producer (`-driver.c`) | `rk`, `rkt`, librdkafka's queue | `init_global`, `init_topic`, `send_to_kafka`, `deinit_topic`, `deinit_global` | librdkafka, which calls back in polls |
| event dispatch (`-driver.c`) | the transaction's drivers, subscriptions and eventdata (Dovecot's) | `begin_txn`, `process_msg`, `process_mbox` | all instances of a user share one transaction |
| event rendering (`-event.c`) | none | `render_msg`, `render_mbox`, `write_*` | reads the context's options |
| librdkafka configuration (`-driver.c:77-164`) | `rkc`, an `rd_kafka_conf_t` per attempt | `read_plugin_kafka_settings`, `rd_kafka_conf_set` | settings of `kafka_global->user` |
| callbacks (`-driver.c:53-75`) | none | `msg_cb`, `err_cb`, `log_print` | called in polls; only print, but what `msg_cb` prints is all that is ever known of a failed delivery |

What is hard here, and what makes each part correct:

* **Shared state of interleaved users.** The refcount has to equal the number of
  contexts; no topic object may outlive its producer; never two producers;
  nothing dereferenced after `cleanup` freed it.
* **Nested deinit.** `end_txn` may drop the last reference on a user, which runs
  `deinit` and `cleanup` inside it. An open transaction must pin its context.
* **Shutdown.** Flush before destroy, destroy only with no context left, and
  before the plugin is unloaded.
* **A full queue, a broker that never answers.** Bounded retries, no duplicates,
  no overtaking, no endless waits whatever is configured, no silent loss beyond
  what the flush timeout admits.
* **Users sharing one queue.** A user who leaves must not cost the others their
  messages, and no message may be left where nobody flushes it.
* **Users sharing one configuration.** The producer runs with one user's settings,
  whatever they hold; brokers and callbacks stay the driver's.
* **Instances sharing eventdata.** What one instance subscribes to, or its being
  disabled, must not disturb another.
* **Text assembled piece by piece.** Always JSON, reading back as the event.

`PROJECT.json` lists these as hazards, each at its line.

## Modules

`KafkaDriver` — the life cycle. One mail process with any number of users, driver
instances and transactions. The process is single threaded, so a vfunc is one
action, named as in the code with everything it calls; the exceptions are calls that
Dovecot makes one after the other inside a user's deinit (`deinit`, `cleanup`, per
driver, then `UserFreed`), which are actions of their own with `closing` and
`cleanupDue` keeping everything else out, as the call stack does.
`mail_user_ref/unref`, sessions, and the freeing of users are external.
`proc` records the faults the code could run into: a NULL `kafka_global`, the failed
assertion, settings read from a freed user, a NULL handle. Reading a freed user is
undefined: the model lets it crash or go on. `handles` numbers the producers;
`rk` and `rkt` hold such a number or 0 for NULL. A message is reduced to the
transaction that has produced since the last flush (`unflushed`).

`KafkaSend` — the messages, at the grain of single librdkafka calls, because
librdkafka's thread runs between them: `Submit` (or `NotInitialized`), `Produce`,
`PollFull` (the wait and the test of `retry_counter`), `PollAfterSend`, then `Deinit`,
`push_notification_driver_kafka_deinit_topic`, `Cleanup`, `FlushPoll`/`FlushReturn`,
`Destroy`, after which a new producer may be created. `Deliver` and `Fail` are the
external steps. The queue limit counts messages until their report has been served,
as the comment at `driver.c:247` says. `errors` holds the messages for which a failure
was logged, by `send_to_kafka` or by `msg_cb`. Settings go through `IntSetting`,
init's parsing and defaulting. Time is abstract: a poll may return as soon as its
timeout is not negative.

`Delivery` — what the driver promises of a message, without polls, retries and
handles: messages are handed over one after the other, each is queued or given up
before the next, and a queued one is settled once. `KafkaSend` refines it with
`fate <- Fate`.

`KafkaProcess` — the mail process, composed of instances of `KafkaDriver` and
`KafkaSend` that share `rk` and `handles`. A call of the life cycle that uses
librdkafka (`send_to_kafka`, `deinit`, `cleanup`) is a step of both parts where the two
meet, and the steps of `KafkaSend` inside the call run alone, beside librdkafka's
thread; `pc # "idle"` keeps all other calls out.

`ProducerConfig` — `init_global` between `rd_kafka_conf_new` and `rd_kafka_new`, one
action per entry of `plugin_envs` and per property, with a record for every
`rd_kafka_conf_t`. `init` takes brokers and debug from the first user's settings
(`Brokers`, `Debugs`); what it took for debug is a variable nothing reads, as in the code.
librdkafka is external: it accepts or refuses a property and value.
`KafkaDriver` has the outcome of these steps only: configured, refused, or
`rd_kafka_new` failed.

`EventRender` — the renderers as operators. A text is a sequence of `Tokens`; quotes,
backslashes, commas, brackets and colons are tokens, so that omissions show. Loops that
choose elements are `Only`. `Clock` and `Zone` give the tokens of a date.
`JsonText` — a JSON reader for such texts, the reference they are compared with: a state
(in a string or not, what may come next, the containers around, the members so far) that
`Read` takes from one token to the next. `Decode` reads in pieces, each from where the one
before ended: TLC evaluates a recursive function on its stack. `Numbers` are the tokens
taken for numbers.

`EventPublish` — composes them: one transaction of one user with several instances.
`Ctx` is what `init` makes of the driver URL (`Config`) and of the user's plugin settings
(`Env`): the default prefix, the setting `feature` names and its comparison with "on",
the default events and their splitting, the userdb fragment, `send_flags`. `begin_txn`
subscribes, Dovecot (external) records what happens in the shared eventdata,
`process_msg`/`process_mbox` render it and hand texts to `send_to_kafka`; `end_txn` comes
when every instance has processed everything, or after a rollback, when none has.

`EventTests` — the repository's own tests of the renderers
(`lib-test/push-notification-kafka-event-test.c`), one definition per test function
with the test's inputs and expected text, as an assumption TLC evaluates: the model's
renderers pass what the code's are meant to pass. (The test file declares `duser`
twice in its last two tests, `:319` and `:380`, so it does not compile as it is.)

`MCKafkaDriver`, `MCKafkaSend`, `MCKafkaProcess`, `MCProducerConfig` and
`MCEventPublish` give the constants values for TLC. Operators commented as mutants are
altered versions of the definition that follows them; no specification uses them. They
document which mistake each property catches.

`KafkaDriverProofs`, `KafkaSendProofs`, `KafkaProcessProofs`, `ProducerConfigProofs`,
`EventRenderProofs`, `EventPublishProofs` — theorems about the modules they are named for.
`EventReadProofs` — what the reader of `JsonText` makes of the texts of `EventRender`.

## Runs

Passing:

| run | what it checks | bounds, and why they are enough |
|---|---|---|
| `driver_safety` (`DriverSafety.cfg`) | refcount exact, topic objects of the living producer, one producer, open transactions pin contexts, no fault on shared state, destroy only when unused and flushed | 2 users, 3 instances (two of one user), 4 transactions, enabled or not. Two users overlap in every way, one has `cleanup` between its two `deinit`s, and a second producer is created after the first was destroyed. The theorems cover other sizes. |
| `send_retry` (`SendRetry.cfg`) | accepted at most once and in order; every message in one place; no failure without a log line; loss only after a flush timeout; giving up is justified; sends and shutdown end; refinement of `Delivery` | 4 messages, queue of 2, 2 retries: the queue fills, a retry succeeds after a served report, fails twice, and messages are given up while later ones get through; a second producer starts with messages of the first lost or reported. Two waiting times are negative and one is unreadable. |
| `process` (`Process.cfg`) | nothing pending that nobody flushes; every message settled, and every producer destroyed, before the plugin is unloaded and in the end; messages are lost only in the last shutdown; the calls into librdkafka come in `KafkaSend`'s order, with one producer at a time | 2 users, 3 instances, a transaction for each user, 2 messages, queue of 1, 1 retry, all users enabled (see the first finding). One user's message fills the queue the other sends into, one leaves while the other's message is queued, and the second message can meet the first producer or a new one. |
| `config_settings` (`ConfigSettings.cfg`) | the producer runs with one user's settings; no configuration object is forgotten or used twice | 2 users, 3 configurations. The first user's ten entries hold a name of another option, the bare prefix, a property set twice with a refused value between, an unknown one, another separator, an empty name, and attempts at `bootstrap.servers` and `debug`; the second user's brokers are refused. What becomes of `debug` is left to `config_debug`. |
| `event_rendering` (`EventRendering.cfg`) | published message events, and created and renamed mailboxes, read back as what happened; no empty change of flags | all events over 2 flags, keyword lists up to length 2 (matching, shorter than, and outside the prefix, with a quote), each header present or not, two instants in two zones or no date; four kinds of mailbox events; an instance with the default settings, and one with a prefix of two characters, `send_flags` off and two events |
| `event_dispatch` (`EventDispatch.cfg`) | configured events are published once, with headers; a disabled instance is silent | 3 instances with overlapping and disjoint events, an unknown and an empty event name among them, one disabled by its feature setting; up to 3 events in any order, processed or rolled back |

Violations TLC is expected to find; each is a disagreement between the code and
what the repository says, described in `PROJECT.json`:

| run | what the counterexample shows |
|---|---|
| `driver_disabled_user` | `begin_txn` references the user before testing `ctx->enabled` (`driver.c:445`) and nobody drops it: shutdown is never reached |
| `driver_stale_user` | the producer is configured from a freed user (`driver.c:425`, `95`) |
| `driver_init_failure` | a failed `rd_kafka_new` goes on to use the NULL handle (`driver.c:160`) |
| `send_flush_timeout` | no `msg_cb` for messages left when the flush times out (`driver.c:176`) |
| `event_others_config` | an instance publishes events only another one configured (`driver.c:521`) |
| `config_debug` | librdkafka's `debug` is always "all" (`driver.c:137`); `kafka_debug`, which `README.md:94` documents, is read (`driver.c:370`) and never used |

Met while modelling, without a run of their own:

* After a refused `bootstrap.servers` or `debug`, `init_global` returns with the
  configuration object in `rkc`, where the next message overwrites it (`driver.c:135`).
  `ConfAccounted` says that these objects, and no others, are leaked.
* The prefix `kafka.notification.settings` is compared without its final dot and the
  next character skipped (`driver.c:97-99`), so any separator is accepted.
* A MessageNew date has its clock in UTC (`event.c:219`) and the offset of the sender's
  zone behind it, so that a reader of ISO 8601 takes it for another instant unless the
  offset is 0. No doc or test says what is meant (the repository's test has offset 0
  only), so `MessageReadBack` claims the right date for a sender in UTC, and of other
  dates only that one stands there by itself.
* Mailbox events other than MailboxCreate and MailboxRename end in an unterminated string
  (the quote opened at `event.c:65` is closed only in these two branches), and none has
  the userdb fields that `README.md:122` counts to the prefix of all events.
  `README.md:170` lists "The mailbox events are not working." as a known bug, so there is
  no run for it; `MailboxReadBack` says what the two others do tell.

## Fairness

`KafkaProcess!Fairness`: a call into the driver that has begun goes on, as do the calls
that follow it on the same stack (`CallGoesOn`: sends, polls and flushes, `deinit`,
`cleanup`, `UserFreed`), because it runs on the process's only thread; and Dovecot ends
the sessions and transactions it began. Nothing is assumed of librdkafka or the broker,
and nothing obliges a transaction to begin or a message to be sent. So
`ProducerEventuallyDestroyed` and `EveryMessageSettled` hold with a broker that is gone
for good: its messages end as given up or purged.

`KafkaSend!FairSpec`: a call in progress on the mail process's thread goes on, which
holds because each of its waits ends; `SendReturns` and `ShutdownEnds` need no more. That
a wait ends depends on its timeout not being negative, which is what `IntSetting` has
to provide.

`EventPublish` and `ProducerConfig` have no liveness properties.

## Proofs

All theorems hold for every value of the constants that meets the named assumptions:
owners are users, sets of instances and transactions are finite, `NumMsgs` is a natural
number, `QueueMax` a positive one, settings are any integers or unreadable; those about
texts are named below.

`KafkaDriverProofs`: the safety properties of `driver_safety`. `RefcountExact` is not
inductive: that `deinit` of a live context never meets an open transaction on it depends
on the references. Hence two layers:

1. `UserInv`: a user's reference count is the number of transactions holding it plus
   one for its session (`RefsExact`); the user in its deinit is the one on the call
   stack (`ClosingExact`); a user in its deinit is held by nobody (`UnheldUsers`);
   the context of an open transaction is live. Each action that touches a reference
   adds or removes exactly one holder (`FS_AddElement`, `FS_RemoveElement`).
   `TypeCorrect` and `TxnPinsContext` follow.
2. `SharedInv`, using `UserInv`: `send_to_kafka` runs for a live context, so by
   `RefcountExact` `kafka_global` is there; a producer is created only when `rk` is
   NULL, and then no topic object exists; `cleanup` acts for a refcount of 0, which
   means no context, hence (`TopicOfLiveContext`) no topic object.
   `RefcountIsExact`, `TopicsBelongToProducer`, `ProducerIsUnique`,
   `SharedStateIsSafe` follow, and the action property `ProducerOutlivesContexts`
   from the same step lemma.

`ShutdownPrecedesUnload` needs a third, `ShutdownInv`, and that every user is enabled:
a context belongs to a user who is held or in its deinit, and a refcount of 0 is followed
by its `cleanup` before anything else happens.

`KafkaSendProofs`: the safety properties of `send_retry` and the refinement. `SendInv`
adds to them what makes them inductive: only messages before the one in hand were
accepted (`AcceptedBefore`, for the order); what is queued was accepted
(`PendingWereAccepted`, for what may be purged); a failure is logged before the message
leaves the driver's hands (`FailuresLogged`); a flush that did not time out left nothing
(`FlushedIsEmpty`); and the state of the retry loop (`RetryExact`): a served report
leaves the queue below its limit until the retry, since only this thread enqueues, so a
full queue means that none was served. `SendImplementsDelivery` takes each action to a
step of `Delivery` or a stutter; polls in every call map to `Report`, `PollFull` with its
last retry to `GiveUp`, which serves reports as well, `Destroy` to `Lose`.

`KafkaProcessProofs`: a step of the process is a step of the life cycle or leaves it alone,
by the way the two are composed (`ProcessIsDriver`, a lemma and no result: it brings in
what `KafkaDriverProofs` proves). That it is one of `KafkaSend` as well
(`ProcessImplementsSend`) needs more: `init` resets `rk`, which must not happen with a
producer at hand. The properties
that relate the parts need one more invariant, `ProducerHoldsMessages`: whatever is
pending, or in hand, belongs to a producer that `unflushed` knows of. Then a purge is a
destroy, hence without contexts (`NoLossBeforeShutdown`); and if every user is enabled,
`ProcessShutsDown` leaves no producer, hence nothing pending
(`MessagesSettledBeforeUnload`).

`ProducerConfigProofs`: `ConfigInv` says for each place in `init_global` how far the
configuration has come; the loop's part is `AppliedBefore`, the property for the entries
read so far. `ProducerIsConfigured` and `ConfsAreAccounted` follow for any settings.

`EventRenderProofs` and `EventPublishProofs`: the safety properties of `event_rendering`
and `event_dispatch`, for any instances, configurations and events. Of the constants they
assume what the module's `ASSUME`s say: settings, names, headers and keywords are texts
(of any tokens, quotes and backslashes included) or missing, the message's numbers are
numbers, and what is printed of a date holds no quote and no backslash. What `init` makes of the
settings is of the types the rest relies on (`SplitType`, `Context`). Loops over
sequences are recursive functions (`Only`) or the library's `FlattenSeq`; what they yield
is proved by an induction stated for sets (`SetInduction`, `SeqInduction`).

`PublishInv` adds to `TypeOK` what makes the properties inductive: who takes part and what
is subscribed (`TakingPart`); the eventdata holds each event that happened and that
somebody wanted, once and with its headers (`RecordedOnce`); each text handed on is
the rendered one of recorded data the instance has processed (`HandedIsRendered`), no pair
of instance and event occurs twice (`HandedOnce`), and a processed message or mailbox has
left out nothing that has a text (`HandedAll`). `ConfiguredEventsPublished` and
`DisabledInstancesAreSilent` follow from these. `PublishedChangesTell` also needs when
`write_flags_event` returns NULL (`FlagsEventType`): just if no flag and no keyword passes
the filters.

`MessagesReadBack` is about the texts themselves. It follows the reader along the renderer.
Two states of the reader matter: a member may come (`Due`) or has just been read (`Holds`),
each with the members read so far that tell something. A string is read as the text that
was escaped (`EscapedRead`, by induction over the text), a number as itself, a list as its
items (`ListReadAs`), the userdb object as its pairs (`ObjectReadAs`); hence a member takes
the reader from `Due` to `Holds` (`MemberRead`) and a comma takes it back. So
`write_msg_prefix` tells the prefix (`PrefixTells`), whatever comes after it `Adds` its
member or nothing (`FlagsAdds`, `KeywordsAdds`, `DateAdds`, `HeadersAdd`), and the last
brace ends the object with all of it read (`EndDecoded`). The date is shown at offset 0 as it
is given, elsewhere as some date (`DateMayBeShown`). `MailboxesReadBack` goes the same way
(`MailboxTells`, `MailboxCreateTells`, `MailboxRenameTells`). `DecodeAfter`: reading in pieces
ends where reading token by token does.

Only model-checked: liveness, which is out of the provers' reach, like ENABLED:
`SendReturns`, `ShutdownEnds`, `ProducerEventuallyDestroyed` and `EveryMessageSettled`. Every
other property of the passing runs is stated by a theorem. `EventTests` is evaluated by TLC.

## Not modelled

* Wording of logs, DEBUG output; `err_cb` and `log_print`, which only print.
* librdkafka's limit on the bytes in its queue: `Produce` meets a full queue by the number
  of messages only, as the comment at `driver.c:247` has it. `GiveUpIsJustified` is about
  this limit; a large message could find too few bytes free after a served report.
* How a date is formatted: the clock is one token per instant, the offset is tokens.
* The wait of `rd_kafka_wait_destroyed`: it returns at the latest after its timeout, so
  `kafka_destroy_time_in_ms` makes no difference to anything the models tell apart.
* `retry_counter` as a C `int`: it would overflow only after 2^31 retries of one message,
  as it ends at most one above `max_retries` (`RetryExact`).
* `driver-test.c`: it needs a running Kafka cluster. What it expects (each of ten messages
  arrives, `rkt` and `rk` are NULL after deinit) is part of `EveryMessageInOnePlace`,
  `TopicOfLiveProducer` and `OneProducer`.
* `test-common.c` (Dovecot's test framework), build files, packaging.

## State of the plan

The order was: the life cycle, since every other part depends on its shared state, with
its proofs; messages; rendering and dispatch; the librdkafka configuration; the abstract
specification `Delivery`; the composition; proofs about messages, configuration,
composition, dispatch and texts. All of it is done. What is left out is a composition of
`EventPublish` with `KafkaProcess`, which would add nothing: they meet in `send_to_kafka`
only, which takes any text at any time of a transaction.
