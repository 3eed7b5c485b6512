---------------------------- MODULE EventPublish ----------------------------
(***************************************************************************)
(* One push-notification transaction of one user, from begin_txn to        *)
(* end_txn, with the Kafka driver instances the user has configured:       *)
(* what init makes of their settings, which events they subscribe to, and  *)
(* which texts each hands to send_to_kafka                                 *)
(* (src/src/push-notification-kafka-driver.c).                             *)
(*                                                                         *)
(* Dovecot is external.  What the driver relies on: begin_txn is called    *)
(* for every instance, and only those that return TRUE take part; an event *)
(* that an instance subscribed to with push_notification_event_init is     *)
(* recorded in the message's or mailbox's eventdata when it happens, with  *)
(* the headers of MessageNew and MessageAppend if the subscription asked   *)
(* for them; every message and mailbox is then processed once by each      *)
(* instance that takes part, unless the transaction is rolled back.        *)
(***************************************************************************)
EXTENDS EventRender, JsonText, FiniteSets

CONSTANTS
    Drivers,            \* the user's driver instances
    Config,             \* Config[d]: the fields of the driver URL, see ConfigFields
    Env,                \* the user's plugin settings: a text, or NULL, per key
    User,               \* user->username
    Msg,                \* the message of the transaction: [mailbox, uid_validity, uid]
    Mbox,               \* the mailbox of the transaction: [mailbox]
    MsgEvents,          \* what can happen to the message
    MboxEvents,         \* what can happen to the mailbox
    MaxEvents           \* bound: events per transaction

\* config->config: what the driver URL says, or NULL.
ConfigFields ==
    [keyword_prefix : Optional(Texts), feature : Optional(Texts), events : Optional(Texts),
     userdb : Optional(Texts), send_flags : Optional(Texts)]

DEFAULT_PREFIX == <<"$">>
DEFAULT_EVENTS ==
    <<"FlagsClear", ",", "FlagsSet", ",", "MailboxCreate", ",", "MailboxDelete", ",",
      "MailboxRename", ",", "MailboxSubscribe", ",", "MailboxUnsubscribe", ",",
      "MessageAppend", ",", "MessageExpunge", ",", "MessageNew", ",", "MessageRead", ",",
      "MessageTrash">>

\* The events Dovecot knows (external).
EventNames ==
    {"FlagsClear", "FlagsSet", "MailboxCreate", "MailboxDelete", "MailboxRename",
     "MailboxSubscribe", "MailboxUnsubscribe", "MessageAppend", "MessageExpunge",
     "MessageNew", "MessageRead", "MessageTrash"}

ASSUME ConfigAssumption ==
    /\ {"$"} \cup EventNames \subseteq Tokens
    /\ \A k \in DOMAIN Env : Env[k] \in Optional(Texts)
    /\ \A d \in Drivers : Config[d] \in ConfigFields

ASSUME NamesAssumption ==
    /\ User \in Texts /\ Msg.mailbox \in Texts /\ Mbox.mailbox \in Texts
    /\ Msg.uid_validity \in Tokens \cap Numbers /\ Msg.uid \in Tokens \cap Numbers

\* The events of Dovecot, by their name and with the data each has.
FlagsSetEvents   == [name : {"FlagsSet"}, flags : SUBSET Tokens, keywords : Seq(Texts)]
FlagsClearEvents ==
    [name : {"FlagsClear"}, flags : SUBSET Tokens, keywords : Seq(Texts),
     flags_old : SUBSET Tokens, keywords_old : Seq(Texts)]
MessageNewEvents ==
    [name : {"MessageNew"}, date : Optional([time : DOMAIN Clock, tz : DOMAIN Zone]),
     from : Optional(Texts), snippet : Optional(Texts), subject : Optional(Texts),
     to : Optional(Texts)]
MessageAppendEvents ==
    [name : {"MessageAppend"}, from : Optional(Texts), snippet : Optional(Texts),
     subject : Optional(Texts), to : Optional(Texts)]
PlainMessageEvents  == [name : {"MessageRead", "MessageTrash", "MessageExpunge"}]
MailboxCreateEvents == [name : {"MailboxCreate"}, uid_validity : Tokens \cap Numbers]
MailboxRenameEvents == [name : {"MailboxRename"}, old_mbox : Texts]
PlainMailboxEvents  == [name : {"MailboxDelete", "MailboxSubscribe", "MailboxUnsubscribe"}]

ASSUME EventsAssumption ==
    /\ MaxEvents \in Nat
    /\ \A e \in MsgEvents :
           \/ e \in FlagsSetEvents \/ e \in FlagsClearEvents \/ e \in MessageNewEvents
           \/ e \in MessageAppendEvents \/ e \in PlainMessageEvents
    /\ \A e \in MboxEvents :
           e \in MailboxCreateEvents \/ e \in MailboxRenameEvents \/ e \in PlainMailboxEvents

-----------------------------------------------------------------------------
(***************************************************************************)
(* The driver context that init builds from the settings.                  *)
(***************************************************************************)
\* The pieces of a text between commas; none of the empty text (external).
p_strsplit(text) ==
    LET commas == Only([i \in 1..Len(text) |-> i], {i \in DOMAIN text : text[i] = ","})
        cut    == <<0>> \o commas \o <<Len(text) + 1>>
    IN  IF text = <<>> THEN <<>>
        ELSE [n \in 1..(Len(cut) - 1) |-> SubSeq(text, cut[n] + 1, cut[n + 1] - 1)]

mail_user_plugin_getenv(key) == IF key \in DOMAIN Env THEN Env[key] ELSE NULL

\* strcasecmp(text, "on") = 0.
IsOn(text) == text \in {<<"on">>, <<"On">>, <<"oN">>, <<"ON">>}

OrDefault(value, default) == IF value = NULL THEN default ELSE value

userdb_fields(d) == p_strsplit(OrDefault(Config[d].userdb, <<>>))

Ctx == [d \in Drivers |->
           [keyword_prefix |-> OrDefault(Config[d].keyword_prefix, DEFAULT_PREFIX),
            enabled        |-> \/ Config[d].feature = NULL
                               \/ IsOn(mail_user_plugin_getenv(Config[d].feature)),
            events         |-> p_strsplit(OrDefault(Config[d].events, DEFAULT_EVENTS)),
            userdb_json    |-> userdb_json(userdb_fields(d), Env),
            send_flags     |-> Config[d].send_flags = NULL \/ IsOn(Config[d].send_flags)]]

\* What push_notification_event_init accepts of ctx->events.
Configured(d) == {e \in EventNames : <<e>> \in Range(Ctx[d].events)}

-----------------------------------------------------------------------------
VARIABLES
    begun,          \* instances begin_txn was called for
    drivers,        \* ptxn->drivers: those it returned TRUE for
    subscribed,     \* ptxn->events: pairs of an event's name and what is asked for
    msgdata,        \* msg->eventdata
    mboxdata,       \* mbox->eventdata
    processed,      \* pairs of an instance and the data it has processed
    handed,         \* texts given to send_to_kafka: [driver, event, text]
    occurred,       \* history: the events that happened, recorded or not
    ended           \* instances end_txn was called for

vars == <<begun, drivers, subscribed, msgdata, mboxdata, processed, handed, occurred, ended>>

WithHeaders == {"MessageNew", "MessageAppend"}

TypeOK ==
    /\ begun \subseteq Drivers
    /\ drivers \subseteq begun
    /\ \A s \in subscribed : s[2] \in {"headers", "default"}
    /\ Range(msgdata) \subseteq MsgEvents
    /\ Range(mboxdata) \subseteq MboxEvents
    /\ processed \subseteq Drivers \X {"msg", "mbox"}
    /\ \A i \in DOMAIN handed : handed[i].driver \in Drivers /\ handed[i].text # NULL
    /\ Range(occurred) \subseteq MsgEvents \cup MboxEvents
    /\ ended \subseteq drivers

Init ==
    /\ begun = {}
    /\ drivers = {}
    /\ subscribed = {}
    /\ msgdata = <<>>
    /\ mboxdata = <<>>
    /\ processed = {}
    /\ handed = <<>>
    /\ occurred = <<>>
    /\ ended = {}

-----------------------------------------------------------------------------
\* Mutant: the branch for MessageAppend is missing.
SubscriptionsOneBranch(d) ==
    {<<e, IF e = "MessageNew" THEN "headers" ELSE "default">> : e \in Configured(d)}

\* The subscriptions of ctx->events: MessageNew and MessageAppend ask for the
\* headers, every other event takes what it gives by default.
Subscriptions(d) ==
    {<<e, IF e \in WithHeaders THEN "headers" ELSE "default">> : e \in Configured(d)}

\* Mutant: ctx->enabled is not looked at.
BeginTxnAlways(d) ==
    /\ d \notin begun
    /\ begun' = begun \cup {d}
    /\ drivers' = drivers \cup {d}
    /\ subscribed' = subscribed \cup Subscriptions(d)
    /\ UNCHANGED <<msgdata, mboxdata, processed, handed, occurred, ended>>

push_notification_driver_kafka_begin_txn(d) ==
    /\ d \notin begun
    /\ begun' = begun \cup {d}
    /\ IF Ctx[d].enabled
       THEN /\ drivers' = drivers \cup {d}
            /\ subscribed' = subscribed \cup Subscriptions(d)
       ELSE UNCHANGED <<drivers, subscribed>>
    /\ UNCHANGED <<msgdata, mboxdata, processed, handed, occurred, ended>>

\* MessageNew and MessageAppend carry headers only if a subscription asked.
Recorded(e) ==
    IF e.name \in WithHeaders /\ <<e.name, "headers">> \notin subscribed
    THEN [field \in DOMAIN e |-> IF field = "name" THEN e.name ELSE NULL]
    ELSE e

Happening ==
    /\ begun = Drivers
    /\ drivers # {}
    /\ processed = {} /\ ended = {}
    /\ Len(occurred) < MaxEvents

\* Something happens to the message (external).  An event is recorded once.
MessageTriggers(e) ==
    /\ Happening
    /\ e.name \notin {occurred[i].name : i \in DOMAIN occurred}
    /\ occurred' = Append(occurred, e)
    /\ msgdata' = IF \E s \in subscribed : s[1] = e.name
                  THEN Append(msgdata, Recorded(e)) ELSE msgdata
    /\ UNCHANGED <<begun, drivers, subscribed, mboxdata, processed, handed, ended>>

\* Something happens to the mailbox (external).
MailboxTriggers(e) ==
    /\ Happening
    /\ e.name \notin {occurred[i].name : i \in DOMAIN occurred}
    /\ occurred' = Append(occurred, e)
    /\ mboxdata' = IF \E s \in subscribed : s[1] = e.name
                   THEN Append(mboxdata, e) ELSE mboxdata
    /\ UNCHANGED <<begun, drivers, subscribed, msgdata, processed, handed, ended>>

\* Mutant: the text is not tested for NULL.
SentUnchecked(results) == results

\* The rendered events that there is a text for, in order.
Sent(results) == Only(results, {r \in Range(results) : r.text # NULL})

push_notification_driver_kafka_process_msg(d) ==
    /\ d \in drivers /\ ended = {}
    /\ begun = Drivers
    /\ <<d, "msg">> \notin processed
    /\ processed' = processed \cup {<<d, "msg">>}
    /\ handed' = handed \o Sent([i \in DOMAIN msgdata |->
           [driver |-> d, event |-> msgdata[i],
            text |-> push_notification_driver_kafka_render_msg(Ctx[d], User, Msg, msgdata[i])]])
    /\ UNCHANGED <<begun, drivers, subscribed, msgdata, mboxdata, occurred, ended>>

push_notification_driver_kafka_process_mbox(d) ==
    /\ d \in drivers /\ ended = {}
    /\ begun = Drivers
    /\ <<d, "mbox">> \notin processed
    /\ processed' = processed \cup {<<d, "mbox">>}
    /\ handed' = handed \o Sent([i \in DOMAIN mboxdata |->
           [driver |-> d, event |-> mboxdata[i],
            text |-> push_notification_driver_kafka_render_mbox(User, Mbox, mboxdata[i])]])
    /\ UNCHANGED <<begun, drivers, subscribed, msgdata, mboxdata, occurred, ended>>

\* Everything has been processed, or the transaction is rolled back before anything was.
push_notification_driver_kafka_end_txn(d) ==
    /\ begun = Drivers
    /\ processed \in {{}, drivers \X {"msg", "mbox"}}
    /\ d \in drivers \ ended
    /\ ended' = ended \cup {d}
    /\ UNCHANGED <<begun, drivers, subscribed, msgdata, mboxdata, processed, handed, occurred>>

Ended == begun = Drivers /\ ended = drivers

Finished == Ended /\ UNCHANGED vars

Next ==
    \/ \E d \in Drivers : \/ push_notification_driver_kafka_begin_txn(d)
                          \/ push_notification_driver_kafka_process_msg(d)
                          \/ push_notification_driver_kafka_process_mbox(d)
                          \/ push_notification_driver_kafka_end_txn(d)
    \/ \E e \in MsgEvents : MessageTriggers(e)
    \/ \E e \in MboxEvents : MailboxTriggers(e)
    \/ Finished

Spec == Init /\ [][Next]_vars

-----------------------------------------------------------------------------
(***************************************************************************)
(* What a consumer should find in a published event: the members of its    *)
(* JSON object, from the event itself and the instance's configuration.    *)
(***************************************************************************)
ShownKeywords(d, ks) == Only(ks, {k \in Range(ks) : IsPrefix(Ctx[d].keyword_prefix, k)})

FlagTexts(d, fs) ==
    IF Ctx[d].send_flags
    THEN LET set == Only(FlagOrder, fs)
         IN  [i \in DOMAIN set |-> <<Backslash, set[i]>>]
    ELSE <<>>

\* The members that are there if they hold something, or must be.
IfAny(key, values) == IF values = <<>> THEN <<>> ELSE << <<<<key>>, values>> >>
IfSet(key, value)  == IF value = NULL THEN <<>> ELSE << <<<<key>>, <<value>>>> >>

UserdbValues(d) ==
    LET keys == Only(userdb_fields(d), {k \in DOMAIN Env : Env[k] # NULL})
    IN  FlattenSeq([i \in DOMAIN keys |-> <<keys[i], Env[keys[i]]>>])

InvariantPrefix(d, e) ==
    << <<<<"user">>, <<User>>>> >>
    \o IfAny("userdb", UserdbValues(d))
    \o << <<<<"mailbox">>, <<Msg.mailbox>>>>, <<<<"event">>, <<<<e.name>>>>>> >>

MsgIds == << <<<<"uidvalidity">>, <<<<Msg.uid_validity>>>>>>, <<<<"uid">>, <<<<Msg.uid>>>>>> >>

\* The dates that may be shown.  What instant the date of a sender outside of UTC
\* should name is left open: any clock and zone will do.
ShownDates(e) ==
    IF e.name # "MessageNew" \/ e.date = NULL THEN {NULL}
    ELSE IF e.date.tz = 0 THEN {<<Clock[e.date.time]>> \o Zone[0]}
    ELSE {<<Clock[date.time]>> \o Zone[date.tz] : date \in [time : DOMAIN Clock, tz : DOMAIN Zone]}

\* What was cleared or set, without the lists the configuration has emptied.
FlagChanges(d, e) ==
    IF e.name = "FlagsSet"
    THEN IfAny("flags", FlagTexts(d, e.flags))
         \o IfAny("keywords", ShownKeywords(d, e.keywords))
    ELSE IfAny("flags", FlagTexts(d, e.flags)) \o IfAny("oldFlags", FlagTexts(d, e.flags_old))
         \o IfAny("keywords", ShownKeywords(d, e.keywords))
         \o IfAny("oldKeywords", ShownKeywords(d, e.keywords_old))

\* The rest of a message event, its date shown as given.
Told(d, e, date) ==
    CASE e.name \in {"FlagsSet", "FlagsClear"} -> FlagChanges(d, e)
      [] e.name = "MessageNew" ->
            IfSet("date", date) \o IfSet("from", e.from) \o IfSet("snippet", e.snippet)
            \o IfSet("subject", e.subject) \o IfSet("to", e.to)
      [] e.name = "MessageAppend" ->
            IfSet("from", e.from) \o IfSet("snippet", e.snippet)
            \o IfSet("subject", e.subject) \o IfSet("to", e.to)
      [] OTHER -> <<>>

\* Of a mailbox event there are no userdb fields.
MailboxMembers(e) ==
    << <<<<"user">>, <<User>>>>, <<<<"mailbox">>, <<Mbox.mailbox>>>>,
       <<<<"event">>, <<<<e.name>>>>>>,
       IF e.name = "MailboxCreate" THEN <<<<"uidvalidity">>, <<<<e.uid_validity>>>>>>
                                   ELSE <<<<"oldMailbox">>, <<e.old_mbox>>>> >>

\* Empty lists tell a consumer nothing.
TellingMembers == {m \in Texts \X Seq(Texts) : m[2] # <<>>}
Members(text)  == Only(Decode(text), TellingMembers)

\* Each text handed on for a message event is a JSON object from which the user,
\* the userdb fields, the mailbox, the message and what happened to it can be read
\* back, whatever characters their names hold, and with it just the flags and
\* keywords this instance is configured to show.  A new message's date, if it has
\* one, is a date of its own, and names the right instant if its zone is UTC.
MessageReadBack ==
    \A i \in DOMAIN handed :
        LET h == handed[i] IN
        h.event \notin MboxEvents =>
            /\ Decode(h.text) # Malformed
            /\ \E date \in ShownDates(h.event) :
                   Members(h.text) =
                       InvariantPrefix(h.driver, h.event) \o MsgIds \o Told(h.driver, h.event, date)

\* A mailbox that is created or renamed can be told from the text handed on for it,
\* and by which user, what its uidvalidity is, or which name it had.
MailboxReadBack ==
    \A i \in DOMAIN handed :
        LET h == handed[i] IN
        h.event.name \in {"MailboxCreate", "MailboxRename"} =>
            Decode(h.text) # Malformed /\ Members(h.text) = MailboxMembers(h.event)

\* A published change of flags tells at least one flag or keyword.
FlagChangesTellSomething ==
    \A i \in DOMAIN handed :
        handed[i].event.name \in {"FlagsSet", "FlagsClear"} =>
            FlagChanges(handed[i].driver, handed[i].event) # <<>>

\* When the data of a transaction has been processed, an enabled instance has handed on
\* every event it is configured for, once, unless there is nothing to tell; whatever
\* other instances take part and in whatever order they began.
ConfiguredEventsArePublished ==
    Ended /\ processed = drivers \X {"msg", "mbox"} => \A d \in Drivers, i \in DOMAIN occurred :
        LET e    == occurred[i]
            sent == {j \in DOMAIN handed : handed[j].driver = d /\ handed[j].event = e}
        IN  Ctx[d].enabled /\ e.name \in Configured(d) =>
                Cardinality(sent) =
                    IF e.name \in {"FlagsSet", "FlagsClear"} /\ FlagChanges(d, e) = <<>> THEN 0 ELSE 1

\* An instance that is disabled for the user publishes nothing, even if another
\* instance in the same transaction subscribed.
DisabledIsSilent ==
    \A i \in DOMAIN handed : Ctx[handed[i].driver].enabled

\* An instance publishes only the events it is configured for.
OnlyConfiguredEvents ==
    \A i \in DOMAIN handed : handed[i].event.name \in Configured(handed[i].driver)
=============================================================================
