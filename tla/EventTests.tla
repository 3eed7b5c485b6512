----------------------------- MODULE EventTests -----------------------------
(***************************************************************************)
(* The unit tests of the renderers                                         *)
(* (src/src/lib-test/push-notification-kafka-event-test.c), one definition *)
(* per test function: each compares an operator of EventRender with the    *)
(* text the test spells out.  TLC evaluates them in every run of           *)
(* MCEventPublish.                                                         *)
(***************************************************************************)
EXTENDS EventRender

Quoted(word) == <<Quote, word, Quote>>
Flag(word)   == <<Quote, Backslash, Backslash, word, Quote>>
Pair(key, value) == Quoted(key) \o <<":">> \o value

\* The user, message, context and headers the test functions set up.
TestUser == <<"testuser">>
TestMsg  == [mailbox |-> <<"INBOX">>, uid_validity |-> "2", uid |-> "1"]
TestCtx  == [userdb_json |-> NULL, send_flags |-> TRUE, keyword_prefix |-> <<"k">>]
Headers  == [from |-> <<"from@test.com">>, to |-> <<"to@test.com">>,
             subject |-> <<"test subject">>, snippet |-> <<"short snippet.....">>]

\* How every expected text begins.
UserAndMailbox ==
    <<"{">> \o Pair("user", Quoted("testuser")) \o <<",">>
    \o Pair("mailbox", Quoted("INBOX")) \o <<",">>
Prefix(event_name) ==
    UserAndMailbox \o Pair("event", Quoted(event_name)) \o <<",">>
    \o Pair("uidvalidity", <<"2">>) \o <<",">> \o Pair("uid", <<"1">>)
HeadersText ==
    <<",">> \o Pair("from", Quoted("from@test.com"))
    \o <<",">> \o Pair("snippet", Quoted("short snippet....."))
    \o <<",">> \o Pair("subject", Quoted("test subject"))
    \o <<",">> \o Pair("to", Quoted("to@test.com")) \o <<"}">>

-----------------------------------------------------------------------------
test_str_starts_with ==
    /\ str_starts_with(<<"HAL", "LO WETL">>, <<"HAL">>)
    /\ ~str_starts_with(<<"HAL", "LO WETL">>, NULL)
    /\ ~str_starts_with(NULL, <<"HAL">>)
    /\ ~str_starts_with(NULL, NULL)

RenderedMbox(event) ==
    push_notification_driver_kafka_render_mbox(TestUser, [mailbox |-> <<"INBOX">>], event)

test_push_notification_driver_kafka_render_mbox_rename ==
    RenderedMbox([name |-> "MailboxRename", old_mbox |-> <<"OLD_BOX">>]) =
        UserAndMailbox \o Pair("event", Quoted("MailboxRename")) \o <<",">>
        \o Pair("oldMailbox", Quoted("OLD_BOX")) \o <<"}">>

test_push_notification_driver_kafka_render_mbox_create ==
    RenderedMbox([name |-> "MailboxCreate", uid_validity |-> "1"]) =
        UserAndMailbox \o Pair("event", Quoted("MailboxCreate")) \o <<",">>
        \o Pair("uidvalidity", <<"1">>) \o <<"}">>

test_write_flags ==
    /\ write_flags({"Answered"}) = Flag("Answered")
    /\ write_flags({"Answered", "Flagged", "Deleted", "Seen", "Draft"}) =
           Flag("Answered") \o <<",">> \o Flag("Flagged") \o <<",">> \o Flag("Deleted")
           \o <<",">> \o Flag("Seen") \o <<",">> \o Flag("Draft")

write_msg_prefix_test ==
    write_msg_prefix(TestCtx, TestUser, "MailboxCreate", TestMsg) = Prefix("MailboxCreate")

write_flags_event_test ==
    LET Written(flags, keywords, flags_old, keywords_old) ==
            write_flags_event(TestCtx, TestUser, "MailboxCreate", TestMsg,
                              flags, keywords, flags_old, keywords_old)
        Name(word)    == <<"k", ":", word>>
        String(word)  == <<Quote>> \o Name(word) \o <<Quote>>
        List(items)   == <<"[">> \o items \o <<"]">>
        Text(flags, flags_old, keywords, keywords_old) ==
            Prefix("MailboxCreate") \o <<",">> \o Pair("flags", List(flags))
            \o <<",">> \o Pair("oldFlags", List(flags_old))
            \o <<",">> \o Pair("keywords", List(keywords))
            \o <<",">> \o Pair("oldKeywords", List(keywords_old)) \o <<"}">>
        new   == <<Name("new_keyword"), Name("new_keyword2")>>
        old   == <<Name("old_keyword"), Name("old_keyword2")>>
        both(word) == String(word) \o <<",">> \o String(word \o "2")
    IN  /\ Written({"Seen"}, <<new[1]>>, {"Flagged"}, <<old[1]>>) =
               Text(Flag("Seen"), Flag("Flagged"), String("new_keyword"), String("old_keyword"))
        /\ Written({"Seen"}, new, {"Flagged"}, old) =
               Text(Flag("Seen"), Flag("Flagged"), both("new_keyword"), both("old_keyword"))
        /\ Written({"Seen", "Flagged"}, new, {"Flagged", "Answered"}, old) =
               Text(Flag("Flagged") \o <<",">> \o Flag("Seen"),
                    Flag("Answered") \o <<",">> \o Flag("Flagged"),
                    both("new_keyword"), both("old_keyword"))

write_event_messagenew_test ==
    write_event_messagenew(TestCtx, TestUser, TestMsg,
        [name |-> "MessageNew", date |-> [time |-> 1535637723, tz |-> 0],
         from |-> Headers.from, to |-> Headers.to,
         subject |-> Headers.subject, snippet |-> Headers.snippet]) =
    Prefix("MessageNew") \o <<",">>
    \o Pair("date", <<Quote, "2018-08-30T14:02:03", "+00", ":", "00", Quote>>) \o HeadersText

write_event_messageappend_test ==
    write_event_messageappend(TestCtx, TestUser, TestMsg,
        [name |-> "MessageAppend", from |-> Headers.from, to |-> Headers.to,
         subject |-> Headers.subject, snippet |-> Headers.snippet]) =
    Prefix("MessageAppend") \o HeadersText

\* Every assertion of the test functions holds of the model's renderers.
ASSUME TestsAssumption ==
    /\ test_str_starts_with
    /\ test_push_notification_driver_kafka_render_mbox_rename
    /\ test_push_notification_driver_kafka_render_mbox_create
    /\ test_write_flags
    /\ write_msg_prefix_test
    /\ write_flags_event_test
    /\ write_event_messagenew_test
    /\ write_event_messageappend_test
=============================================================================
