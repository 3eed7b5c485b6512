---------------------------- MODULE EventRender ----------------------------
(***************************************************************************)
(* How an event becomes the text of a Kafka message                        *)
(* (src/src/push-notification-kafka-event.c, and the "userdb" fragment     *)
(* that init prepares in src/src/push-notification-kafka-driver.c).        *)
(*                                                                         *)
(* A text is a sequence of tokens.  The characters JSON gives a meaning to *)
(* are tokens of their own; any other run of characters is one token.  A   *)
(* name from outside (user, mailbox, keyword, header) is a text as well,   *)
(* and may hold quotes and backslashes.                                    *)
(***************************************************************************)
EXTENDS Integers, Sequences, SequencesExt

CONSTANTS
    Tokens,     \* what texts are made of
    NULL,       \* the C null pointer: no value, or no event to send
    Clock,      \* the token for a date and a time of day, per number of seconds
    Zone        \* the tokens for a zone's offset, per offset

Quote     == "\""
Backslash == "\\"

Punctuation == {Quote, Backslash, ",", ":", "{", "}", "[", "]"}
Keys == {"user", "userdb", "mailbox", "event", "uidvalidity", "uid", "flags", "oldFlags",
         "keywords", "oldKeywords", "date", "from", "snippet", "subject", "to", "oldMailbox"}
FlagOrder == <<"Answered", "Flagged", "Deleted", "Seen", "Draft">>

\* Every text, and what may be missing.
Texts       == Seq(Tokens)
Optional(S) == {NULL} \cup S

ASSUME TextAssumption ==
    /\ Punctuation \cup Keys \cup Range(FlagOrder) \subseteq Tokens
    /\ NULL \notin Texts
    /\ \A second \in DOMAIN Clock : Clock[second] \in Tokens \ {Quote, Backslash}
    /\ \A offset \in DOMAIN Zone :
           Zone[offset] \in Seq(Tokens) /\ Range(Zone[offset]) \cap {Quote, Backslash} = {}

\* The loops that take the elements of s that are in S, in order.
Only(s, S) ==
    LET taken[n \in 0..Len(s)] ==
            IF n = 0 THEN <<>>
            ELSE IF s[n] \in S THEN Append(taken[n - 1], s[n]) ELSE taken[n - 1]
    IN  taken[Len(s)]

json_append_escaped(text) ==
    FlattenSeq([i \in DOMAIN text |->
        IF text[i] \in {Quote, Backslash} THEN <<Backslash, text[i]>> ELSE <<text[i]>>])

EscapedString(text) == <<Quote>> \o json_append_escaped(text) \o <<Quote>>

Member(key, value) == <<Quote, key, Quote, ":">> \o value

\* The loops that write a comma before every item but the first.
Separated(items) ==
    FlattenSeq([i \in DOMAIN items |-> IF i = 1 THEN items[i] ELSE <<",">> \o items[i]])

-----------------------------------------------------------------------------
\* ctx->userdb_json: the configured keys the user has a value for.
userdb_json(keys, env) ==
    LET present == Only(keys, {k \in DOMAIN env : env[k] # NULL}) IN
    IF present = <<>> THEN NULL
    ELSE <<Quote, "userdb", Quote, ":", "{">>
         \o Separated([i \in DOMAIN present |->
                EscapedString(present[i]) \o <<":">> \o EscapedString(env[present[i]])])
         \o <<"}", ",">>

str_starts_with(str, prefix) == str # NULL /\ prefix # NULL /\ IsPrefix(prefix, str)

write_flags(flags) ==
    LET set == Only(FlagOrder, flags) IN
    Separated([i \in DOMAIN set |-> <<Quote, Backslash, Backslash, set[i], Quote>>])

\* What write_flags returns: it has written a flag.
writes_flags(flags) == Only(FlagOrder, flags) # <<>>

-----------------------------------------------------------------------------
(***************************************************************************)
(* ctx is the driver context ([userdb_json, send_flags, keyword_prefix]),  *)
(* user the user's name, msg and mbox what the event is about.             *)
(***************************************************************************)
write_msg_prefix(ctx, user, event_name, msg) ==
    <<"{">> \o Member("user", EscapedString(user)) \o <<",">>
    \o (IF ctx.userdb_json = NULL THEN <<>> ELSE ctx.userdb_json)
    \o Member("mailbox", EscapedString(msg.mailbox)) \o <<",">>
    \o Member("event", <<Quote, event_name, Quote>>) \o <<",">>
    \o Member("uidvalidity", <<msg.uid_validity>>) \o <<",">>
    \o Member("uid", <<msg.uid>>)

FlagsMember(key, flags) ==
    IF flags = {} THEN <<>>
    ELSE <<",">> \o Member(key, <<"[">> \o write_flags(flags) \o <<"]">>)

Visible(ctx, keywords) ==
    Only(keywords, {k \in Range(keywords) : str_starts_with(k, ctx.keyword_prefix)})

\* The member is written, possibly as an empty list, if there are any keywords.
KeywordsMember(ctx, key, keywords) ==
    IF keywords = <<>> THEN <<>>
    ELSE LET visible == Visible(ctx, keywords) IN
         <<",">> \o Member(key,
            <<"[">> \o Separated([i \in DOMAIN visible |-> EscapedString(visible[i])]) \o <<"]">>)

\* Mutant: an event is sent even if nothing of it was written.
WriteFlagsEventAlways(ctx, user, event_name, msg, flags, keywords, flags_old, keywords_old) ==
    LET shown(fs) == IF ctx.send_flags THEN fs ELSE {} IN
    write_msg_prefix(ctx, user, event_name, msg)
    \o FlagsMember("flags", shown(flags)) \o FlagsMember("oldFlags", shown(flags_old))
    \o KeywordsMember(ctx, "keywords", keywords)
    \o KeywordsMember(ctx, "oldKeywords", keywords_old) \o <<"}">>

\* Flags and keywords that are NULL or not created are empty here.
write_flags_event(ctx, user, event_name, msg, flags, keywords, flags_old, keywords_old) ==
    LET shown(fs)       == IF ctx.send_flags THEN fs ELSE {}
        flag_written    == writes_flags(shown(flags)) \/ writes_flags(shown(flags_old))
        keyword_written == Visible(ctx, keywords) \o Visible(ctx, keywords_old) # <<>>
    IN  IF flag_written \/ keyword_written
        THEN write_msg_prefix(ctx, user, event_name, msg)
             \o FlagsMember("flags", shown(flags))
             \o FlagsMember("oldFlags", shown(flags_old))
             \o KeywordsMember(ctx, "keywords", keywords)
             \o KeywordsMember(ctx, "oldKeywords", keywords_old) \o <<"}">>
        ELSE NULL

\* Mutant: the text is appended as it is.
OptionalMemberRaw(key, text) ==
    IF text = NULL THEN <<>> ELSE <<",">> \o Member(key, <<Quote>> \o text \o <<Quote>>)

OptionalMember(key, text) ==
    IF text = NULL THEN <<>> ELSE <<",">> \o Member(key, EscapedString(text))

\* MessageAppend's headers, in the order they are written.
HeaderMembers(data) ==
    OptionalMember("from", data.from) \o OptionalMember("snippet", data.snippet)
    \o OptionalMember("subject", data.subject) \o OptionalMember("to", data.to)

write_event_messageappend(ctx, user, msg, event) ==
    write_msg_prefix(ctx, user, event.name, msg) \o HeaderMembers(event) \o <<"}">>

\* gmtime: the clock in UTC, whatever the sender's zone.
BrokenDown(date) == Clock[date.time]

\* The clock as it was broken down, followed by the offset: with an offset other than
\* 0 the two do not belong together.
iso8601_date_create_tm(tm, offset) == <<tm>> \o Zone[offset]

DateMember(date) ==
    IF date = NULL THEN <<>>
    ELSE <<",">> \o Member("date",
             <<Quote>> \o iso8601_date_create_tm(BrokenDown(date), date.tz) \o <<Quote>>)

write_event_messagenew(ctx, user, msg, event) ==
    write_msg_prefix(ctx, user, event.name, msg) \o DateMember(event.date)
    \o HeaderMembers(event) \o <<"}">>

push_notification_driver_kafka_render_msg(ctx, user, msg, event) ==
    CASE event.name = "FlagsSet" ->
            write_flags_event(ctx, user, event.name, msg, event.flags, event.keywords, {}, <<>>)
      [] event.name = "FlagsClear" ->
            write_flags_event(ctx, user, event.name, msg, event.flags, event.keywords,
                              event.flags_old, event.keywords_old)
      [] event.name = "MessageNew"    -> write_event_messagenew(ctx, user, msg, event)
      [] event.name = "MessageAppend" -> write_event_messageappend(ctx, user, msg, event)
      [] OTHER -> write_msg_prefix(ctx, user, event.name, msg) \o <<"}">>

\* Mutant: the old name of a mailbox is appended as it is.
RenderMboxOldNameRaw(user, mbox, event) ==
    <<"{">> \o Member("user", EscapedString(user)) \o <<",">>
    \o Member("mailbox", EscapedString(mbox.mailbox)) \o <<",">>
    \o Member("event", <<Quote, event.name>>)
    \o (CASE event.name = "MailboxCreate" ->
               <<Quote, ",">> \o Member("uidvalidity", <<event.uid_validity>>)
          [] event.name = "MailboxRename" ->
               <<Quote, ",">> \o Member("oldMailbox", <<Quote>> \o event.old_mbox \o <<Quote>>)
          [] OTHER -> <<>>)
    \o <<"}">>

\* The closing quote of the event's name is only written together with the data
\* of MailboxCreate and MailboxRename.
push_notification_driver_kafka_render_mbox(user, mbox, event) ==
    <<"{">> \o Member("user", EscapedString(user)) \o <<",">>
    \o Member("mailbox", EscapedString(mbox.mailbox)) \o <<",">>
    \o Member("event", <<Quote, event.name>>)
    \o (CASE event.name = "MailboxCreate" ->
               <<Quote, ",">> \o Member("uidvalidity", <<event.uid_validity>>)
          [] event.name = "MailboxRename" ->
               <<Quote, ",">> \o Member("oldMailbox", EscapedString(event.old_mbox))
          [] OTHER -> <<>>)
    \o <<"}">>
=============================================================================
