--------------------------- MODULE MCEventPublish ---------------------------
(***************************************************************************)
(* Instances of EventPublish for TLC.  Names hold the characters JSON      *)
(* escapes; keywords match a prefix, miss it, or are shorter than it.      *)
(***************************************************************************)
EXTENDS EventPublish, EventTests

CONSTANTS d1, d2, d3

MCTokens  == STRING
MCNumbers == {"2", "1"}
MCUser    == <<"us", Quote, "er">>
MCMsg     == [mailbox |-> <<"IN", Backslash, "BOX">>, uid_validity |-> "2", uid |-> "1"]
MCMbox    == [mailbox |-> <<"Sent">>]
MCEnv     == [k \in {<<"k1">>, <<"k", Quote>>, <<"k3">>, <<"kafka">>, <<"test">>} |->
                CASE k = <<"k3">>    -> NULL
                  [] k = <<"kafka">> -> <<"On">>
                  [] k = <<"test">>  -> <<"off">>
                  [] OTHER           -> <<"v", Backslash>>]

\* Three successive hours; offsets in minutes in the code, in seconds here.
Hour    == 3600
MCClock == [s \in {1535637723 + h * Hour : h \in 0..2} |->
               CASE s = 1535637723        -> "2018-08-30T14:02:03"
                 [] s = 1535637723 + Hour -> "2018-08-30T15:02:03"
                 [] OTHER                 -> "2018-08-30T16:02:03"]
MCZone  == [z \in {0, Hour} |-> IF z = 0 THEN <<"+00", ":", "00">> ELSE <<"+01", ":", "00">>]
Dates   == {NULL} \cup [time : {1535637723, 1535637723 + Hour}, tz : {0, Hour}]

Instance(events, feature, send_flags, prefix, userdb) ==
    [events |-> events, feature |-> feature, send_flags |-> send_flags,
     keyword_prefix |-> prefix, userdb |-> userdb]

-----------------------------------------------------------------------------
(***************************************************************************)
(* Rendering: an instance with the default settings that publishes every   *)
(* event, one with settings of its own, and every event over small sets of *)
(* flags, keywords and headers.                                            *)
(***************************************************************************)
RenderConfig ==
    (d1 :> Instance(NULL, NULL, NULL, NULL, <<"k1", ",", "k3", ",", "k", Quote>>))
    @@ (d2 :> Instance(<<"FlagsSet", ",", "FlagsClear">>, <<"kafka">>, <<"off">>, <<"$", "a">>,
                       <<"k3">>))

Flags    == SUBSET {"Flagged", "Seen"}
Keywords == {<<>>, << <<"$">> >>, << <<"$", "a", Quote>> >>,
             << <<"b">>, <<"$", "a">> >>, << <<"$", "b">>, <<"$", "a", "c">> >>}
Header   == {NULL, <<"x", Quote>>}
Plain    == {[name |-> n] : n \in {"MessageRead", "MessageTrash", "MessageExpunge"}}

RenderMsgEvents ==
    [name : {"FlagsSet"}, flags : Flags, keywords : Keywords]
    \cup [name : {"FlagsClear"}, flags : Flags, keywords : Keywords,
          flags_old : Flags, keywords_old : Keywords]
    \cup [name : {"MessageNew"}, date : Dates,
          from : Header, snippet : Header, subject : Header, to : Header]
    \cup [name : {"MessageAppend"}, from : Header, snippet : Header, subject : Header, to : Header]
    \cup Plain

RenderMboxEvents ==
    {[name |-> "MailboxCreate", uid_validity |-> "2"],
     [name |-> "MailboxRename", old_mbox |-> <<"old", Quote>>],
     [name |-> "MailboxDelete"], [name |-> "MailboxSubscribe"]}

-----------------------------------------------------------------------------
(***************************************************************************)
(* Dispatch: three instances with different events, the last disabled for  *)
(* the user.                                                               *)
(***************************************************************************)
DispatchConfig ==
    (d1 :> Instance(<<"FlagsSet", ",", "MessageNew", ",", "", ",", "MessageRead", ",", "MailboxCreate">>,
                    <<"kafka">>, <<"off">>, NULL, <<"k1">>))
    @@ (d2 :> Instance(<<"FlagsSet", ",", "Unknown", ",", "MessageAppend", ",", "MailboxDelete">>,
                       NULL, <<"ON">>, <<>>, <<>>))
    @@ (d3 :> Instance(<<"MessageTrash", ",", "FlagsSet">>, <<"test">>, NULL, NULL, NULL))

DispatchMsgEvents ==
    {[name |-> "FlagsSet", flags |-> {"Seen"}, keywords |-> <<>>],
     [name |-> "MessageNew", date |-> NULL, from |-> <<"x">>, snippet |-> NULL,
      subject |-> NULL, to |-> <<"y">>],
     [name |-> "MessageAppend", from |-> <<"x">>, snippet |-> NULL, subject |-> NULL, to |-> NULL],
     [name |-> "MessageRead"], [name |-> "MessageTrash"]}

DispatchMboxEvents ==
    {[name |-> "MailboxCreate", uid_validity |-> "2"], [name |-> "MailboxDelete"]}

=============================================================================
