------------------------- MODULE EventPublishProofs -------------------------
(***************************************************************************)
(* Proofs about EventPublish: its safety invariants, for any instances,    *)
(* configurations and events.                                              *)
(*                                                                         *)
(* First the texts the renderers make of the events, and when there is     *)
(* none; then PublishInv, the inductive invariant, that Init establishes   *)
(* and every action keeps; then what follows from it.                      *)
(***************************************************************************)
EXTENDS EventPublish, EventReadProofs, FiniteSetTheorems

-----------------------------------------------------------------------------
(***************************************************************************)
(* What init makes of the settings.                                        *)
(***************************************************************************)
LEMMA SplitType ==
    ASSUME NEW text \in Texts
    PROVE  p_strsplit(text) \in Seq(Texts)
PROOF
  <1> DEFINE places == 0..(Len(text) + 1)
             index  == [i \in 1..Len(text) |-> i]
             commas == Only(index, {i \in DOMAIN text : text[i] = ","})
             cut    == <<0>> \o commas \o <<Len(text) + 1>>
             piece(n) == SubSeq(text, cut[n] + 1, cut[n + 1] - 1)
             pieces == [n \in 1..(Len(cut) - 1) |-> piece(n)]
  <1>1. Len(text) \in Nat /\ \A i \in 1..Len(text) : text[i] \in Tokens
    BY DEF Texts
  <1>2. commas \in Seq(places)
    <2>1. index \in Seq(places)
      BY <1>1
    <2> HIDE DEF index, places
    <2> QED
      BY <2>1, OnlyProperties
  <1>3. cut \in Seq(places)
    <2>1. 0 \in places /\ Len(text) + 1 \in places
      BY <1>1
    <2> HIDE DEF commas, places
    <2>2. <<0>> \in Seq(places) /\ <<Len(text) + 1>> \in Seq(places)
      BY <2>1
    <2> QED
      BY <1>2, <2>2, ConcatProperties
  <1> HIDE DEF commas
  <1>4. Len(cut) \in Nat /\ \A n \in 1..Len(cut) : cut[n] \in 0..(Len(text) + 1)
    <2> HIDE DEF cut
    <2> QED
      BY <1>3
  <1> HIDE DEF cut
  <1>5. \A n \in 1..(Len(cut) - 1) : piece(n) \in Texts
    <2> SUFFICES ASSUME NEW n \in 1..(Len(cut) - 1)
                 PROVE  piece(n) \in Texts
      OBVIOUS
    <2> DEFINE first == cut[n] + 1
               last  == cut[n + 1] - 1
    <2>1. cut[n] \in 0..(Len(text) + 1) /\ cut[n + 1] \in 0..(Len(text) + 1)
      BY <1>4
    <2>2. first \in Int /\ last \in Int /\ \A i \in first..last : text[i] \in Tokens
      BY <1>1, <2>1
    <2> HIDE DEF first, last
    <2>3. SubSeq(text, first, last) \in Seq(Tokens)
      BY <2>2, SubSeqProperties
    <2> QED
      BY <2>3 DEF first, last, Texts
  <1> HIDE DEF piece
  <1>6. pieces \in Seq(Texts)
    BY <1>4, <1>5
  <1>7. p_strsplit(text) = IF text = <<>> THEN <<>> ELSE pieces
    BY Zenon DEF p_strsplit, pieces, piece, cut, commas, index
  <1> HIDE DEF pieces
  <1> QED
    BY <1>6, <1>7

\* An instance has a keyword prefix, is enabled or not, shows flags or not, and the
\* userdb fragment is made of texts.
LEMMA Context ==
    ASSUME NEW d \in Drivers
    PROVE  /\ Ctx[d].keyword_prefix \in Texts
           /\ Ctx[d].enabled \in BOOLEAN /\ Ctx[d].send_flags \in BOOLEAN
           /\ userdb_fields(d) \in Seq(Texts)
           /\ Ctx[d].userdb_json = userdb_json(userdb_fields(d), Env)
           /\ Ctx[d].userdb_json \in Optional(Texts)
PROOF
  <1>1. Config[d].keyword_prefix \in Optional(Texts) /\ Config[d].userdb \in Optional(Texts)
    BY ConfigAssumption DEF ConfigFields
  <1>2. Ctx[d].keyword_prefix = OrDefault(Config[d].keyword_prefix, DEFAULT_PREFIX)
    BY Zenon DEF Ctx
  <1>3. Ctx[d].keyword_prefix \in Texts
    <2>1. DEFAULT_PREFIX \in Texts
      BY ConfigAssumption DEF DEFAULT_PREFIX, Texts
    <2> QED
      BY <1>1, <1>2, <2>1, Zenon DEF OrDefault, Optional
  <1>4. Ctx[d].enabled \in BOOLEAN /\ Ctx[d].send_flags \in BOOLEAN
    BY DEF Ctx
  <1>5. userdb_fields(d) \in Seq(Texts)
    <2>1. <<>> \in Texts
      BY DEF Texts
    <2>2. OrDefault(Config[d].userdb, <<>>) \in Texts
      BY <1>1, <2>1, Zenon DEF OrDefault, Optional
    <2> QED
      BY <2>2, SplitType, Zenon DEF userdb_fields
  <1>6. Ctx[d].userdb_json = userdb_json(userdb_fields(d), Env)
    BY Zenon DEF Ctx
  <1>7. userdb_json(userdb_fields(d), Env) \in Optional(Texts)
    BY <1>5, ConfigAssumption, UserdbType
  <1> QED
    BY <1>3, <1>4, <1>5, <1>6, <1>7, Zenon

\* The names of events are written as they are.
LEMMA EventNameTokens ==
    ASSUME NEW e \in MsgEvents \cup MboxEvents
    PROVE  e.name \in EventNames /\ e.name \in Tokens /\ e.name \notin {Quote, Backslash}
PROOF
  <1>1. e.name \in EventNames
    BY EventsAssumption
       DEF FlagsSetEvents, FlagsClearEvents, MessageNewEvents, MessageAppendEvents,
           PlainMessageEvents, MailboxCreateEvents, MailboxRenameEvents, PlainMailboxEvents,
           EventNames
  <1>2. e.name \in Tokens
    BY <1>1, ConfigAssumption
  <1>3. e.name \notin {Quote, Backslash}
    BY <1>1 DEF EventNames, Quote, Backslash
  <1> QED
    BY <1>1, <1>2, <1>3

-----------------------------------------------------------------------------
(***************************************************************************)
(* The texts of events.                                                    *)
(***************************************************************************)
\* The texts of the events that change no flags.
LEMMA MessageEventType ==
    ASSUME NEW ctx, NEW user, NEW msg, Given(ctx, user, msg),
           NEW e \in MsgEvents, e.name \notin {"FlagsSet", "FlagsClear"}
    PROVE  push_notification_driver_kafka_render_msg(ctx, user, msg, e) \in Texts
PROOF
  <1> DEFINE start == write_msg_prefix(ctx, user, e.name, msg)
  <1>1. start \in Texts
    BY EventNameTokens, PrefixType
  <1> HIDE DEF start
  <1>2. CASE e \in MessageNewEvents
    <2>1. e.name = "MessageNew" /\ WithHeaderTexts(e)
          /\ e.date \in Optional([time : DOMAIN Clock, tz : DOMAIN Zone])
      BY <1>2 DEF MessageNewEvents, WithHeaderTexts
    <2>2. start \o DateMember(e.date) \o HeaderMembers(e) \o <<"}">> \in Texts
      BY <1>1, <2>1, DateMemberType, HeaderMembersType, ConcatType, EnclosedType
    <2> QED
      BY <2>1, <2>2, Zenon
         DEF push_notification_driver_kafka_render_msg, write_event_messagenew, start
  <1>3. CASE e \in MessageAppendEvents
    <2>1. e.name = "MessageAppend" /\ WithHeaderTexts(e)
      BY <1>3 DEF MessageAppendEvents, WithHeaderTexts
    <2>2. start \o HeaderMembers(e) \o <<"}">> \in Texts
      BY <1>1, <2>1, HeaderMembersType, ConcatType, EnclosedType
    <2> QED
      BY <2>1, <2>2, Zenon
         DEF push_notification_driver_kafka_render_msg, write_event_messageappend, start
  <1>4. CASE e \in PlainMessageEvents
    <2>1. e.name \notin {"FlagsSet", "FlagsClear", "MessageNew", "MessageAppend"}
      BY <1>4 DEF PlainMessageEvents
    <2>2. start \o <<"}">> \in Texts
      BY <1>1, EnclosedType
    <2> QED
      BY <2>1, <2>2, Zenon DEF push_notification_driver_kafka_render_msg, start
  <1>5. e \notin FlagsSetEvents /\ e \notin FlagsClearEvents
    BY DEF FlagsSetEvents, FlagsClearEvents
  <1> QED
    BY <1>2, <1>3, <1>4, <1>5, EventsAssumption

LEMMA MailboxEventType ==
    ASSUME NEW user \in Texts, NEW mbox, mbox.mailbox \in Texts, NEW e \in MboxEvents
    PROVE  push_notification_driver_kafka_render_mbox(user, mbox, e) \in Texts
PROOF
  <1> DEFINE u == Member("user", EscapedString(user))
             m == Member("mailbox", EscapedString(mbox.mailbox))
             n == Member("event", <<Quote, e.name>>)
             more == CASE e.name = "MailboxCreate" ->
                            <<Quote, ",">> \o Member("uidvalidity", <<e.uid_validity>>)
                       [] e.name = "MailboxRename" ->
                            <<Quote, ",">> \o Member("oldMailbox", EscapedString(e.old_mbox))
                       [] OTHER -> <<>>
  <1>1. <<"{">> \in Texts /\ <<",">> \in Texts /\ <<Quote, ",">> \in Texts /\ <<>> \in Texts
    BY PunctuationTokens, ShortTexts, Zenon
  <1>2. u \in Texts /\ m \in Texts
    BY KeyTokens, EscapedType, MemberType, Zenon
  <1>3. n \in Texts
    <2>1. e.name \in Tokens
      BY EventNameTokens
    <2>2. <<Quote, e.name>> \in Texts
      BY <2>1, PunctuationTokens, ShortTexts, Zenon
    <2> QED
      BY <2>2, KeyTokens, MemberType, Zenon
  <1>4. more \in Texts
    <2>1. CASE e \in MailboxCreateEvents
      <3>1. e.name = "MailboxCreate" /\ e.uid_validity \in Tokens
        BY <2>1 DEF MailboxCreateEvents
      <3>2. <<Quote, ",">> \o Member("uidvalidity", <<e.uid_validity>>) \in Texts
        <4>1. <<e.uid_validity>> \in Texts
          BY <3>1, ShortTexts
        <4> QED
          BY <1>1, <4>1, KeyTokens, MemberType, ConcatType, Zenon
      <3> QED
        BY <3>1, <3>2, Zenon
    <2>2. CASE e \in MailboxRenameEvents
      <3>1. e.name = "MailboxRename" /\ e.old_mbox \in Texts
        BY <2>2 DEF MailboxRenameEvents
      <3>2. <<Quote, ",">> \o Member("oldMailbox", EscapedString(e.old_mbox)) \in Texts
        BY <1>1, <3>1, KeyTokens, EscapedType, MemberType, ConcatType, Zenon
      <3>3. e.name # "MailboxCreate"
        BY <3>1
      <3> QED
        BY <3>1, <3>2, <3>3, Zenon
    <2>3. CASE e \in PlainMailboxEvents
      <3>1. e.name # "MailboxCreate" /\ e.name # "MailboxRename"
        BY <2>3 DEF PlainMailboxEvents
      <3> QED
        BY <1>1, <3>1, Zenon
    <2> QED
      BY <2>1, <2>2, <2>3, EventsAssumption
  <1>5. push_notification_driver_kafka_render_mbox(user, mbox, e) =
            <<"{">> \o u \o <<",">> \o m \o <<",">> \o n \o more \o <<"}">>
    BY Zenon DEF push_notification_driver_kafka_render_mbox
  <1> HIDE DEF u, m, n, more
  <1>6. <<"{">> \o u \o <<",">> \o m \o <<",">> \o n \o more \in Texts
    BY <1>1, <1>2, <1>3, <1>4, ConcatType
  <1> QED
    BY <1>5, <1>6, EnclosedType

-----------------------------------------------------------------------------
(***************************************************************************)
(* A change of flags has a text just if it has something to tell.          *)
(***************************************************************************)
LEMMA IfAnyType ==
    ASSUME NEW U, NEW key, NEW values, <<<<key>>, values>> \in U
    PROVE  /\ IfAny(key, values) \in Seq(U)
           /\ IfAny(key, values) = <<>> <=> values = <<>>
PROOF
  <1> DEFINE pair == <<<<key>>, values>>
  <1>1. pair \in U
    OBVIOUS
  <1>2. IfAny(key, values) = IF values = <<>> THEN <<>> ELSE <<pair>>
    BY Zenon DEF IfAny
  <1> HIDE DEF pair
  <1> QED
    BY <1>1, <1>2

LEMMA FlagTextsEmpty ==
    ASSUME NEW d \in Drivers, NEW flags
    PROVE  FlagTexts(d, flags) = <<>> <=> ~(Ctx[d].send_flags /\ writes_flags(flags))
PROOF
  <1> DEFINE set == Only(FlagOrder, flags)
             all == Range(FlagOrder)
  <1>1. Ctx[d].send_flags \in BOOLEAN
    BY Context
  <1>2. set \in Seq(all)
    <2>1. FlagOrder \in Seq(all)
      BY DEF FlagOrder, Range
    <2> HIDE DEF all
    <2> QED
      BY <2>1, OnlyProperties
  <1>3. FlagTexts(d, flags) = IF Ctx[d].send_flags
                              THEN [i \in DOMAIN set |-> <<Backslash, set[i]>>] ELSE <<>>
    BY Zenon DEF FlagTexts
  <1>4. writes_flags(flags) <=> set # <<>>
    BY Zenon DEF writes_flags
  <1> HIDE DEF set, all
  <1> DEFINE texts == [i \in DOMAIN set |-> <<Backslash, set[i]>>]
  <1>5. DOMAIN texts = DOMAIN set
    BY Zenon
  <1>6. set = <<>> => texts = <<>>
    <2> HAVE set = <<>>
    <2>1. DOMAIN set = {}
      OBVIOUS
    <2>2. \A f, g : (f = [i \in {} |-> <<Backslash, set[i]>>] /\ g = <<>>) => f = g
      OBVIOUS
    <2> QED
      BY <2>1, <2>2, Zenon
  <1>7. set # <<>> => texts # <<>>
    <2> HAVE set # <<>>
    <2>1. DOMAIN set # {}
      BY <1>2, EmptyByDomain
    <2>2. DOMAIN <<>> = {}
      OBVIOUS
    <2> QED
      BY <1>5, <2>1, <2>2, Zenon
  <1> HIDE DEF texts
  <1> QED
    BY <1>1, <1>3, <1>4, <1>6, <1>7, Zenon DEF texts

LEMMA ShownIsVisible ==
    ASSUME NEW d \in Drivers, NEW keywords \in Seq(Texts)
    PROVE  ShownKeywords(d, keywords) = Visible(Ctx[d], keywords)
PROOF
  <1> DEFINE prefix == Ctx[d].keyword_prefix
  <1>1. prefix \in Texts
    BY Context
  <1>2. \A k \in Range(keywords) : k \in Texts
    BY DEF Range
  <1>3. \A k \in Range(keywords) :
            str_starts_with(k, Ctx[d].keyword_prefix) <=> IsPrefix(prefix, k)
    BY <1>1, <1>2, TextAssumption, Zenon DEF str_starts_with
  <1>4. {k \in Range(keywords) : IsPrefix(prefix, k)}
            = {k \in Range(keywords) : str_starts_with(k, Ctx[d].keyword_prefix)}
    BY <1>3, Zenon
  <1> QED
    BY <1>4, Zenon DEF ShownKeywords, Visible

\* An instance of the driver is given what the renderers need.
LEMMA CtxGiven ==
    ASSUME NEW d \in Drivers
    PROVE  Given(Ctx[d], User, Msg)
BY Context, NamesAssumption DEF Given

MsgText(d, e)  == push_notification_driver_kafka_render_msg(Ctx[d], User, Msg, e)
MboxText(e)    == push_notification_driver_kafka_render_mbox(User, Mbox, e)
ChangesFlags(e) == e.name \in {"FlagsSet", "FlagsClear"}

LEMMA FlagsSetText ==
    ASSUME NEW d \in Drivers, NEW e \in FlagsSetEvents, e.name \in Tokens
    PROVE  /\ MsgText(d, e) \in Optional(Texts)
           /\ MsgText(d, e) # NULL <=> FlagChanges(d, e) # <<>>
PROOF
  <1>1. e.name = "FlagsSet" /\ e.keywords \in Seq(Texts)
    BY DEF FlagsSetEvents
  <1> DEFINE text    == write_flags_event(Ctx[d], User, e.name, Msg, e.flags, e.keywords, {}, <<>>)
             flags   == FlagTexts(d, e.flags)
             shown   == ShownKeywords(d, e.keywords)
  <1>2. MsgText(d, e) = text
    BY <1>1, Zenon DEF MsgText, push_notification_driver_kafka_render_msg
  <1>3. <<>> \in Seq(Texts) /\ Visible(Ctx[d], <<>>) = <<>> /\ ~writes_flags({})
    <2>1. \A U, S : Only(<<>>, S) \in Seq(U) /\ \A i \in DOMAIN Only(<<>>, S) : FALSE
      <3> SUFFICES ASSUME NEW U, NEW S
                   PROVE  Only(<<>>, S) \in Seq(U) /\ \A i \in DOMAIN Only(<<>>, S) : FALSE
        OBVIOUS
      <3> DEFINE none == <<>>
      <3>1. none \in Seq(U) /\ DOMAIN none = {}
        OBVIOUS
      <3> HIDE DEF none
      <3>2. Only(none, S) \in Seq(U) /\ \A i \in DOMAIN Only(none, S) : FALSE
        BY <3>1, OnlyProperties
      <3> QED
        BY <3>2 DEF none
    <2>2. \A S : Only(<<>>, S) = <<>>
      BY <2>1, EmptyByDomain
    <2>3. Visible(Ctx[d], <<>>) = <<>>
      BY <2>2, Zenon DEF Visible
    <2> QED
      BY <2>3, EmptySeq, NothingSelected DEF writes_flags
  <1>4. /\ text \in Optional(Texts)
        /\ text # NULL <=> \/ Ctx[d].send_flags /\ writes_flags(e.flags)
                           \/ Visible(Ctx[d], e.keywords) # <<>>
    <2> DEFINE name == e.name
               new  == e.keywords
               old  == <<>>
               ctx  == Ctx[d]
               none == {}
    <2>1. /\ Given(ctx, User, Msg) /\ name \in Tokens
          /\ new \in Seq(Texts) /\ old \in Seq(Texts)
          /\ text = write_flags_event(ctx, User, name, Msg, e.flags, new, none, old)
      BY <1>1, <1>3, CtxGiven
    <2> HIDE DEF text, name, new, old, ctx, none
    <2>2. /\ text \in Optional(Texts)
          /\ text # NULL <=> SomethingToTell(ctx, e.flags, new, none, old)
      BY <2>1, FlagsEventType
    <2>3. /\ ~writes_flags(none) /\ Visible(ctx, old) = <<>>
          /\ ctx = Ctx[d] /\ new = e.keywords
      BY <1>3 DEF old, none, ctx, new
    <2> QED
      BY <2>2, <2>3, Zenon DEF SomethingToTell
  <1>5. FlagChanges(d, e) = IfAny("flags", flags) \o IfAny("keywords", shown)
    BY <1>1, Zenon DEF FlagChanges
  <1>6. FlagChanges(d, e) = <<>> <=> flags = <<>> /\ shown = <<>>
    <2> HIDE DEF flags, shown
    <2> DEFINE a == <<<<"flags">>, flags>>
               b == <<<<"keywords">>, shown>>
               U == {a, b}
    <2>1. a \in U /\ b \in U
      OBVIOUS
    <2> HIDE DEF U
    <2>2. /\ IfAny("flags", flags) \in Seq(U) /\ IfAny("keywords", shown) \in Seq(U)
          /\ IfAny("flags", flags) = <<>> <=> flags = <<>>
          /\ IfAny("keywords", shown) = <<>> <=> shown = <<>>
      BY <2>1, IfAnyType
    <2> QED
      BY <1>5, <2>2, ConcatEqualIffEmpty
  <1>7. shown = Visible(Ctx[d], e.keywords)
    BY <1>1, ShownIsVisible
  <1>8. flags = <<>> <=> ~(Ctx[d].send_flags /\ writes_flags(e.flags))
    BY FlagTextsEmpty
  <1> HIDE DEF text, flags, shown
  <1> QED
    BY <1>2, <1>4, <1>6, <1>7, <1>8, Zenon

LEMMA FlagsClearText ==
    ASSUME NEW d \in Drivers, NEW e \in FlagsClearEvents, e.name \in Tokens
    PROVE  /\ MsgText(d, e) \in Optional(Texts)
           /\ MsgText(d, e) # NULL <=> FlagChanges(d, e) # <<>>
PROOF
  <1>1. e.name = "FlagsClear" /\ e.keywords \in Seq(Texts) /\ e.keywords_old \in Seq(Texts)
    BY DEF FlagsClearEvents
  <1> DEFINE text == write_flags_event(Ctx[d], User, e.name, Msg, e.flags, e.keywords,
                                       e.flags_old, e.keywords_old)
             flags == FlagTexts(d, e.flags)
             oldFlags == FlagTexts(d, e.flags_old)
             shown == ShownKeywords(d, e.keywords)
             oldShown == ShownKeywords(d, e.keywords_old)
  <1>2. MsgText(d, e) = text
    <2>1. e.name # "FlagsSet"
      BY <1>1
    <2> QED
      BY <1>1, <2>1, Zenon DEF MsgText, push_notification_driver_kafka_render_msg
  <1>3. /\ text \in Optional(Texts)
        /\ text # NULL <=> SomethingToTell(Ctx[d], e.flags, e.keywords, e.flags_old, e.keywords_old)
    <2> DEFINE name == e.name
               new  == e.keywords
               old  == e.keywords_old
               ctx  == Ctx[d]
    <2>1. /\ Given(ctx, User, Msg) /\ name \in Tokens
          /\ new \in Seq(Texts) /\ old \in Seq(Texts)
          /\ text = write_flags_event(ctx, User, name, Msg, e.flags, new, e.flags_old, old)
      BY <1>1, CtxGiven
    <2> HIDE DEF text, name, new, old, ctx
    <2>2. /\ text \in Optional(Texts)
          /\ text # NULL <=> SomethingToTell(ctx, e.flags, new, e.flags_old, old)
      BY <2>1, FlagsEventType
    <2> QED
      BY <2>2 DEF old, ctx, new
  <1>4. FlagChanges(d, e) = IfAny("flags", flags) \o IfAny("oldFlags", oldFlags)
                     \o IfAny("keywords", shown) \o IfAny("oldKeywords", oldShown)
    <2>1. e.name # "FlagsSet"
      BY <1>1
    <2> QED
      BY <1>1, <2>1, Zenon DEF FlagChanges
  <1>5. FlagChanges(d, e) = <<>> <=> flags = <<>> /\ oldFlags = <<>> /\ shown = <<>> /\ oldShown = <<>>
    <2> HIDE DEF flags, oldFlags, shown, oldShown
    <2> DEFINE a == <<<<"flags">>, flags>>
               b == <<<<"oldFlags">>, oldFlags>>
               k == <<<<"keywords">>, shown>>
               l == <<<<"oldKeywords">>, oldShown>>
               U == {a, b, k, l}
               f1 == IfAny("flags", flags)
               f2 == IfAny("oldFlags", oldFlags)
               k1 == IfAny("keywords", shown)
               k2 == IfAny("oldKeywords", oldShown)
    <2>1. a \in U /\ b \in U /\ k \in U /\ l \in U
      OBVIOUS
    <2> HIDE DEF U
    <2>2. /\ f1 \in Seq(U) /\ f2 \in Seq(U) /\ k1 \in Seq(U) /\ k2 \in Seq(U)
          /\ f1 = <<>> <=> flags = <<>>
          /\ f2 = <<>> <=> oldFlags = <<>>
          /\ k1 = <<>> <=> shown = <<>>
          /\ k2 = <<>> <=> oldShown = <<>>
      BY <2>1, IfAnyType
    <2> HIDE DEF f1, f2, k1, k2
    <2>3. f1 \o f2 \in Seq(U) /\ (f1 \o f2) \o k1 \in Seq(U)
      BY <2>2, ConcatProperties
    <2>4. /\ f1 \o f2 = <<>> <=> f1 = <<>> /\ f2 = <<>>
          /\ (f1 \o f2) \o k1 = <<>> <=> f1 \o f2 = <<>> /\ k1 = <<>>
          /\ ((f1 \o f2) \o k1) \o k2 = <<>> <=> (f1 \o f2) \o k1 = <<>> /\ k2 = <<>>
      BY <2>2, <2>3, ConcatEqualIffEmpty
    <2>5. FlagChanges(d, e) = ((f1 \o f2) \o k1) \o k2
      BY <1>4, Zenon DEF f1, f2, k1, k2
    <2> QED
      BY <2>2, <2>4, <2>5, Zenon
  <1>6. shown = Visible(Ctx[d], e.keywords) /\ oldShown = Visible(Ctx[d], e.keywords_old)
    BY <1>1, ShownIsVisible
  <1>7. /\ flags = <<>> <=> ~(Ctx[d].send_flags /\ writes_flags(e.flags))
        /\ oldFlags = <<>> <=> ~(Ctx[d].send_flags /\ writes_flags(e.flags_old))
    BY FlagTextsEmpty
  <1> HIDE DEF text, flags, oldFlags, shown, oldShown
  <1>8. SomethingToTell(Ctx[d], e.flags, e.keywords, e.flags_old, e.keywords_old)
            <=> FlagChanges(d, e) # <<>>
    BY <1>5, <1>6, <1>7, Zenon DEF SomethingToTell
  <1> QED
    BY <1>2, <1>3, <1>8, Zenon

\* There is a text for every message event, unless it is a change of flags that
\* tells nothing; and for every mailbox event.
LEMMA TextUnlessNothingToTell ==
    ASSUME NEW d \in Drivers, NEW e \in MsgEvents
    PROVE  /\ MsgText(d, e) \in Optional(Texts)
           /\ MsgText(d, e) = NULL <=> ChangesFlags(e) /\ FlagChanges(d, e) = <<>>
PROOF
  <1>1. e.name \in Tokens
    BY EventNameTokens
  <1>2. CASE e \in FlagsSetEvents
    <2>1. ChangesFlags(e)
      BY <1>2 DEF FlagsSetEvents, ChangesFlags
    <2>2. /\ MsgText(d, e) \in Optional(Texts)
          /\ MsgText(d, e) # NULL <=> FlagChanges(d, e) # <<>>
      BY <1>1, <1>2, FlagsSetText
    <2> QED
      BY <2>1, <2>2, Zenon
  <1>3. CASE e \in FlagsClearEvents
    <2>1. ChangesFlags(e)
      BY <1>3 DEF FlagsClearEvents, ChangesFlags
    <2>2. /\ MsgText(d, e) \in Optional(Texts)
          /\ MsgText(d, e) # NULL <=> FlagChanges(d, e) # <<>>
      BY <1>1, <1>3, FlagsClearText
    <2> QED
      BY <2>1, <2>2, Zenon
  <1>4. CASE ~ChangesFlags(e)
    <2>1. MsgText(d, e) \in Texts
      BY <1>4, CtxGiven, MessageEventType, Zenon DEF MsgText, ChangesFlags
    <2> QED
      BY <1>4, <2>1, TextAssumption, Zenon DEF Optional
  <1>5. e \in FlagsSetEvents \/ e \in FlagsClearEvents \/ ~ChangesFlags(e)
    <2>1. /\ e \in MessageNewEvents => e.name = "MessageNew"
          /\ e \in MessageAppendEvents => e.name = "MessageAppend"
          /\ e \in PlainMessageEvents => e.name \in {"MessageRead", "MessageTrash", "MessageExpunge"}
      BY DEF MessageNewEvents, MessageAppendEvents, PlainMessageEvents
    <2> QED
      BY <2>1, EventsAssumption DEF ChangesFlags
  <1> QED
    BY <1>2, <1>3, <1>4, <1>5, Zenon

LEMMA MailboxTextAlways ==
    ASSUME NEW e \in MboxEvents
    PROVE  MboxText(e) \in Texts /\ MboxText(e) # NULL /\ ~ChangesFlags(e)
PROOF
  <1>1. MboxText(e) \in Texts
    BY NamesAssumption, MailboxEventType DEF MboxText
  <1>2. /\ e \in MailboxCreateEvents => e.name = "MailboxCreate"
        /\ e \in MailboxRenameEvents => e.name = "MailboxRename"
        /\ e \in PlainMailboxEvents =>
               e.name \in {"MailboxDelete", "MailboxSubscribe", "MailboxUnsubscribe"}
    BY DEF MailboxCreateEvents, MailboxRenameEvents, PlainMailboxEvents
  <1> QED
    BY <1>1, <1>2, TextAssumption, EventsAssumption DEF ChangesFlags

LEMMA EventsDisjoint == MsgEvents \cap MboxEvents = {}
PROOF
  <1>1. \A e \in MsgEvents :
            e.name \in {"FlagsSet", "FlagsClear", "MessageNew", "MessageAppend",
                        "MessageRead", "MessageTrash", "MessageExpunge"}
    BY EventsAssumption
       DEF FlagsSetEvents, FlagsClearEvents, MessageNewEvents, MessageAppendEvents,
           PlainMessageEvents
  <1>2. \A e \in MboxEvents :
            e.name \in {"MailboxCreate", "MailboxRename", "MailboxDelete",
                        "MailboxSubscribe", "MailboxUnsubscribe"}
    BY EventsAssumption DEF MailboxCreateEvents, MailboxRenameEvents, PlainMailboxEvents
  <1> QED
    BY <1>1, <1>2

-----------------------------------------------------------------------------
(***************************************************************************)
(* The inductive invariant, a part for each question.                      *)
(***************************************************************************)
\* Just the enabled instances take part, and what they subscribed to is known.
TakingPart ==
    /\ drivers = {d \in begun : Ctx[d].enabled}
    /\ subscribed = UNION {Subscriptions(d) : d \in drivers}
    /\ occurred # <<>> \/ processed # {} => begun = Drivers
    /\ processed \subseteq drivers \X {"msg", "mbox"}
    /\ ended # {} => begun = Drivers

Wanted(e) == \E s \in subscribed : s[1] = e.name

\* An event that somebody subscribed to is recorded once, with its data.
RecordedOnce ==
    /\ occurred \in Seq(MsgEvents \cup MboxEvents)
    /\ \A i, j \in DOMAIN occurred : occurred[i].name = occurred[j].name => i = j
    /\ msgdata \in Seq(MsgEvents) /\ mboxdata \in Seq(MboxEvents)
    /\ Injective(msgdata) /\ Injective(mboxdata)
    /\ Range(msgdata) = {e \in Range(occurred) : e \in MsgEvents /\ Wanted(e)}
    /\ Range(mboxdata) = {e \in Range(occurred) : e \in MboxEvents /\ Wanted(e)}

Hand == [driver : Drivers, event : MsgEvents \cup MboxEvents, text : Texts]

\* What was handed on is the text of an event that the instance has processed.
HandedIsRendered ==
    /\ handed \in Seq(Hand)
    /\ \A i \in DOMAIN handed :
           LET h == handed[i] IN
           /\ h.driver \in drivers
           /\ \/ /\ h.event \in Range(msgdata) /\ <<h.driver, "msg">> \in processed
                 /\ h.text = MsgText(h.driver, h.event)
              \/ /\ h.event \in Range(mboxdata) /\ <<h.driver, "mbox">> \in processed
                 /\ h.text = MboxText(h.event)

Sends(i, d, e) == handed[i].driver = d /\ handed[i].event = e

\* Nothing is handed on twice.
HandedOnce ==
    \A i, j \in DOMAIN handed : Sends(j, handed[i].driver, handed[i].event) => i = j

\* An instance that has processed the data has handed on all there is a text for.
HandedAll ==
    \A d \in drivers :
        /\ <<d, "msg">> \in processed =>
               \A e \in Range(msgdata) :
                   MsgText(d, e) # NULL => \E i \in DOMAIN handed : Sends(i, d, e)
        /\ <<d, "mbox">> \in processed =>
               \A e \in Range(mboxdata) : \E i \in DOMAIN handed : Sends(i, d, e)

PublishInv ==
    /\ TypeOK
    /\ TakingPart
    /\ RecordedOnce
    /\ HandedIsRendered
    /\ HandedOnce
    /\ HandedAll

\* The texts an instance makes of the events of a message or mailbox.
Results(d, data, texts) ==
    [i \in DOMAIN data |-> [driver |-> d, event |-> data[i], text |-> texts[i]]]

LEMMA SentResults ==
    ASSUME NEW d \in Drivers, NEW data \in Seq(MsgEvents \cup MboxEvents), Injective(data),
           NEW texts, \A i \in DOMAIN data : texts[i] \in Optional(Texts),
           NEW sent, sent = Sent(Results(d, data, texts))
    PROVE  /\ sent \in Seq(Hand)
           /\ \A k \in DOMAIN sent : \E i \in DOMAIN data :
                  /\ sent[k].driver = d /\ sent[k].event = data[i]
                  /\ sent[k].text = texts[i] /\ texts[i] # NULL
           /\ \A i \in DOMAIN data : texts[i] # NULL =>
                  \E k \in DOMAIN sent : sent[k].driver = d /\ sent[k].event = data[i]
           /\ \A k, m \in DOMAIN sent : sent[k].event = sent[m].event => k = m
PROOF
  <1> DEFINE results == Results(d, data, texts)
             all     == Range(results)
             S       == {r \in all : r.text # NULL}
  <1>1. /\ DOMAIN results = DOMAIN data
        /\ \A i \in DOMAIN data : results[i] = [driver |-> d, event |-> data[i], text |-> texts[i]]
    BY Zenon DEF Results
  <1>2. results \in Seq(all)
    <2>1. DOMAIN data = 1..Len(data) /\ Len(data) \in Nat
      OBVIOUS
    <2>2. \A i \in 1..Len(data) : results[i] \in all
      BY <1>1, <2>1 DEF Range
    <2>3. results = [i \in 1..Len(data) |-> results[i]]
      BY <2>1, Zenon DEF Results
    <2> HIDE DEF results, all
    <2> QED
      BY <2>1, <2>2, <2>3
  <1>3. sent = Only(results, S)
    BY Zenon DEF Sent
  <1>4. \A i \in DOMAIN data : results[i] \in S <=> texts[i] # NULL
    <2>1. \A i \in DOMAIN data : results[i] \in all /\ results[i].text = texts[i]
      BY <1>1 DEF Range
    <2> HIDE DEF all, results
    <2> QED
      BY <2>1
  <1>5. Injective(results)
    <2>1. \A i \in DOMAIN data : results[i].event = data[i]
      BY <1>1
    <2> HIDE DEF results
    <2> QED
      BY <1>1, <2>1 DEF Injective
  <1> HIDE DEF S, all
  <1>6. /\ sent \in Seq(all)
        /\ \A k \in DOMAIN sent : \E i \in DOMAIN results : sent[k] = results[i] /\ results[i] \in S
        /\ \A i \in DOMAIN results : results[i] \in S => \E k \in DOMAIN sent : sent[k] = results[i]
        /\ Injective(sent)
    <2> HIDE DEF results
    <2> QED
      BY <1>2, <1>3, <1>5, OnlyProperties
  <1>7. \A k \in DOMAIN sent : \E i \in DOMAIN data :
            /\ sent[k] = results[i] /\ sent[k].driver = d /\ sent[k].event = data[i]
            /\ sent[k].text = texts[i] /\ texts[i] # NULL
    <2> SUFFICES ASSUME NEW k \in DOMAIN sent
                 PROVE  \E i \in DOMAIN data :
                            /\ sent[k] = results[i] /\ sent[k].driver = d /\ sent[k].event = data[i]
                            /\ sent[k].text = texts[i] /\ texts[i] # NULL
      OBVIOUS
    <2>1. PICK i \in DOMAIN data : sent[k] = results[i] /\ results[i] \in S
      BY <1>1, <1>6
    <2>2. results[i].driver = d /\ results[i].event = data[i] /\ results[i].text = texts[i]
      BY <1>1
    <2> HIDE DEF results
    <2> QED
      BY <1>4, <2>1, <2>2
  <1>8. \A i \in DOMAIN data : texts[i] # NULL =>
            \E k \in DOMAIN sent : sent[k].driver = d /\ sent[k].event = data[i]
    <2>1. \A i \in DOMAIN data : results[i].driver = d /\ results[i].event = data[i]
      BY <1>1
    <2> HIDE DEF results
    <2> QED
      BY <1>1, <1>4, <1>6, <2>1
  <1>9. \A k, m \in DOMAIN sent : sent[k].event = sent[m].event => k = m
    <2> SUFFICES ASSUME NEW k \in DOMAIN sent, NEW m \in DOMAIN sent,
                        sent[k].event = sent[m].event
                 PROVE  k = m
      OBVIOUS
    <2> HIDE DEF results
    <2>1. PICK i \in DOMAIN data : sent[k] = results[i] /\ sent[k].event = data[i]
      BY <1>7
    <2>2. PICK j \in DOMAIN data : sent[m] = results[j] /\ sent[m].event = data[j]
      BY <1>7
    <2>3. i = j
      BY <2>1, <2>2 DEF Injective
    <2> QED
      BY <1>6, <2>1, <2>2, <2>3 DEF Injective
  <1>10. sent \in Seq(Hand)
    <2>1. \A k \in 1..Len(sent) : sent[k] \in Hand
      <3> SUFFICES ASSUME NEW k \in DOMAIN sent
                   PROVE  sent[k] \in Hand
        BY <1>6
      <3>1. PICK i \in DOMAIN data : sent[k] = results[i] /\ texts[i] # NULL
        BY <1>7
      <3>2. texts[i] \in Texts /\ data[i] \in MsgEvents \cup MboxEvents
        BY <3>1 DEF Optional
      <3>3. sent[k] = [driver |-> d, event |-> data[i], text |-> texts[i]]
        BY <1>1, <3>1
      <3> HIDE DEF results
      <3> QED
        BY <3>2, <3>3 DEF Hand
    <2> HIDE DEF results
    <2>2. Len(sent) \in Nat /\ sent = [k \in 1..Len(sent) |-> sent[k]]
      BY <1>6
    <2> QED
      BY <2>1, <2>2
  <1> HIDE DEF results
  <1> QED
    BY <1>7, <1>8, <1>9, <1>10

LEMMA ConcatIndex ==
    ASSUME NEW U, NEW s \in Seq(U), NEW t \in Seq(U)
    PROVE  /\ s \o t \in Seq(U)
           /\ \A i \in DOMAIN s : i \in DOMAIN (s \o t) /\ (s \o t)[i] = s[i]
           /\ \A k \in DOMAIN t : Len(s) + k \in DOMAIN (s \o t) /\ (s \o t)[Len(s) + k] = t[k]
           /\ \A i \in DOMAIN (s \o t) :
                  i \in DOMAIN s \/ \E k \in DOMAIN t : i = Len(s) + k
           /\ \A k \in DOMAIN t : Len(s) + k \notin DOMAIN s
PROOF
  <1>1. /\ DOMAIN s = 1..Len(s) /\ Len(s) \in Nat /\ DOMAIN t = 1..Len(t) /\ Len(t) \in Nat
        /\ s \o t \in Seq(U) /\ DOMAIN (s \o t) = 1..(Len(s) + Len(t))
        /\ \A i \in 1..(Len(s) + Len(t)) :
               (s \o t)[i] = IF i <= Len(s) THEN s[i] ELSE t[i - Len(s)]
    BY ConcatProperties, LenProperties
  <1> DEFINE st == s \o t
  <1> HIDE DEF st
  <1>2. \A k \in DOMAIN t : Len(s) + k \in DOMAIN st /\ st[Len(s) + k] = t[k]
    <2> SUFFICES ASSUME NEW k \in DOMAIN t
                 PROVE  Len(s) + k \in DOMAIN st /\ st[Len(s) + k] = t[k]
      OBVIOUS
    <2>1. /\ Len(s) + k \in 1..(Len(s) + Len(t)) /\ ~(Len(s) + k <= Len(s))
          /\ (Len(s) + k) - Len(s) = k
      BY <1>1
    <2> QED
      BY <1>1, <2>1 DEF st
  <1>3. \A i \in DOMAIN st : i \in DOMAIN s \/ \E k \in DOMAIN t : i = Len(s) + k
    <2> SUFFICES ASSUME NEW i \in DOMAIN st, i \notin DOMAIN s
                 PROVE  \E k \in DOMAIN t : i = Len(s) + k
      OBVIOUS
    <2>1. i - Len(s) \in DOMAIN t /\ i = Len(s) + (i - Len(s))
      BY <1>1 DEF st
    <2> QED
      BY <2>1
  <1>4. \A i \in DOMAIN s : i \in DOMAIN st /\ st[i] = s[i]
    BY <1>1 DEF st
  <1> QED
    BY <1>1, <1>2, <1>3, <1>4 DEF st

-----------------------------------------------------------------------------
(***************************************************************************)
(* The invariant holds initially and is kept by every action.              *)
(***************************************************************************)
LEMMA PublishInit == Init => PublishInv
PROOF
  <1> SUFFICES ASSUME Init
               PROVE  PublishInv
    OBVIOUS
  <1> USE DEF Init
  <1>1. Range(<<>>) = {} /\ DOMAIN <<>> = {} /\ \A S : <<>> \in Seq(S)
    BY DEF Range
  <1>2. TypeOK
    BY <1>1 DEF TypeOK
  <1>3. TakingPart
    BY DEF TakingPart
  <1>4. RecordedOnce
    BY <1>1, Zenon DEF RecordedOnce, Injective
  <1>5. HandedIsRendered /\ HandedOnce /\ HandedAll
    BY <1>1, Zenon DEF HandedIsRendered, HandedOnce, HandedAll
  <1> QED
    BY <1>2, <1>3, <1>4, <1>5 DEF PublishInv

\* As long as nothing is processed, nothing is handed on.
LEMMA NothingHandedYet ==
    ASSUME PublishInv, processed = {}
    PROVE  \A i \in DOMAIN handed : FALSE
BY DEF PublishInv, HandedIsRendered

LEMMA BeginKeepsInv ==
    ASSUME PublishInv, NEW d \in Drivers, push_notification_driver_kafka_begin_txn(d)
    PROVE  PublishInv'
PROOF
  <1> USE DEF push_notification_driver_kafka_begin_txn
  <1>1. begun # Drivers
    OBVIOUS
  <1>2. occurred = <<>> /\ processed = {} /\ ended = {}
    <2>1. occurred = <<>> /\ processed = {}
      BY <1>1 DEF PublishInv, TakingPart
    <2>2. ended = {}
      BY <1>1 DEF PublishInv, TakingPart
    <2> QED
      BY <2>1, <2>2
  <1>3. \A i \in DOMAIN handed : FALSE
    BY <1>2, NothingHandedYet
  <1>4. Range(occurred) = {} /\ DOMAIN occurred = {}
    BY <1>2 DEF Range
  <1>5. Ctx[d].enabled \in BOOLEAN
    BY Context
  <1>6. TypeOK'
    <2>1. \A s \in Subscriptions(d) : s[2] \in {"headers", "default"}
      BY DEF Subscriptions
    <2> QED
      BY <2>1 DEF PublishInv, TypeOK
  <1>7. TakingPart'
    <2>1. drivers' = {x \in begun' : Ctx[x].enabled}
      BY <1>5 DEF PublishInv, TakingPart
    <2>2. subscribed' = UNION {Subscriptions(x) : x \in drivers'}
      <3>1. CASE Ctx[d].enabled
        <4>1. drivers' = drivers \cup {d} /\ subscribed' = subscribed \cup Subscriptions(d)
          BY <3>1
        <4>2. subscribed = UNION {Subscriptions(x) : x \in drivers}
          BY DEF PublishInv, TakingPart
        <4> QED
          BY <4>1, <4>2
      <3>2. CASE ~Ctx[d].enabled
        BY <3>2 DEF PublishInv, TakingPart
      <3> QED
        BY <3>1, <3>2
    <2> QED
      BY <1>2, <2>1, <2>2 DEF TakingPart
  <1>8. RecordedOnce'
    <2>1. Range(msgdata) = {} /\ Range(mboxdata) = {}
      BY <1>4 DEF PublishInv, RecordedOnce
    <2>2. UNCHANGED <<msgdata, mboxdata, occurred>>
      OBVIOUS
    <2> QED
      BY <1>4, <2>1, <2>2 DEF PublishInv, RecordedOnce
  <1>9. HandedIsRendered' /\ HandedOnce' /\ HandedAll'
    BY <1>2, <1>3 DEF PublishInv, HandedIsRendered, HandedOnce, HandedAll
  <1> QED
    BY <1>6, <1>7, <1>8, <1>9 DEF PublishInv

\* A subscription to an event with headers asks for them, so it is recorded whole.
LEMMA RecordedWhole ==
    ASSUME PublishInv, NEW e \in MsgEvents, Wanted(e)
    PROVE  Recorded(e) = e
PROOF
  <1>1. PICK s \in subscribed : s[1] = e.name
    BY DEF Wanted
  <1>2. PICK d \in drivers : s \in Subscriptions(d)
    BY <1>1 DEF PublishInv, TakingPart
  <1>3. e.name \in WithHeaders => s = <<e.name, "headers">>
    BY <1>1, <1>2 DEF Subscriptions
  <1> QED
    BY <1>1, <1>3, Zenon DEF Recorded

\* Appending something new to a sequence that holds its elements once.
LEMMA AppendOnce ==
    ASSUME NEW U, NEW s \in Seq(U), NEW x \in U
    PROVE  /\ Append(s, x) \in Seq(U)
           /\ Range(Append(s, x)) = Range(s) \cup {x}
           /\ Injective(s) /\ x \notin Range(s) => Injective(Append(s, x))
           /\ DOMAIN Append(s, x) = DOMAIN s \cup {Len(s) + 1}
           /\ \A i \in DOMAIN s : Append(s, x)[i] = s[i]
           /\ Append(s, x)[Len(s) + 1] = x
PROOF
  <1> DEFINE t == Append(s, x)
  <1> HIDE DEF t
  <1>1. /\ Len(s) \in Nat /\ DOMAIN s = 1..Len(s)
        /\ t \in Seq(U) /\ DOMAIN t = 1..(Len(s) + 1)
        /\ \A i \in 1..Len(s) : t[i] = s[i]
        /\ t[Len(s) + 1] = x
    BY AppendProperties, LenProperties DEF t
  <1>2. DOMAIN t = DOMAIN s \cup {Len(s) + 1} /\ Len(s) + 1 \notin DOMAIN s
    BY <1>1
  <1>3. Range(t) = Range(s) \cup {x}
    <2>1. ASSUME NEW y \in Range(t)
          PROVE  y \in Range(s) \cup {x}
      <3>1. PICK i \in DOMAIN t : y = t[i]
        BY DEF Range
      <3> QED
        BY <1>1, <1>2, <3>1 DEF Range
    <2>2. ASSUME NEW y \in Range(s) \cup {x}
          PROVE  y \in Range(t)
      BY <1>1, <1>2 DEF Range
    <2> QED
      BY <2>1, <2>2
  <1>4. ASSUME Injective(s), x \notin Range(s)
        PROVE  Injective(t)
    <2>1. \A i \in DOMAIN s : s[i] # x
      BY <1>4 DEF Range
    <2> QED
      BY <1>1, <1>2, <1>4, <2>1 DEF Injective
  <1> QED
    BY <1>1, <1>2, <1>3, <1>4 DEF t

\* What an event of the message or of the mailbox does to the record of events.
LEMMA OccurredOnce ==
    ASSUME PublishInv, NEW e \in MsgEvents \cup MboxEvents,
           e.name \notin {occurred[i].name : i \in DOMAIN occurred},
           NEW later, later = Append(occurred, e)
    PROVE  /\ later \in Seq(MsgEvents \cup MboxEvents)
           /\ \A i, j \in DOMAIN later : later[i].name = later[j].name => i = j
           /\ Range(later) = Range(occurred) \cup {e}
           /\ e \notin Range(occurred)
           /\ later # <<>>
PROOF
  <1>1. /\ occurred \in Seq(MsgEvents \cup MboxEvents)
        /\ \A i, j \in DOMAIN occurred : occurred[i].name = occurred[j].name => i = j
    BY DEF PublishInv, RecordedOnce
  <1>2. /\ later \in Seq(MsgEvents \cup MboxEvents)
        /\ Range(later) = Range(occurred) \cup {e}
        /\ DOMAIN later = DOMAIN occurred \cup {Len(occurred) + 1}
        /\ \A i \in DOMAIN occurred : later[i] = occurred[i]
        /\ later[Len(occurred) + 1] = e
    BY <1>1, AppendOnce
  <1>3. \A i \in DOMAIN occurred : occurred[i].name # e.name
    OBVIOUS
  <1>4. \A i, j \in DOMAIN later : later[i].name = later[j].name => i = j
    BY <1>1, <1>2, <1>3
  <1>5. e \notin Range(occurred)
    BY <1>3 DEF Range
  <1>6. later # <<>>
    BY <1>1
  <1> QED
    BY <1>2, <1>4, <1>5, <1>6

LEMMA MessageTriggersKeepsInv ==
    ASSUME PublishInv, NEW e \in MsgEvents, MessageTriggers(e)
    PROVE  PublishInv'
PROOF
  <1>1. /\ begun = Drivers /\ processed = {} /\ ended = {}
        /\ occurred' = Append(occurred, e)
        /\ msgdata' = IF Wanted(e) THEN Append(msgdata, Recorded(e)) ELSE msgdata
        /\ UNCHANGED <<begun, drivers, subscribed, mboxdata, processed, handed, ended>>
    BY DEF MessageTriggers, Happening, Wanted
  <1>2. /\ occurred' \in Seq(MsgEvents \cup MboxEvents)
        /\ \A i, j \in DOMAIN occurred' : occurred'[i].name = occurred'[j].name => i = j
        /\ Range(occurred') = Range(occurred) \cup {e}
        /\ e \notin Range(occurred)
    BY <1>1, OccurredOnce DEF MessageTriggers
  <1>3. \A x : Wanted(x)' <=> Wanted(x)
    BY <1>1 DEF Wanted
  <1>4. /\ msgdata \in Seq(MsgEvents) /\ Injective(msgdata)
        /\ Range(msgdata) = {x \in Range(occurred) : x \in MsgEvents /\ Wanted(x)}
    BY DEF PublishInv, RecordedOnce
  <1>5. /\ msgdata' \in Seq(MsgEvents) /\ Injective(msgdata')
        /\ Range(msgdata') = {x \in Range(occurred') : x \in MsgEvents /\ Wanted(x)}
    <2>1. CASE Wanted(e)
      <3>1. msgdata' = Append(msgdata, e)
        BY <1>1, <2>1, RecordedWhole
      <3>2. e \notin Range(msgdata)
        BY <1>2, <1>4
      <3>3. /\ msgdata' \in Seq(MsgEvents) /\ Injective(msgdata')
            /\ Range(msgdata') = Range(msgdata) \cup {e}
        BY <1>4, <3>1, <3>2, AppendOnce
      <3> QED
        BY <1>2, <1>4, <2>1, <3>3
    <2>2. CASE ~Wanted(e)
      <3>1. msgdata' = msgdata
        BY <1>1, <2>2
      <3> QED
        BY <1>2, <1>4, <2>2, <3>1
    <2> QED
      BY <2>1, <2>2
  <1>6. RecordedOnce'
    <2>1. /\ mboxdata \in Seq(MboxEvents) /\ Injective(mboxdata)
          /\ Range(mboxdata) = {x \in Range(occurred) : x \in MboxEvents /\ Wanted(x)}
      BY DEF PublishInv, RecordedOnce
    <2>2. Range(mboxdata) = {x \in Range(occurred') : x \in MboxEvents /\ Wanted(x)}
      BY <1>2, <2>1, EventsDisjoint
    <2> QED
      BY <1>1, <1>2, <1>3, <1>5, <2>1, <2>2 DEF RecordedOnce
  <1>7. TypeOK'
    BY <1>1, <1>2, <1>5 DEF PublishInv, TypeOK
  <1>8. TakingPart'
    BY <1>1 DEF PublishInv, TakingPart
  <1>9. HandedIsRendered' /\ HandedOnce' /\ HandedAll'
    <2>1. \A i \in DOMAIN handed : FALSE
      BY <1>1, NothingHandedYet
    <2> QED
      BY <1>1, <2>1 DEF PublishInv, HandedIsRendered, HandedOnce, HandedAll
  <1> QED
    BY <1>6, <1>7, <1>8, <1>9 DEF PublishInv

LEMMA MailboxTriggersKeepsInv ==
    ASSUME PublishInv, NEW e \in MboxEvents, MailboxTriggers(e)
    PROVE  PublishInv'
PROOF
  <1>1. /\ begun = Drivers /\ processed = {} /\ ended = {}
        /\ occurred' = Append(occurred, e)
        /\ mboxdata' = IF Wanted(e) THEN Append(mboxdata, e) ELSE mboxdata
        /\ UNCHANGED <<begun, drivers, subscribed, msgdata, processed, handed, ended>>
    BY DEF MailboxTriggers, Happening, Wanted
  <1>2. /\ occurred' \in Seq(MsgEvents \cup MboxEvents)
        /\ \A i, j \in DOMAIN occurred' : occurred'[i].name = occurred'[j].name => i = j
        /\ Range(occurred') = Range(occurred) \cup {e}
        /\ e \notin Range(occurred)
    BY <1>1, OccurredOnce DEF MailboxTriggers
  <1>3. \A x : Wanted(x)' <=> Wanted(x)
    BY <1>1 DEF Wanted
  <1>4. /\ mboxdata \in Seq(MboxEvents) /\ Injective(mboxdata)
        /\ Range(mboxdata) = {x \in Range(occurred) : x \in MboxEvents /\ Wanted(x)}
    BY DEF PublishInv, RecordedOnce
  <1>5. /\ mboxdata' \in Seq(MboxEvents) /\ Injective(mboxdata')
        /\ Range(mboxdata') = {x \in Range(occurred') : x \in MboxEvents /\ Wanted(x)}
    <2>1. CASE Wanted(e)
      <3>1. mboxdata' = Append(mboxdata, e)
        BY <1>1, <2>1
      <3>2. e \notin Range(mboxdata)
        BY <1>2, <1>4
      <3>3. /\ mboxdata' \in Seq(MboxEvents) /\ Injective(mboxdata')
            /\ Range(mboxdata') = Range(mboxdata) \cup {e}
        BY <1>4, <3>1, <3>2, AppendOnce
      <3> QED
        BY <1>2, <1>4, <2>1, <3>3
    <2>2. CASE ~Wanted(e)
      <3>1. mboxdata' = mboxdata
        BY <1>1, <2>2
      <3> QED
        BY <1>2, <1>4, <2>2, <3>1
    <2> QED
      BY <2>1, <2>2
  <1>6. RecordedOnce'
    <2>1. /\ msgdata \in Seq(MsgEvents) /\ Injective(msgdata)
          /\ Range(msgdata) = {x \in Range(occurred) : x \in MsgEvents /\ Wanted(x)}
      BY DEF PublishInv, RecordedOnce
    <2>2. Range(msgdata) = {x \in Range(occurred') : x \in MsgEvents /\ Wanted(x)}
      BY <1>2, <2>1, EventsDisjoint
    <2> QED
      BY <1>1, <1>2, <1>3, <1>5, <2>1, <2>2 DEF RecordedOnce
  <1>7. TypeOK'
    BY <1>1, <1>2, <1>5 DEF PublishInv, TypeOK
  <1>8. TakingPart'
    BY <1>1 DEF PublishInv, TakingPart
  <1>9. HandedIsRendered' /\ HandedOnce' /\ HandedAll'
    <2>1. \A i \in DOMAIN handed : FALSE
      BY <1>1, NothingHandedYet
    <2> QED
      BY <1>1, <2>1 DEF PublishInv, HandedIsRendered, HandedOnce, HandedAll
  <1> QED
    BY <1>6, <1>7, <1>8, <1>9 DEF PublishInv

\* handed' extends handed by just the texts the instance has made of the data.
HandedMore(d, data, texts) ==
    /\ \A i \in DOMAIN handed : i \in DOMAIN handed' /\ handed'[i] = handed[i]
    /\ \A i \in DOMAIN handed' :
           \/ i \in DOMAIN handed /\ handed'[i] = handed[i]
           \/ /\ handed'[i].driver = d
              /\ \E k \in DOMAIN data : /\ handed'[i].event = data[k]
                                        /\ handed'[i].text = texts[k]
    /\ \A k \in DOMAIN data : texts[k] # NULL =>
           \E i \in DOMAIN handed' : handed'[i].driver = d /\ handed'[i].event = data[k]

\* An instance hands on the texts of data it has handed nothing of before.
LEMMA HandsOn ==
    ASSUME NEW d \in Drivers, NEW data \in Seq(MsgEvents \cup MboxEvents), Injective(data),
           NEW texts, \A i \in DOMAIN data : texts[i] \in Optional(Texts),
           handed \in Seq(Hand), HandedOnce,
           \A i \in DOMAIN handed : handed[i].driver = d => handed[i].event \notin Range(data),
           handed' = handed \o Sent(Results(d, data, texts))
    PROVE  /\ handed' \in Seq(Hand)
           /\ HandedOnce'
           /\ HandedMore(d, data, texts)
PROOF
  <1> DEFINE sent == Sent(Results(d, data, texts))
  <1>1. /\ sent \in Seq(Hand)
        /\ \A k \in DOMAIN sent : \E i \in DOMAIN data :
               /\ sent[k].driver = d /\ sent[k].event = data[i]
               /\ sent[k].text = texts[i] /\ texts[i] # NULL
        /\ \A i \in DOMAIN data : texts[i] # NULL =>
               \E k \in DOMAIN sent : sent[k].driver = d /\ sent[k].event = data[i]
        /\ \A k, m \in DOMAIN sent : sent[k].event = sent[m].event => k = m
    BY SentResults
  <1> HIDE DEF sent
  <1>2. /\ handed' \in Seq(Hand)
        /\ \A i \in DOMAIN handed : i \in DOMAIN handed' /\ handed'[i] = handed[i]
        /\ \A k \in DOMAIN sent : /\ Len(handed) + k \in DOMAIN handed'
                                  /\ handed'[Len(handed) + k] = sent[k]
        /\ \A i \in DOMAIN handed' :
               i \in DOMAIN handed \/ \E k \in DOMAIN sent : i = Len(handed) + k
    <2>1. handed' = handed \o sent
      BY DEF sent
    <2>2. /\ handed \o sent \in Seq(Hand)
          /\ \A i \in DOMAIN handed :
                 i \in DOMAIN (handed \o sent) /\ (handed \o sent)[i] = handed[i]
          /\ \A k \in DOMAIN sent :
                 /\ Len(handed) + k \in DOMAIN (handed \o sent)
                 /\ (handed \o sent)[Len(handed) + k] = sent[k]
          /\ \A i \in DOMAIN (handed \o sent) :
                 i \in DOMAIN handed \/ \E k \in DOMAIN sent : i = Len(handed) + k
      BY <1>1, ConcatIndex, Zenon
    <2> QED
      BY <2>1, <2>2, Zenon
  <1>3. \A i \in DOMAIN handed' :
            \/ i \in DOMAIN handed /\ handed'[i] = handed[i]
            \/ \E k \in DOMAIN sent : i = Len(handed) + k /\ handed'[i] = sent[k]
    BY <1>2
  <1>4. \A i \in DOMAIN handed' :
            \/ i \in DOMAIN handed /\ handed'[i] = handed[i]
            \/ /\ handed'[i].driver = d
               /\ \E k \in DOMAIN data : /\ handed'[i].event = data[k]
                                         /\ handed'[i].text = texts[k]
    <2> SUFFICES ASSUME NEW i \in DOMAIN handed',
                        NEW m \in DOMAIN sent, handed'[i] = sent[m]
                 PROVE  /\ handed'[i].driver = d
                        /\ \E k \in DOMAIN data : /\ handed'[i].event = data[k]
                                                  /\ handed'[i].text = texts[k]
      BY <1>3
    <2> QED
      BY <1>1
  <1>5. \A k \in DOMAIN data : texts[k] # NULL =>
            \E i \in DOMAIN handed' : handed'[i].driver = d /\ handed'[i].event = data[k]
    <2> SUFFICES ASSUME NEW k \in DOMAIN data, texts[k] # NULL
                 PROVE  \E i \in DOMAIN handed' : /\ handed'[i].driver = d
                                                  /\ handed'[i].event = data[k]
      OBVIOUS
    <2>1. PICK m \in DOMAIN sent : sent[m].driver = d /\ sent[m].event = data[k]
      BY <1>1
    <2>2. Len(handed) + m \in DOMAIN handed' /\ handed'[Len(handed) + m] = sent[m]
      BY <1>2
    <2> QED
      BY <2>1, <2>2
  <1>6. HandedOnce'
    <2> SUFFICES ASSUME NEW i \in DOMAIN handed', NEW j \in DOMAIN handed',
                        handed'[j].driver = handed'[i].driver,
                        handed'[j].event = handed'[i].event
                 PROVE  i = j
      BY DEF HandedOnce, Sends
    <2>1. \A m \in DOMAIN sent : sent[m].driver = d /\ sent[m].event \in Range(data)
      BY <1>1 DEF Range
    <2>2. CASE i \in DOMAIN handed /\ j \in DOMAIN handed
      BY <1>2, <2>2 DEF HandedOnce, Sends
    <2>3. CASE i \in DOMAIN handed /\ j \notin DOMAIN handed
      BY <1>2, <1>3, <2>1, <2>3
    <2>4. CASE i \notin DOMAIN handed /\ j \in DOMAIN handed
      BY <1>2, <1>3, <2>1, <2>4
    <2>5. CASE i \notin DOMAIN handed /\ j \notin DOMAIN handed
      <3>1. PICK k \in DOMAIN sent : i = Len(handed) + k /\ handed'[i] = sent[k]
        BY <1>3, <2>5
      <3>2. PICK m \in DOMAIN sent : j = Len(handed) + m /\ handed'[j] = sent[m]
        BY <1>3, <2>5
      <3> QED
        BY <1>1, <3>1, <3>2
    <2> QED
      BY <2>2, <2>3, <2>4, <2>5
  <1> QED
    BY <1>2, <1>4, <1>5, <1>6, Zenon DEF HandedMore

LEMMA ProcessMsgKeepsInv ==
    ASSUME PublishInv, NEW d \in Drivers, push_notification_driver_kafka_process_msg(d)
    PROVE  PublishInv'
PROOF
  <1> DEFINE texts == [i \in DOMAIN msgdata |-> MsgText(d, msgdata[i])]
  <1>1. /\ d \in drivers /\ ended = {} /\ begun = Drivers
        /\ <<d, "msg">> \notin processed
        /\ processed' = processed \cup {<<d, "msg">>}
        /\ UNCHANGED <<begun, drivers, subscribed, msgdata, mboxdata, occurred, ended>>
    BY DEF push_notification_driver_kafka_process_msg
  <1>2. handed' = handed \o Sent(Results(d, msgdata, texts))
    <2>1. Results(d, msgdata, texts) =
              [i \in DOMAIN msgdata |->
                  [driver |-> d, event |-> msgdata[i],
                   text |-> push_notification_driver_kafka_render_msg
                                (Ctx[d], User, Msg, msgdata[i])]]
      BY DEF Results, MsgText
    <2> QED
      BY <2>1, Zenon DEF push_notification_driver_kafka_process_msg
  <1>3. /\ msgdata \in Seq(MsgEvents) /\ mboxdata \in Seq(MboxEvents)
        /\ Injective(msgdata)
        /\ handed \in Seq(Hand) /\ HandedOnce
    BY DEF PublishInv, RecordedOnce, HandedIsRendered
  <1>4. msgdata \in Seq(MsgEvents \cup MboxEvents)
    BY <1>3
  <1>5. \A i \in DOMAIN msgdata : texts[i] = MsgText(d, msgdata[i]) /\ msgdata[i] \in MsgEvents
    BY <1>3
  <1> HIDE DEF texts
  <1>6. \A i \in DOMAIN msgdata : texts[i] \in Optional(Texts)
    BY <1>5, TextUnlessNothingToTell, Zenon
  <1>7. \A i \in DOMAIN handed : handed[i].driver = d => handed[i].event \notin Range(msgdata)
    <2>1. Range(msgdata) \subseteq MsgEvents /\ Range(mboxdata) \subseteq MboxEvents
      BY DEF PublishInv, TypeOK
    <2> QED
      BY <1>1, <2>1, EventsDisjoint DEF PublishInv, HandedIsRendered
  <1>8. /\ handed' \in Seq(Hand)
        /\ HandedOnce'
        /\ \A i \in DOMAIN handed : i \in DOMAIN handed' /\ handed'[i] = handed[i]
        /\ \A i \in DOMAIN handed' :
               \/ i \in DOMAIN handed /\ handed'[i] = handed[i]
               \/ /\ handed'[i].driver = d
                  /\ \E k \in DOMAIN msgdata : /\ handed'[i].event = msgdata[k]
                                               /\ handed'[i].text = texts[k]
        /\ \A k \in DOMAIN msgdata : texts[k] # NULL =>
               \E i \in DOMAIN handed' : handed'[i].driver = d /\ handed'[i].event = msgdata[k]
    <2>1. Injective(msgdata) /\ handed \in Seq(Hand) /\ HandedOnce
      BY <1>3
    <2>2. handed' \in Seq(Hand) /\ HandedOnce' /\ HandedMore(d, msgdata, texts)
      BY <1>2, <1>4, <1>6, <1>7, <2>1, HandsOn
    <2> QED
      BY <2>2, Zenon DEF HandedMore
  <1>9. HandedIsRendered'
    <2> SUFFICES ASSUME NEW i \in DOMAIN handed'
                 PROVE  /\ handed'[i].driver \in drivers
                        /\ \/ /\ handed'[i].event \in Range(msgdata)
                              /\ <<handed'[i].driver, "msg">> \in processed'
                              /\ handed'[i].text = MsgText(handed'[i].driver, handed'[i].event)
                           \/ /\ handed'[i].event \in Range(mboxdata)
                              /\ <<handed'[i].driver, "mbox">> \in processed'
                              /\ handed'[i].text = MboxText(handed'[i].event)
      BY <1>1, <1>8 DEF HandedIsRendered, MsgText, MboxText
    <2>1. CASE i \in DOMAIN handed /\ handed'[i] = handed[i]
      BY <1>1, <2>1 DEF PublishInv, HandedIsRendered
    <2>2. CASE /\ handed'[i].driver = d
               /\ \E k \in DOMAIN msgdata : /\ handed'[i].event = msgdata[k]
                                            /\ handed'[i].text = texts[k]
      <3>1. PICK k \in DOMAIN msgdata : handed'[i].event = msgdata[k] /\ handed'[i].text = texts[k]
        BY <2>2
      <3>2. msgdata[k] \in Range(msgdata)
        BY DEF Range
      <3> QED
        BY <1>1, <1>5, <2>2, <3>1, <3>2
    <2> QED
      BY <1>8, <2>1, <2>2
  <1>10. HandedAll'
    <2> SUFFICES ASSUME NEW c \in drivers
                 PROVE  /\ <<c, "msg">> \in processed' =>
                               \A e \in Range(msgdata) : MsgText(c, e) # NULL =>
                                   \E i \in DOMAIN handed' : Sends(i, c, e)'
                        /\ <<c, "mbox">> \in processed' =>
                               \A e \in Range(mboxdata) :
                                   \E i \in DOMAIN handed' : Sends(i, c, e)'
      BY <1>1 DEF HandedAll, MsgText
    <2>1. \A e, i : i \in DOMAIN handed /\ Sends(i, c, e) => i \in DOMAIN handed' /\ Sends(i, c, e)'
      BY <1>8 DEF Sends
    <2>2. ASSUME <<c, "mbox">> \in processed', NEW e \in Range(mboxdata)
          PROVE  \E i \in DOMAIN handed' : Sends(i, c, e)'
      <3>1. <<c, "mbox">> \in processed
        BY <1>1, <2>2
      <3>2. PICK i \in DOMAIN handed : Sends(i, c, e)
        BY <3>1, <2>2 DEF PublishInv, HandedAll
      <3> QED
        BY <2>1, <3>2
    <2>3. ASSUME <<c, "msg">> \in processed', NEW e \in Range(msgdata), MsgText(c, e) # NULL
          PROVE  \E i \in DOMAIN handed' : Sends(i, c, e)'
      <3>1. CASE <<c, "msg">> \in processed
        <4>1. PICK i \in DOMAIN handed : Sends(i, c, e)
          BY <2>3, <3>1 DEF PublishInv, HandedAll
        <4> QED
          BY <2>1, <4>1
      <3>2. CASE c = d
        <4>1. PICK k \in DOMAIN msgdata : e = msgdata[k]
          BY <2>3 DEF Range
        <4>2. texts[k] # NULL
          BY <1>5, <2>3, <3>2, <4>1
        <4>3. PICK i \in DOMAIN handed' : handed'[i].driver = d /\ handed'[i].event = msgdata[k]
          BY <1>8, <4>2
        <4> QED
          BY <3>2, <4>1, <4>3 DEF Sends
      <3>3. <<c, "msg">> = <<d, "msg">> => c = d
        OBVIOUS
      <3> QED
        BY <1>1, <2>3, <3>1, <3>2, <3>3
    <2> QED
      BY <2>2, <2>3
  <1>11. TypeOK'
    <2>1. \A i \in DOMAIN handed' : handed'[i].driver \in Drivers /\ handed'[i].text # NULL
      <3>1. \A i \in DOMAIN handed' : handed'[i] \in Hand
        BY <1>8
      <3> QED
        BY <3>1, TextAssumption DEF Hand
    <2> QED
      BY <1>1, <2>1 DEF PublishInv, TypeOK
  <1>12. TakingPart'
    BY <1>1 DEF PublishInv, TakingPart
  <1>13. RecordedOnce'
    BY <1>1 DEF PublishInv, RecordedOnce, Wanted
  <1> QED
    BY <1>8, <1>9, <1>10, <1>11, <1>12, <1>13 DEF PublishInv

LEMMA ProcessMboxKeepsInv ==
    ASSUME PublishInv, NEW d \in Drivers, push_notification_driver_kafka_process_mbox(d)
    PROVE  PublishInv'
PROOF
  <1> DEFINE texts == [i \in DOMAIN mboxdata |-> MboxText(mboxdata[i])]
  <1>1. /\ d \in drivers /\ ended = {} /\ begun = Drivers
        /\ <<d, "mbox">> \notin processed
        /\ processed' = processed \cup {<<d, "mbox">>}
        /\ UNCHANGED <<begun, drivers, subscribed, mboxdata, msgdata, occurred, ended>>
    BY DEF push_notification_driver_kafka_process_mbox
  <1>2. handed' = handed \o Sent(Results(d, mboxdata, texts))
    <2>1. Results(d, mboxdata, texts) =
              [i \in DOMAIN mboxdata |->
                  [driver |-> d, event |-> mboxdata[i],
                   text |-> push_notification_driver_kafka_render_mbox
                                (User, Mbox, mboxdata[i])]]
      BY DEF Results, MboxText
    <2> QED
      BY <2>1, Zenon DEF push_notification_driver_kafka_process_mbox
  <1>3. /\ msgdata \in Seq(MsgEvents) /\ mboxdata \in Seq(MboxEvents)
        /\ Injective(mboxdata)
        /\ handed \in Seq(Hand) /\ HandedOnce
    BY DEF PublishInv, RecordedOnce, HandedIsRendered
  <1>4. mboxdata \in Seq(MsgEvents \cup MboxEvents)
    BY <1>3
  <1>5. \A i \in DOMAIN mboxdata : texts[i] = MboxText(mboxdata[i]) /\ mboxdata[i] \in MboxEvents
    BY <1>3
  <1> HIDE DEF texts
  <1>6. \A i \in DOMAIN mboxdata : texts[i] \in Optional(Texts)
    BY <1>5, MailboxTextAlways, Zenon DEF Optional
  <1>7. \A i \in DOMAIN handed : handed[i].driver = d => handed[i].event \notin Range(mboxdata)
    <2>1. Range(msgdata) \subseteq MsgEvents /\ Range(mboxdata) \subseteq MboxEvents
      BY DEF PublishInv, TypeOK
    <2> QED
      BY <1>1, <2>1, EventsDisjoint DEF PublishInv, HandedIsRendered
  <1>8. /\ handed' \in Seq(Hand)
        /\ HandedOnce'
        /\ \A i \in DOMAIN handed : i \in DOMAIN handed' /\ handed'[i] = handed[i]
        /\ \A i \in DOMAIN handed' :
               \/ i \in DOMAIN handed /\ handed'[i] = handed[i]
               \/ /\ handed'[i].driver = d
                  /\ \E k \in DOMAIN mboxdata : /\ handed'[i].event = mboxdata[k]
                                               /\ handed'[i].text = texts[k]
        /\ \A k \in DOMAIN mboxdata : texts[k] # NULL =>
               \E i \in DOMAIN handed' : handed'[i].driver = d /\ handed'[i].event = mboxdata[k]
    <2>1. Injective(mboxdata) /\ handed \in Seq(Hand) /\ HandedOnce
      BY <1>3
    <2>2. handed' \in Seq(Hand) /\ HandedOnce' /\ HandedMore(d, mboxdata, texts)
      BY <1>2, <1>4, <1>6, <1>7, <2>1, HandsOn
    <2> QED
      BY <2>2, Zenon DEF HandedMore
  <1>9. HandedIsRendered'
    <2> SUFFICES ASSUME NEW i \in DOMAIN handed'
                 PROVE  /\ handed'[i].driver \in drivers
                        /\ \/ /\ handed'[i].event \in Range(msgdata)
                              /\ <<handed'[i].driver, "msg">> \in processed'
                              /\ handed'[i].text = MsgText(handed'[i].driver, handed'[i].event)
                           \/ /\ handed'[i].event \in Range(mboxdata)
                              /\ <<handed'[i].driver, "mbox">> \in processed'
                              /\ handed'[i].text = MboxText(handed'[i].event)
      BY <1>1, <1>8 DEF HandedIsRendered, MsgText, MboxText
    <2>1. CASE i \in DOMAIN handed /\ handed'[i] = handed[i]
      BY <1>1, <2>1 DEF PublishInv, HandedIsRendered
    <2>2. CASE /\ handed'[i].driver = d
               /\ \E k \in DOMAIN mboxdata : /\ handed'[i].event = mboxdata[k]
                                            /\ handed'[i].text = texts[k]
      <3>1. PICK k \in DOMAIN mboxdata : handed'[i].event = mboxdata[k] /\ handed'[i].text = texts[k]
        BY <2>2
      <3>2. mboxdata[k] \in Range(mboxdata)
        BY DEF Range
      <3> QED
        BY <1>1, <1>5, <2>2, <3>1, <3>2
    <2> QED
      BY <1>8, <2>1, <2>2
  <1>10. HandedAll'
    <2> SUFFICES ASSUME NEW c \in drivers
                 PROVE  /\ <<c, "msg">> \in processed' =>
                               \A e \in Range(msgdata) : MsgText(c, e) # NULL =>
                                   \E i \in DOMAIN handed' : Sends(i, c, e)'
                        /\ <<c, "mbox">> \in processed' =>
                               \A e \in Range(mboxdata) :
                                   \E i \in DOMAIN handed' : Sends(i, c, e)'
      BY <1>1 DEF HandedAll, MsgText
    <2>1. \A e, i : i \in DOMAIN handed /\ Sends(i, c, e) => i \in DOMAIN handed' /\ Sends(i, c, e)'
      BY <1>8 DEF Sends
    <2>2. ASSUME <<c, "msg">> \in processed', NEW e \in Range(msgdata), MsgText(c, e) # NULL
          PROVE  \E i \in DOMAIN handed' : Sends(i, c, e)'
      <3>1. <<c, "msg">> \in processed
        BY <1>1, <2>2
      <3>2. PICK i \in DOMAIN handed : Sends(i, c, e)
        BY <3>1, <2>2 DEF PublishInv, HandedAll
      <3> QED
        BY <2>1, <3>2
    <2>3. ASSUME <<c, "mbox">> \in processed', NEW e \in Range(mboxdata)
          PROVE  \E i \in DOMAIN handed' : Sends(i, c, e)'
      <3>1. CASE <<c, "mbox">> \in processed
        <4>1. PICK i \in DOMAIN handed : Sends(i, c, e)
          BY <2>3, <3>1 DEF PublishInv, HandedAll
        <4> QED
          BY <2>1, <4>1
      <3>2. CASE c = d
        <4>1. PICK k \in DOMAIN mboxdata : e = mboxdata[k]
          BY <2>3 DEF Range
        <4>2. texts[k] # NULL
          BY <1>5, <4>1, MailboxTextAlways
        <4>3. PICK i \in DOMAIN handed' : handed'[i].driver = d /\ handed'[i].event = mboxdata[k]
          BY <1>8, <4>2
        <4> QED
          BY <3>2, <4>1, <4>3 DEF Sends
      <3>3. <<c, "mbox">> = <<d, "mbox">> => c = d
        OBVIOUS
      <3> QED
        BY <1>1, <2>3, <3>1, <3>2, <3>3
    <2> QED
      BY <2>2, <2>3
  <1>11. TypeOK'
    <2>1. \A i \in DOMAIN handed' : handed'[i].driver \in Drivers /\ handed'[i].text # NULL
      <3>1. \A i \in DOMAIN handed' : handed'[i] \in Hand
        BY <1>8
      <3> QED
        BY <3>1, TextAssumption DEF Hand
    <2> QED
      BY <1>1, <2>1 DEF PublishInv, TypeOK
  <1>12. TakingPart'
    BY <1>1 DEF PublishInv, TakingPart
  <1>13. RecordedOnce'
    BY <1>1 DEF PublishInv, RecordedOnce, Wanted
  <1> QED
    BY <1>8, <1>9, <1>10, <1>11, <1>12, <1>13 DEF PublishInv

LEMMA EndKeepsInv ==
    ASSUME PublishInv, NEW d \in Drivers, push_notification_driver_kafka_end_txn(d)
    PROVE  PublishInv'
PROOF
  <1>1. /\ begun = Drivers
        /\ ended' = ended \cup {d} /\ d \in drivers
        /\ UNCHANGED <<begun, drivers, subscribed, msgdata, mboxdata, processed, handed,
                       occurred>>
    BY DEF push_notification_driver_kafka_end_txn
  <1>2. TypeOK' /\ TakingPart'
    BY <1>1 DEF PublishInv, TypeOK, TakingPart
  <1>3. RecordedOnce'
    BY <1>1 DEF PublishInv, RecordedOnce, Wanted
  <1>4. HandedIsRendered' /\ HandedOnce' /\ HandedAll'
    BY <1>1 DEF PublishInv, HandedIsRendered, HandedOnce, HandedAll, Sends, MsgText, MboxText
  <1> QED
    BY <1>2, <1>3, <1>4 DEF PublishInv

LEMMA StutterKeepsInv ==
    ASSUME PublishInv, UNCHANGED vars
    PROVE  PublishInv'
PROOF
  <1> USE DEF vars, PublishInv
  <1>1. TypeOK' /\ TakingPart'
    BY DEF TypeOK, TakingPart
  <1>2. RecordedOnce'
    BY DEF RecordedOnce, Wanted
  <1>3. HandedIsRendered' /\ HandedOnce' /\ HandedAll'
    BY DEF HandedIsRendered, HandedOnce, HandedAll, Sends, MsgText, MboxText
  <1> QED
    BY <1>1, <1>2, <1>3

LEMMA PublishStep == PublishInv /\ [Next]_vars => PublishInv'
PROOF
  <1> SUFFICES ASSUME PublishInv, [Next]_vars
               PROVE  PublishInv'
    OBVIOUS
  <1>1. ASSUME NEW d \in Drivers, push_notification_driver_kafka_begin_txn(d)
        PROVE  PublishInv'
    BY <1>1, BeginKeepsInv
  <1>2. ASSUME NEW d \in Drivers, push_notification_driver_kafka_process_msg(d)
        PROVE  PublishInv'
    BY <1>2, ProcessMsgKeepsInv
  <1>3. ASSUME NEW d \in Drivers, push_notification_driver_kafka_process_mbox(d)
        PROVE  PublishInv'
    BY <1>3, ProcessMboxKeepsInv
  <1>4. ASSUME NEW d \in Drivers, push_notification_driver_kafka_end_txn(d)
        PROVE  PublishInv'
    BY <1>4, EndKeepsInv
  <1>5. ASSUME NEW e \in MsgEvents, MessageTriggers(e)
        PROVE  PublishInv'
    BY <1>5, MessageTriggersKeepsInv
  <1>6. ASSUME NEW e \in MboxEvents, MailboxTriggers(e)
        PROVE  PublishInv'
    BY <1>6, MailboxTriggersKeepsInv
  <1>7. CASE UNCHANGED vars
    BY <1>7, StutterKeepsInv
  <1> QED
    BY <1>1, <1>2, <1>3, <1>4, <1>5, <1>6, <1>7 DEF Next, Finished

-----------------------------------------------------------------------------
(***************************************************************************)
(* What holds of every transaction, whatever instances the user has,       *)
(* however they are configured, and whatever happens.                      *)
(***************************************************************************)
\* The inductive invariant: who takes part and what is subscribed to, that an event
\* somebody subscribed to is recorded once and whole, and that the texts handed to
\* send_to_kafka are, once each, those of the data the instances have processed.
THEOREM PublishInvariant == Spec => []PublishInv
PROOF
  <1>1. Init => PublishInv
    BY PublishInit
  <1>2. PublishInv /\ [Next]_vars => PublishInv'
    BY PublishStep
  <1> QED
    BY <1>1, <1>2, PTL DEF Spec

\* Type correctness; with it, that send_to_kafka is never given NULL as a text: the
\* loops of process_msg and process_mbox test what the renderers return.
THEOREM PublishTypeCorrect == Spec => []TypeOK
PROOF
  <1>1. PublishInv => TypeOK
    BY DEF PublishInv
  <1> QED
    BY <1>1, PublishInvariant, PTL

\* An instance that is disabled for the user hands nothing to send_to_kafka: its
\* begin_txn returns FALSE, so Dovecot leaves it out, even when an event is recorded
\* because of what another instance of the transaction subscribed to.
THEOREM DisabledInstancesAreSilent == Spec => []DisabledIsSilent
PROOF
  <1>1. PublishInv => DisabledIsSilent
    BY DEF PublishInv, TakingPart, HandedIsRendered, DisabledIsSilent
  <1> QED
    BY <1>1, PublishInvariant, PTL

LEMMA NothingToTellIsNotHanded ==
    ASSUME PublishInv, NEW i \in DOMAIN handed, ChangesFlags(handed[i].event)
    PROVE  /\ handed[i].event \in MsgEvents
           /\ FlagChanges(handed[i].driver, handed[i].event) # <<>>
PROOF
  <1> DEFINE h == handed[i]
  <1>1. h.text \in Texts /\ h.driver \in Drivers
    <2>1. h \in Hand
      BY DEF PublishInv, HandedIsRendered
    <2> QED
      BY <2>1 DEF Hand
  <1>2. Range(msgdata) \subseteq MsgEvents /\ Range(mboxdata) \subseteq MboxEvents
    BY DEF PublishInv, TypeOK
  <1>3. h.event \notin MboxEvents
    BY MailboxTextAlways, Zenon
  <1>4. h.event \in MsgEvents /\ h.text = MsgText(h.driver, h.event)
    BY <1>2, <1>3 DEF PublishInv, HandedIsRendered
  <1>5. MsgText(h.driver, h.event) # NULL
    BY <1>1, <1>4, TextAssumption
  <1> HIDE DEF h
  <1>6. ~(ChangesFlags(h.event) /\ FlagChanges(h.driver, h.event) = <<>>)
    BY <1>1, <1>4, <1>5, TextUnlessNothingToTell, Zenon
  <1> QED
    BY <1>4, <1>6 DEF h

\* A change of flags that is published tells a flag or a keyword: write_flags_event
\* returns NULL when send_flags and the keyword prefix have left nothing of it, also
\* when the event itself brought flags and keywords.
THEOREM PublishedChangesTell == Spec => []FlagChangesTellSomething
PROOF
  <1>1. PublishInv => FlagChangesTellSomething
    BY NothingToTellIsNotHanded DEF FlagChangesTellSomething, ChangesFlags
  <1> QED
    BY <1>1, PublishInvariant, PTL

\* An event that was recorded and is wanted is handed on just once, if there is a text.
LEMMA HandedJustOnce ==
    ASSUME PublishInv, NEW d \in drivers, NEW e,
           \/ e \in Range(msgdata) /\ <<d, "msg">> \in processed
           \/ e \in Range(mboxdata) /\ <<d, "mbox">> \in processed
    PROVE  Cardinality({j \in DOMAIN handed : Sends(j, d, e)}) =
               IF ChangesFlags(e) /\ FlagChanges(d, e) = <<>> THEN 0 ELSE 1
PROOF
  <1> DEFINE sent == {j \in DOMAIN handed : Sends(j, d, e)}
  <1>1. Range(msgdata) \subseteq MsgEvents /\ Range(mboxdata) \subseteq MboxEvents
    BY DEF PublishInv, TypeOK
  <1>2. d \in Drivers
    BY DEF PublishInv, TypeOK
  <1>3. CASE ChangesFlags(e) /\ FlagChanges(d, e) = <<>>
    <2>1. sent = {}
      BY <1>3, NothingToTellIsNotHanded DEF Sends
    <2> QED
      BY <1>3, <2>1, FS_EmptySet
  <1>4. CASE ~(ChangesFlags(e) /\ FlagChanges(d, e) = <<>>)
    <2>1. e \in MsgEvents => MsgText(d, e) # NULL
      BY <1>2, <1>4, TextUnlessNothingToTell, Zenon
    <2>2. PICK j \in DOMAIN handed : Sends(j, d, e)
      BY <1>1, <2>1 DEF PublishInv, HandedAll
    <2>3. \A k \in DOMAIN handed : Sends(k, d, e) => k = j
      BY <2>2 DEF PublishInv, HandedOnce, Sends
    <2>4. sent = {j}
      BY <2>2, <2>3
    <2> QED
      BY <1>4, <2>4, FS_Singleton
  <1> QED
    BY <1>3, <1>4

\* When the data of a transaction has been processed, an enabled instance has handed on every event it is
\* configured for exactly once, except a change of flags that tells nothing; whatever
\* other instances took part, in whatever order they began and processed the data.
THEOREM ConfiguredEventsPublished == Spec => []ConfiguredEventsArePublished
PROOF
  <1>1. PublishInv => ConfiguredEventsArePublished
    <2> SUFFICES ASSUME PublishInv, Ended, NEW d \in Drivers, NEW i \in DOMAIN occurred,
                        processed = drivers \X {"msg", "mbox"},
                        Ctx[d].enabled, occurred[i].name \in Configured(d)
                 PROVE  Cardinality({j \in DOMAIN handed : Sends(j, d, occurred[i])}) =
                            IF ChangesFlags(occurred[i]) /\ FlagChanges(d, occurred[i]) = <<>>
                            THEN 0 ELSE 1
      BY DEF ConfiguredEventsArePublished, Sends, ChangesFlags
    <2> DEFINE e == occurred[i]
    <2>1. d \in drivers
      BY DEF PublishInv, TakingPart, Ended
    <2>2. <<d, "msg">> \in processed /\ <<d, "mbox">> \in processed
      BY <2>1
    <2>3. Wanted(e)
      <3> DEFINE s == <<e.name, IF e.name \in WithHeaders THEN "headers" ELSE "default">>
      <3>1. s \in Subscriptions(d) /\ s[1] = e.name
        BY DEF Subscriptions
      <3> HIDE DEF s
      <3>2. s \in subscribed
        BY <2>1, <3>1 DEF PublishInv, TakingPart
      <3> QED
        BY <3>1, <3>2 DEF Wanted
    <2>4. e \in Range(occurred) /\ e \in MsgEvents \cup MboxEvents
      BY DEF PublishInv, RecordedOnce, Range
    <2>5. e \in Range(msgdata) \/ e \in Range(mboxdata)
      <3> HIDE DEF e
      <3> QED
        BY <2>3, <2>4 DEF PublishInv, RecordedOnce
    <2> QED
      BY <2>1, <2>2, <2>5, HandedJustOnce
  <1> QED
    BY <1>1, PublishInvariant, PTL

-----------------------------------------------------------------------------
(***************************************************************************)
(* What a consumer reads back from the text of a message event.            *)
(***************************************************************************)
LEMMA IfAnyTelling == \A key, values : IfAny(key, values) = IfTelling(key, values)
BY Zenon DEF IfAny, IfTelling

LEMMA IfSetPresent == \A key, value : IfSet(key, value) = IfPresent(key, value)
BY Zenon DEF IfSet, IfPresent

\* The flags, if the instance shows them.
LEMMA ShownFlagsAdd ==
    ASSUME NEW d \in Drivers, NEW key \in Keys, NEW flags
    PROVE  Adds(FlagsMember(key, IF Ctx[d].send_flags THEN flags ELSE {}),
                IfAny(key, FlagTexts(d, flags)))
PROOF
  <1>2. CASE Ctx[d].send_flags
    <2>1. FlagTexts(d, flags) = FlagNames(flags)
      BY <1>2, Zenon DEF FlagTexts, FlagNames
    <2>2. Adds(FlagsMember(key, flags), IfTelling(key, FlagNames(flags)))
      BY KeySigns, FlagsAdds, Zenon
    <2> QED
      BY <1>2, <2>1, <2>2, IfAnyTelling, Zenon
  <1>3. CASE ~Ctx[d].send_flags
    <2>1. FlagTexts(d, flags) = <<>>
      BY <1>3, Zenon DEF FlagTexts
    <2>2. IfAny(key, FlagTexts(d, flags)) = <<>>
      BY <2>1, Zenon DEF IfAny
    <2>3. FlagsMember(key, {}) = <<>>
      BY Zenon DEF FlagsMember
    <2> QED
      BY <1>3, <2>2, <2>3, AddsNothing, Zenon
  <1> QED
    BY <1>2, <1>3, Zenon

LEMMA ShownKeywordsAdd ==
    ASSUME NEW d \in Drivers, NEW key \in Keys, NEW keywords \in Seq(Texts)
    PROVE  Adds(KeywordsMember(Ctx[d], key, keywords), IfAny(key, ShownKeywords(d, keywords)))
PROOF
  <1> DEFINE ctx == Ctx[d]
  <1> HIDE DEF ctx
  <1>1. Adds(KeywordsMember(ctx, key, keywords), IfTelling(key, Visible(ctx, keywords)))
    BY KeySigns, KeywordsAdds, Zenon
  <1>2. ShownKeywords(d, keywords) = Visible(ctx, keywords)
    BY ShownIsVisible DEF ctx
  <1> QED
    BY <1>1, <1>2, IfAnyTelling, Zenon DEF ctx

EventPrefix(d, e)   == write_msg_prefix(Ctx[d], User, e.name, Msg)
PrefixMembers(d, e) == InvariantPrefix(d, e) \o MsgIds

\* What is told of an event, its date shown as the renderer shows it.
RenderedDate(e) == IF e.name = "MessageNew" THEN DateShown(e.date) ELSE NULL
Tale(d, e)      == Told(d, e, RenderedDate(e))

\* A date is shown where there is one, and in UTC as the instant it is.
LEMMA DateMayBeShown ==
    ASSUME NEW e \in MsgEvents
    PROVE  RenderedDate(e) \in ShownDates(e)
PROOF
  <1>1. CASE e.name # "MessageNew"
    <2>1. RenderedDate(e) = NULL /\ ShownDates(e) = {NULL}
      BY <1>1 DEF RenderedDate, ShownDates
    <2> QED
      BY <2>1
  <1>2. CASE e.name = "MessageNew" /\ e.date = NULL
    <2>1. RenderedDate(e) = NULL /\ ShownDates(e) = {NULL}
      BY <1>2 DEF RenderedDate, DateShown, ShownDates
    <2> QED
      BY <2>1
  <1>3. CASE e.name = "MessageNew" /\ e.date # NULL
    <2> DEFINE date   == e.date
               offset == date.tz
               shown(x) == <<Clock[x.time]>> \o Zone[x.tz]
               dates  == {shown(x) : x \in [time : DOMAIN Clock, tz : DOMAIN Zone]}
    <2>1. e \in MessageNewEvents
      BY <1>3, EventsAssumption
         DEF FlagsSetEvents, FlagsClearEvents, MessageAppendEvents, PlainMessageEvents
    <2>2. date \in [time : DOMAIN Clock, tz : DOMAIN Zone]
      BY <1>3, <2>1 DEF MessageNewEvents, Optional
    <2>3. RenderedDate(e) = <<Clock[date.time]>> \o Zone[offset]
      BY <1>3 DEF RenderedDate, DateShown
    <2>4. ShownDates(e) = IF offset = 0 THEN {<<Clock[date.time]>> \o Zone[0]} ELSE dates
      BY <1>3 DEF ShownDates
    <2> HIDE DEF date
    <2>5. RenderedDate(e) \in dates
      BY <2>2, <2>3, Zenon
    <2> HIDE DEF offset, dates
    <2>6. CASE offset = 0
      BY <2>3, <2>4, <2>6, Zenon
    <2>7. CASE offset # 0
      BY <2>4, <2>5, <2>7, Zenon
    <2> QED
      BY <2>6, <2>7
  <1> QED
    BY <1>1, <1>2, <1>3

LEMMA PrefixTold ==
    ASSUME NEW d \in Drivers, NEW e \in MsgEvents
    PROVE  /\ Tells(EventPrefix(d, e), PrefixMembers(d, e))
           /\ PrefixMembers(d, e) \in Seq(Telling)
PROOF
  <1> DEFINE ctx    == Ctx[d]
             keys   == userdb_fields(d)
             userdb == FoundValues(keys, Env)
             shown  == PrefixShown(User, userdb, Msg.mailbox, e.name) \o IdsShown(Msg)
  <1>1. Given(ctx, User, Msg) /\ ctx.userdb_json = userdb_json(keys, Env)
    BY CtxGiven, Context
  <1>2. /\ keys \in Seq(Texts) /\ \A k \in DOMAIN Env : Env[k] \in Optional(Texts)
        /\ Msg.uid_validity \in Numbers /\ Msg.uid \in Numbers
    BY Context, ConfigAssumption, NamesAssumption
  <1>3. Tells(EventPrefix(d, e), shown)
    <2> DEFINE name == e.name
    <2>1. name \in Tokens /\ name \notin {Quote, Backslash}
      BY EventNameTokens
    <2> HIDE DEF ctx, keys, name
    <2>2. Tells(write_msg_prefix(ctx, User, name, Msg),
                PrefixShown(User, FoundValues(keys, Env), Msg.mailbox, name) \o IdsShown(Msg))
      BY <1>1, <1>2, <2>1, PrefixTells
    <2> QED
      BY <2>2, Zenon DEF EventPrefix, ctx, keys, name
  <1>4. UserdbValues(d) = userdb
    BY Zenon DEF UserdbValues, FoundValues, Present
  <1>5. PrefixMembers(d, e) = shown
    <2> HIDE DEF userdb
    <2>1. InvariantPrefix(d, e) = PrefixShown(User, userdb, Msg.mailbox, e.name)
      BY <1>4, IfAnyTelling, Zenon DEF InvariantPrefix, PrefixShown, One
    <2>2. MsgIds = IdsShown(Msg)
      BY Zenon DEF MsgIds, IdsShown
    <2> QED
      BY <2>1, <2>2, Zenon DEF PrefixMembers
  <1> HIDE DEF shown
  <1>6. shown \in Seq(Telling)
    BY <1>3, ToldType, Zenon DEF Tells
  <1> QED
    BY <1>3, <1>5, <1>6, Zenon

\* The text tells the members every message event has, and what happened.
TellsEvent(d, e) ==
    \E text : /\ MsgText(d, e) = text \o <<"}">>
              /\ Tells(text, PrefixMembers(d, e) \o Tale(d, e))
              /\ Tale(d, e) \in Seq(Telling)

LEMMA FlagsSetTells ==
    ASSUME NEW d \in Drivers, NEW e \in MsgEvents, e \in FlagsSetEvents, MsgText(d, e) # NULL
    PROVE  TellsEvent(d, e)
PROOF
  <1>1. e.name = "FlagsSet" /\ e.keywords \in Seq(Texts)
    BY DEF FlagsSetEvents
  <1> DEFINE shown(fs) == IF Ctx[d].send_flags THEN fs ELSE {}
             start == EventPrefix(d, e)
             told  == PrefixMembers(d, e)
             a     == FlagsMember("flags", shown(e.flags))
             b     == FlagsMember("oldFlags", shown({}))
             k     == KeywordsMember(Ctx[d], "keywords", e.keywords)
             l     == KeywordsMember(Ctx[d], "oldKeywords", <<>>)
             p     == IfAny("flags", FlagTexts(d, e.flags))
             r     == IfAny("keywords", ShownKeywords(d, e.keywords))
             none  == <<>>
  <1>2. Tells(start, told) /\ told \in Seq(Telling)
    BY PrefixTold, Zenon
  <1>3. Adds(a, p) /\ Adds(k, r)
    BY <1>1, KeyNames, ShownFlagsAdd, ShownKeywordsAdd, Zenon
  <1>4. Adds(b, none) /\ Adds(l, none)
    <2>1. b = <<>> /\ l = <<>>
      BY Zenon DEF FlagsMember, KeywordsMember
    <2> QED
      BY <2>1, AddsNothing, Zenon
  <1>5. MsgText(d, e) = start \o a \o b \o k \o l \o <<"}">>
    <2>1. MsgText(d, e) =
              write_flags_event(Ctx[d], User, e.name, Msg, e.flags, e.keywords, {}, <<>>)
      BY <1>1, Zenon DEF MsgText, push_notification_driver_kafka_render_msg
    <2> QED
      BY <2>1, Zenon DEF write_flags_event, EventPrefix
  <1>6. Tale(d, e) = p \o r
    BY <1>1, Zenon DEF Tale, Told, FlagChanges
  <1> HIDE DEF start, told, a, b, k, l, p, r, none
  <1>7. Tells(start \o a \o b \o k \o l, told \o (p \o none \o r \o none))
    BY <1>2, <1>3, <1>4, TellsFour
  <1>8. p \in Seq(Telling) /\ r \in Seq(Telling)
    BY <1>3, Zenon DEF Adds
  <1>9. p \o none = p /\ p \o r \in Seq(Telling) /\ p \o r \o none = p \o r
    BY <1>8, ConcatEmptySeq, ConcatProperties DEF none
  <1>10. Tells(start \o a \o b \o k \o l, told \o Tale(d, e)) /\ Tale(d, e) \in Seq(Telling)
    BY <1>6, <1>7, <1>9, Zenon
  <1> QED
    BY <1>5, <1>10, Zenon DEF TellsEvent, told

LEMMA FlagsClearTells ==
    ASSUME NEW d \in Drivers, NEW e \in MsgEvents, e \in FlagsClearEvents, MsgText(d, e) # NULL
    PROVE  TellsEvent(d, e)
PROOF
  <1>1. e.name = "FlagsClear" /\ e.keywords \in Seq(Texts) /\ e.keywords_old \in Seq(Texts)
        /\ e.name # "FlagsSet"
    BY DEF FlagsClearEvents
  <1> DEFINE shown(fs) == IF Ctx[d].send_flags THEN fs ELSE {}
             start == EventPrefix(d, e)
             told  == PrefixMembers(d, e)
             a     == FlagsMember("flags", shown(e.flags))
             b     == FlagsMember("oldFlags", shown(e.flags_old))
             k     == KeywordsMember(Ctx[d], "keywords", e.keywords)
             l     == KeywordsMember(Ctx[d], "oldKeywords", e.keywords_old)
             p     == IfAny("flags", FlagTexts(d, e.flags))
             q     == IfAny("oldFlags", FlagTexts(d, e.flags_old))
             r     == IfAny("keywords", ShownKeywords(d, e.keywords))
             v     == IfAny("oldKeywords", ShownKeywords(d, e.keywords_old))
  <1>2. Tells(start, told) /\ told \in Seq(Telling)
    BY PrefixTold, Zenon
  <1>3. Adds(a, p) /\ Adds(b, q) /\ Adds(k, r) /\ Adds(l, v)
    BY <1>1, KeyNames, ShownFlagsAdd, ShownKeywordsAdd, Zenon
  <1>4. MsgText(d, e) = start \o a \o b \o k \o l \o <<"}">>
    <2>1. MsgText(d, e) = write_flags_event(Ctx[d], User, e.name, Msg, e.flags, e.keywords,
                                            e.flags_old, e.keywords_old)
      BY <1>1, Zenon DEF MsgText, push_notification_driver_kafka_render_msg
    <2> QED
      BY <2>1, Zenon DEF write_flags_event, EventPrefix
  <1>5. Tale(d, e) = p \o q \o r \o v
    BY <1>1, Zenon DEF Tale, Told, FlagChanges
  <1> HIDE DEF start, told, a, b, k, l, p, q, r, v
  <1>6. p \o q \o r \o v \in Seq(Telling)
        /\ Tells(start \o a \o b \o k \o l, told \o (p \o q \o r \o v))
    BY <1>2, <1>3, TellsFour
  <1> QED
    BY <1>4, <1>5, <1>6, Zenon DEF TellsEvent, told

LEMMA MessageNewTells ==
    ASSUME NEW d \in Drivers, NEW e \in MsgEvents, e \in MessageNewEvents
    PROVE  TellsEvent(d, e)
PROOF
  <1>1. e.name = "MessageNew" /\ WithHeaderTexts(e)
        /\ e.date \in Optional([time : DOMAIN Clock, tz : DOMAIN Zone])
    BY DEF MessageNewEvents, WithHeaderTexts
  <1> DEFINE start == EventPrefix(d, e)
             told  == PrefixMembers(d, e)
             a     == DateMember(e.date)
             b     == HeaderMembers(e)
             p     == IfSet("date", DateShown(e.date))
             q     == HeadersShown(e)
  <1>2. Tells(start, told) /\ told \in Seq(Telling)
    BY PrefixTold, Zenon
  <1>3. Adds(a, p) /\ Adds(b, q)
    <2>1. Adds(a, IfPresent("date", DateShown(e.date))) /\ Adds(b, q)
      BY <1>1, DateAdds, HeadersAdd
    <2>2. p = IfPresent("date", DateShown(e.date))
      BY IfSetPresent, Zenon
    <2> QED
      BY <2>1, <2>2, Zenon
  <1>4. MsgText(d, e) = start \o a \o b \o <<"}">>
    <2>1. e.name # "FlagsSet" /\ e.name # "FlagsClear"
      BY <1>1
    <2> QED
      BY <1>1, <2>1, Zenon
         DEF MsgText, push_notification_driver_kafka_render_msg, write_event_messagenew, EventPrefix
  <1>5. Tale(d, e) = p \o IfPresent("from", e.from) \o IfPresent("snippet", e.snippet)
                     \o IfPresent("subject", e.subject) \o IfPresent("to", e.to)
    <2>1. e.name # "FlagsSet" /\ e.name # "FlagsClear"
      BY <1>1
    <2> QED
      BY <1>1, <2>1, IfSetPresent, Zenon DEF Tale, Told, RenderedDate
  <1> HIDE DEF start, told, a, b, p, q
  <1>6. p \in Seq(Telling)
    BY <1>3, Zenon DEF Adds
  <1>7. Tale(d, e) = p \o q
    BY <1>1, <1>5, <1>6, HeadersAfter DEF q
  <1>8. p \o q \in Seq(Telling) /\ Tells(start \o a \o b, told \o (p \o q))
    BY <1>2, <1>3, TellsTwo
  <1> QED
    BY <1>4, <1>7, <1>8, Zenon DEF TellsEvent, told

LEMMA MessageAppendTells ==
    ASSUME NEW d \in Drivers, NEW e \in MsgEvents, e \in MessageAppendEvents
    PROVE  TellsEvent(d, e)
PROOF
  <1>1. e.name = "MessageAppend" /\ WithHeaderTexts(e)
    BY DEF MessageAppendEvents, WithHeaderTexts
  <1>2. e.name # "FlagsSet" /\ e.name # "FlagsClear" /\ e.name # "MessageNew"
    BY <1>1
  <1> DEFINE start == EventPrefix(d, e)
             told  == PrefixMembers(d, e)
             b     == HeaderMembers(e)
             q     == HeadersShown(e)
  <1>3. Tells(start, told)
    BY PrefixTold, Zenon
  <1>4. Adds(b, q)
    BY <1>1, HeadersAdd
  <1>5. MsgText(d, e) = start \o b \o <<"}">>
    BY <1>1, <1>2, Zenon
       DEF MsgText, push_notification_driver_kafka_render_msg, write_event_messageappend, EventPrefix
  <1>6. Tale(d, e) = q
    BY <1>1, <1>2, IfSetPresent, Zenon DEF Tale, Told, HeadersShown
  <1> HIDE DEF start, told, b, q
  <1>7. Tells(start \o b, told \o q) /\ q \in Seq(Telling)
    BY <1>3, <1>4, TellsMore, Zenon DEF Adds
  <1> QED
    BY <1>5, <1>6, <1>7, Zenon DEF TellsEvent, told

LEMMA PlainMessageTells ==
    ASSUME NEW d \in Drivers, NEW e \in MsgEvents, e \in PlainMessageEvents
    PROVE  TellsEvent(d, e)
PROOF
  <1>1. /\ e.name # "FlagsSet" /\ e.name # "FlagsClear"
        /\ e.name # "MessageNew" /\ e.name # "MessageAppend"
    BY DEF PlainMessageEvents
  <1> DEFINE start == EventPrefix(d, e)
             told  == PrefixMembers(d, e)
             none  == <<>>
  <1>2. Tells(start, told) /\ told \in Seq(Telling)
    BY PrefixTold, Zenon
  <1>3. MsgText(d, e) = start \o <<"}">>
    BY <1>1, Zenon DEF MsgText, push_notification_driver_kafka_render_msg, EventPrefix
  <1>4. Tale(d, e) = none
    BY <1>1, Zenon DEF Tale, Told
  <1>5. none \in Seq(Telling)
    OBVIOUS
  <1> HIDE DEF start, told
  <1>6. told \o none = told
    BY <1>2, ConcatEmptySeq
  <1> HIDE DEF none
  <1> QED
    BY <1>2, <1>3, <1>4, <1>5, <1>6, Zenon DEF TellsEvent, told

LEMMA PrefixParts ==
    ASSUME NEW d \in Drivers, NEW e \in MsgEvents
    PROVE  InvariantPrefix(d, e) \in Seq(Telling) /\ MsgIds \in Seq(Telling)
PROOF
  <1> DEFINE u == One("user", User)
             f == IfAny("userdb", UserdbValues(d))
             m == One("mailbox", Msg.mailbox)
             n == One("event", <<e.name>>)
             v == One("uidvalidity", <<Msg.uid_validity>>)
             i == One("uid", <<Msg.uid>>)
  <1>1. /\ User \in Texts /\ Msg.mailbox \in Texts /\ <<e.name>> \in Texts
        /\ <<Msg.uid_validity>> \in Texts /\ <<Msg.uid>> \in Texts
    BY NamesAssumption, EventNameTokens DEF Texts
  <1>2. u \in Seq(Telling) /\ m \in Seq(Telling) /\ n \in Seq(Telling)
        /\ v \in Seq(Telling) /\ i \in Seq(Telling)
    BY <1>1, KeyTokens, OneType
  <1>3. f \in Seq(Telling)
    <2>1. UserdbValues(d) = FoundValues(userdb_fields(d), Env)
      BY Zenon DEF UserdbValues, FoundValues, Present
    <2>2. UserdbValues(d) \in Seq(Texts)
      BY <2>1, Context, ConfigAssumption, FoundType
    <2> QED
      BY <2>2, KeyTokens, IfTellingType, IfAnyTelling
  <1>4. InvariantPrefix(d, e) = u \o f \o (m \o n) /\ MsgIds = v \o i
    BY TwoConcat, Zenon DEF InvariantPrefix, MsgIds, One
  <1> HIDE DEF u, f, m, n, v, i
  <1> QED
    BY <1>2, <1>3, <1>4, ConcatProperties

LEMMA TextReadBack ==
    ASSUME NEW d \in Drivers, NEW e \in MsgEvents, MsgText(d, e) # NULL
    PROVE  /\ Decode(MsgText(d, e)) # Malformed
           /\ Members(MsgText(d, e)) = InvariantPrefix(d, e) \o MsgIds \o Tale(d, e)
PROOF
  <1>1. TellsEvent(d, e)
    BY EventsAssumption, FlagsSetTells, FlagsClearTells, MessageNewTells, MessageAppendTells,
       PlainMessageTells
  <1> DEFINE prefix == InvariantPrefix(d, e)
             told   == PrefixMembers(d, e)
             all    == told \o Tale(d, e)
  <1>2. PICK text : /\ MsgText(d, e) = text \o <<"}">>
                    /\ Tells(text, told \o Tale(d, e))
                    /\ Tale(d, e) \in Seq(Telling)
    BY <1>1, Zenon DEF TellsEvent
  <1>3. told \in Seq(Telling) /\ told = prefix \o MsgIds
    BY PrefixTold, Zenon DEF PrefixMembers
  <1>4. Len(told) > 1
    <2>1. Len(MsgIds) = 2
      BY DEF MsgIds
    <2>2. prefix \in Seq(Telling) /\ MsgIds \in Seq(Telling)
      BY PrefixParts
    <2> HIDE DEF prefix, told
    <2>3. Len(told) = Len(prefix) + Len(MsgIds)
      BY <1>3, <2>2, ConcatProperties
    <2>4. Len(prefix) \in Nat
      BY <2>2
    <2> QED
      BY <2>1, <2>3, <2>4
  <1>5. Len(all) > 1
    <2> DEFINE more == Tale(d, e)
    <2>1. more \in Seq(Telling)
      BY <1>2
    <2> HIDE DEF told, more
    <2>2. Len(told \o more) = Len(told) + Len(more)
      BY <1>3, <2>1, ConcatProperties
    <2>3. Len(told) \in Nat /\ Len(more) \in Nat
      BY <1>3, <2>1
    <2> QED
      BY <1>4, <2>2, <2>3 DEF more
  <1>6. text \in Texts /\ Holds(After(Start, text), all)
    BY <1>2, Zenon DEF Tells
  <1> HIDE DEF all
  <1>7. /\ Decode(text \o <<"}">>) # Malformed
        /\ Only(Decode(text \o <<"}">>), Telling) = all
    BY <1>5, <1>6, EndDecoded
  <1>8. Telling = TellingMembers
    BY Zenon DEF Telling, Pairs, TellingMembers
  <1>9. Members(MsgText(d, e)) = all
    BY <1>2, <1>7, <1>8, Zenon DEF Members
  <1>10. Decode(MsgText(d, e)) # Malformed
    BY <1>2, <1>7, Zenon
  <1> QED
    BY <1>3, <1>9, <1>10, Zenon DEF all

\* Whatever characters the names hold and whatever the instance is configured to
\* show, a JSON reader finds in the text of every message event exactly the user, the
\* userdb fields, the mailbox, the message and what happened (the date as it was only
\* in UTC): what write_msg_prefix, write_flags_event and write_event_messagenew write
\* is not only well formed, it can be told apart.
THEOREM MessagesReadBack == Spec => []MessageReadBack
PROOF
  <1>1. ASSUME PublishInv, NEW i \in DOMAIN handed, handed[i].event \notin MboxEvents
        PROVE  /\ Decode(handed[i].text) # Malformed
               /\ \E date \in ShownDates(handed[i].event) :
                      Members(handed[i].text) =
                          InvariantPrefix(handed[i].driver, handed[i].event) \o MsgIds
                          \o Told(handed[i].driver, handed[i].event, date)
    <2> DEFINE h == handed[i]
    <2>1. h.text \in Texts /\ h.driver \in Drivers
      <3>1. h \in Hand
        BY <1>1 DEF PublishInv, HandedIsRendered
      <3> QED
        BY <3>1 DEF Hand
    <2>2. Range(msgdata) \subseteq MsgEvents /\ Range(mboxdata) \subseteq MboxEvents
      BY <1>1 DEF PublishInv, TypeOK
    <2>3. h.event \in MsgEvents /\ h.text = MsgText(h.driver, h.event)
      BY <1>1, <2>2 DEF PublishInv, HandedIsRendered
    <2>4. MsgText(h.driver, h.event) # NULL
      BY <2>1, <2>3, TextAssumption
    <2> DEFINE d == h.driver
               e == h.event
    <2>5. d \in Drivers /\ e \in MsgEvents /\ MsgText(d, e) # NULL /\ h.text = MsgText(d, e)
      BY <2>1, <2>3, <2>4
    <2> HIDE DEF d, e
    <2>6. /\ Decode(MsgText(d, e)) # Malformed
          /\ Members(MsgText(d, e)) = InvariantPrefix(d, e) \o MsgIds \o Tale(d, e)
      BY <2>5, TextReadBack
    <2>7. RenderedDate(e) \in ShownDates(e)
      BY <2>5, DateMayBeShown
    <2>8. \E date \in ShownDates(e) :
              Members(MsgText(d, e)) = InvariantPrefix(d, e) \o MsgIds \o Told(d, e, date)
      BY <2>6, <2>7, Zenon DEF Tale
    <2> QED
      BY <2>5, <2>6, <2>8, Zenon DEF d, e
  <1>2. PublishInv => MessageReadBack
    BY <1>1, Zenon DEF MessageReadBack
  <1> QED
    BY <1>2, PublishInvariant, PTL
-----------------------------------------------------------------------------
(***************************************************************************)
(* What a consumer reads back from the text of a mailbox event.            *)
(***************************************************************************)
\* The text tells the members a mailbox event with data has.
TellsMailbox(e) ==
    \E text : MboxText(e) = text \o <<"}">> /\ Tells(text, MailboxMembers(e))

LEMMA MailboxCreateTells ==
    ASSUME NEW e \in MboxEvents, e \in MailboxCreateEvents
    PROVE  TellsMailbox(e)
PROOF
  <1>1. e.name = "MailboxCreate" /\ e.uid_validity \in Tokens \cap Numbers
    BY DEF MailboxCreateEvents
  <1> DEFINE part  == <<e.uid_validity>>
             key   == "uidvalidity"
             text  == <<"{">> \o Member("user", EscapedString(User)) \o <<",">>
                      \o Member("mailbox", EscapedString(Mbox.mailbox)) \o <<",">>
                      \o Member("event", <<Quote, e.name>>)
                      \o (<<Quote, ",">> \o Member(key, part))
             shown == << <<<<"user">>, <<User>>>>, <<<<"mailbox">>, <<Mbox.mailbox>>>>,
                         <<<<"event">>, <<<<e.name>>>>>>, <<<<key>>, <<part>>>> >>
  <1>2. part \in Texts /\ ReadAs(part, <<part>>)
    BY <1>1, ShortTexts, NumberReadAs
  <1>3. key \in Keys
    BY KeyNames
  <1>4. Tells(text, shown)
    <2> DEFINE name == e.name
               box  == Mbox.mailbox
    <2>1. /\ User \in Texts /\ box \in Texts
          /\ name \in Tokens /\ name \notin {Quote, Backslash}
      BY NamesAssumption, EventNameTokens
    <2> HIDE DEF name, box, part, key
    <2>2. Tells(<<"{">> \o Member("user", EscapedString(User)) \o <<",">>
                \o Member("mailbox", EscapedString(box)) \o <<",">>
                \o Member("event", <<Quote, name>>) \o (<<Quote, ",">> \o Member(key, part)),
                << <<<<"user">>, <<User>>>>, <<<<"mailbox">>, <<box>>>>,
                   <<<<"event">>, <<<<name>>>>>>, <<<<key>>, <<part>>>> >>)
      BY <1>2, <1>3, <2>1, MailboxTells
    <2> QED
      BY <2>2, Zenon DEF name, box
  <1>5. MboxText(e) = text \o <<"}">>
    BY <1>1, Zenon DEF MboxText, push_notification_driver_kafka_render_mbox
  <1>6. MailboxMembers(e) = shown
    BY <1>1, Zenon DEF MailboxMembers
  <1> HIDE DEF text, shown
  <1> QED
    BY <1>4, <1>5, <1>6, Zenon DEF TellsMailbox

LEMMA MailboxRenameTells ==
    ASSUME NEW e \in MboxEvents, e \in MailboxRenameEvents
    PROVE  TellsMailbox(e)
PROOF
  <1>1. e.name = "MailboxRename" /\ e.name # "MailboxCreate" /\ e.old_mbox \in Texts
    BY DEF MailboxRenameEvents
  <1> DEFINE part  == e.old_mbox
             value == EscapedString(part)
             key   == "oldMailbox"
             text  == <<"{">> \o Member("user", EscapedString(User)) \o <<",">>
                      \o Member("mailbox", EscapedString(Mbox.mailbox)) \o <<",">>
                      \o Member("event", <<Quote, e.name>>)
                      \o (<<Quote, ",">> \o Member(key, value))
             shown == << <<<<"user">>, <<User>>>>, <<<<"mailbox">>, <<Mbox.mailbox>>>>,
                         <<<<"event">>, <<<<e.name>>>>>>, <<<<key>>, <<part>>>> >>
  <1>2. part \in Texts /\ value \in Texts /\ ReadAs(value, <<part>>)
    BY <1>1, EscapedType, StringReadAs
  <1>3. key \in Keys
    BY DEF Keys
  <1>4. Tells(text, shown)
    <2> DEFINE name == e.name
               box  == Mbox.mailbox
    <2>1. /\ User \in Texts /\ box \in Texts
          /\ name \in Tokens /\ name \notin {Quote, Backslash}
      BY NamesAssumption, EventNameTokens
    <2> HIDE DEF name, box, part, value, key
    <2>2. Tells(<<"{">> \o Member("user", EscapedString(User)) \o <<",">>
                \o Member("mailbox", EscapedString(box)) \o <<",">>
                \o Member("event", <<Quote, name>>) \o (<<Quote, ",">> \o Member(key, value)),
                << <<<<"user">>, <<User>>>>, <<<<"mailbox">>, <<box>>>>,
                   <<<<"event">>, <<<<name>>>>>>, <<<<key>>, <<part>>>> >>)
      BY <1>2, <1>3, <2>1, MailboxTells
    <2> QED
      BY <2>2, Zenon DEF name, box
  <1>5. MboxText(e) = text \o <<"}">>
    BY <1>1, Zenon DEF MboxText, push_notification_driver_kafka_render_mbox
  <1>6. MailboxMembers(e) = shown
    BY <1>1, Zenon DEF MailboxMembers
  <1> HIDE DEF text, shown
  <1> QED
    BY <1>4, <1>5, <1>6, Zenon DEF TellsMailbox

LEMMA MailboxTextReadBack ==
    ASSUME NEW e \in MboxEvents, e.name \in {"MailboxCreate", "MailboxRename"}
    PROVE  Decode(MboxText(e)) # Malformed /\ Members(MboxText(e)) = MailboxMembers(e)
PROOF
  <1> DEFINE all == MailboxMembers(e)
  <1>1. TellsMailbox(e)
    <2>1. e \notin PlainMailboxEvents
      BY DEF PlainMailboxEvents
    <2> QED
      BY <2>1, EventsAssumption, MailboxCreateTells, MailboxRenameTells
  <1>2. PICK text : MboxText(e) = text \o <<"}">> /\ Tells(text, all)
    BY <1>1, Zenon DEF TellsMailbox
  <1>3. Len(all) > 1
    BY DEF MailboxMembers
  <1>4. text \in Texts /\ Holds(After(Start, text), all)
    BY <1>2, Zenon DEF Tells
  <1> HIDE DEF all
  <1>5. /\ Decode(text \o <<"}">>) # Malformed
        /\ Only(Decode(text \o <<"}">>), Telling) = all
    BY <1>3, <1>4, EndDecoded
  <1>6. Telling = TellingMembers
    BY Zenon DEF Telling, Pairs, TellingMembers
  <1> QED
    BY <1>2, <1>5, <1>6, Zenon DEF Members, all

\* Whatever characters the names hold, a JSON reader finds in the text of a mailbox that
\* was created or renamed just the user, the mailbox, the event, and its uidvalidity or
\* old name: although render_mbox closes the event's name only together with those.
THEOREM MailboxesReadBack == Spec => []MailboxReadBack
PROOF
  <1>1. ASSUME PublishInv, NEW i \in DOMAIN handed,
               handed[i].event.name \in {"MailboxCreate", "MailboxRename"}
        PROVE  /\ Decode(handed[i].text) # Malformed
               /\ Members(handed[i].text) = MailboxMembers(handed[i].event)
    <2> DEFINE e == handed[i].event
    <2>1. \A x \in MsgEvents : x.name \notin {"MailboxCreate", "MailboxRename"}
      BY EventsAssumption
         DEF FlagsSetEvents, FlagsClearEvents, MessageNewEvents, MessageAppendEvents,
             PlainMessageEvents
    <2>2. e \notin Range(msgdata)
      BY <1>1, <2>1 DEF PublishInv, TypeOK
    <2>3. e \in MboxEvents /\ handed[i].text = MboxText(e)
      BY <1>1, <2>2 DEF PublishInv, TypeOK, HandedIsRendered
    <2>4. e.name \in {"MailboxCreate", "MailboxRename"}
      BY <1>1
    <2> HIDE DEF e
    <2>5. Decode(MboxText(e)) # Malformed /\ Members(MboxText(e)) = MailboxMembers(e)
      BY <2>3, <2>4, MailboxTextReadBack
    <2> QED
      BY <2>3, <2>5, Zenon DEF e
  <1>2. PublishInv => MailboxReadBack
    BY <1>1, Zenon DEF MailboxReadBack
  <1> QED
    BY <1>2, PublishInvariant, PTL
=============================================================================
