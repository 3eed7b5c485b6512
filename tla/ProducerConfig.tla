--------------------------- MODULE ProducerConfig ---------------------------
(***************************************************************************)
(* How init_global builds the configuration of the process's one producer  *)
(* from the settings of the user whose driver allocated kafka_global, and  *)
(* what becomes of the rd_kafka_conf_t objects                             *)
(* (src/src/push-notification-kafka-driver.c).                             *)
(*                                                                         *)
(* A name is a sequence of tokens: that of a setting is PREFIX, any one    *)
(* separator, and the name of a librdkafka property.  librdkafka           *)
(* (external) refuses a property it does not know and a value it cannot    *)
(* use.                                                                    *)
(*                                                                         *)
(* Init_global is called by a send of any user's driver, and nothing else  *)
(* runs in between its steps.  What happens once the user whose settings   *)
(* it reads is gone is KafkaDriver's SettingsFromLiveUser.                 *)
(***************************************************************************)
EXTENDS Naturals, FiniteSets, SequencesExt

CONSTANTS
    Users, NoUser,
    PluginEnvs,    \* PluginEnvs[u]: user->set->plugin_envs, a sequence of [name, value]
    Brokers,       \* Brokers[u]: kafka.notification.kafka_brokers, or its default
    Debugs,        \* Debugs[u]: kafka.notification.kafka_debug, or its default
    PREFIX,        \* "kafka.notification.settings"
    Properties,    \* the names librdkafka knows
    BOOTSTRAP_SERVERS, DEBUG,   \* two of them
    Values,        \* the values that occur
    Refused,       \* the pairs <<property, value>> librdkafka cannot use
    DEFAULT, ALL,  \* two values: librdkafka's default, and "all"
    MaxConfs       \* bound: configurations made in a behaviour

ASSUME UsersAssumption == NoUser \notin Users
ASSUME EnvsAssumption  ==
    \A u \in Users :
        /\ Len(PluginEnvs[u]) \in Nat /\ DOMAIN PluginEnvs[u] = 1..Len(PluginEnvs[u])
        /\ \A j \in DOMAIN PluginEnvs[u] : PluginEnvs[u][j].value \in Values
ASSUME PropertiesAssumption ==
    {BOOTSTRAP_SERVERS, DEBUG} \subseteq Properties /\ BOOTSTRAP_SERVERS # DEBUG
ASSUME ValuesAssumption ==
    {DEFAULT, ALL} \cup {Brokers[u] : u \in Users} \cup {Debugs[u] : u \in Users} \subseteq Values

VARIABLES
    contexts,  \* users with an initialised driver context
    guser,     \* kafka_global->user, or NoUser if kafka_global is NULL
    brokers,   \* kafka_global->brokers
    debug,     \* kafka_global->debug, which nothing reads
    rkc,       \* kafka_global->rkc: 0 for NULL, or an index of conf
    rk,        \* kafka_global->rk: 0 for NULL, or the conf the producer was made from
    pc,        \* where init_global is, "idle" if it is not called; "dead": crashed
    i,         \* the loop counter of read_plugin_kafka_settings
    conf,      \* the rd_kafka_conf_t objects made, in order
    turnedDown \* history: those for which init_global returned NULL

global == <<guser, brokers, debug>>
vars   == <<contexts, global, rkc, rk, pc, i, conf, turnedDown>>

\* init_kafka_global and librdkafka's own logging.
AllCallbacks == {"log_cb", "error_cb", "dr_msg_cb"}

Init ==
    /\ contexts = {}
    /\ guser = NoUser /\ brokers = DEFAULT /\ debug = DEFAULT
    /\ rkc = 0 /\ rk = 0
    /\ pc = "idle"
    /\ i = 1
    /\ conf = <<>>
    /\ turnedDown = {}

-----------------------------------------------------------------------------
(***************************************************************************)
(* The driver's contexts.                                                  *)
(***************************************************************************)
\* Mutant: the settings shared by all users are those of the last user.
InitEveryUser(u) ==
    /\ pc = "idle" /\ u \notin contexts
    /\ contexts' = contexts \cup {u}
    /\ brokers' = Brokers[u] /\ debug' = Debugs[u]
    /\ guser' = IF guser = NoUser THEN u ELSE guser
    /\ IF guser = NoUser THEN rkc' = 0 /\ rk' = 0 ELSE UNCHANGED <<rkc, rk>>
    /\ UNCHANGED <<pc, i, conf, turnedDown>>

\* The first driver of the process allocates kafka_global, zeroed, and fills it
\* in from its user's settings.
push_notification_driver_kafka_init(u) ==
    /\ pc = "idle" /\ u \notin contexts
    /\ contexts' = contexts \cup {u}
    /\ IF guser = NoUser
       THEN /\ guser' = u /\ brokers' = Brokers[u] /\ debug' = Debugs[u]
            /\ rkc' = 0 /\ rk' = 0
       ELSE UNCHANGED <<global, rkc, rk>>
    /\ UNCHANGED <<pc, i, conf, turnedDown>>

\* deinit, then cleanup: with the last context the producer goes, which frees its
\* configuration, and kafka_global.  No other configuration is freed.
push_notification_driver_kafka_cleanup(u) ==
    /\ pc = "idle" /\ u \in contexts
    /\ contexts' = contexts \ {u}
    /\ IF contexts = {u}
       THEN /\ conf' = IF rk # 0 THEN [conf EXCEPT ![rk].state = "freed"] ELSE conf
            /\ guser' = NoUser /\ brokers' = DEFAULT /\ debug' = DEFAULT
            /\ rkc' = 0 /\ rk' = 0
       ELSE UNCHANGED <<global, rkc, rk, conf>>
    /\ UNCHANGED <<pc, i, turnedDown>>

-----------------------------------------------------------------------------
(***************************************************************************)
(* init_global.                                                            *)
(***************************************************************************)
\* rd_kafka_conf_set on kafka_global->rkc.
Accepts(p, v)            == p \in Properties /\ <<p, v>> \notin Refused
rd_kafka_conf_set(p, v)  == conf' = [conf EXCEPT ![rkc].values[p] = v]
set_cbs(c, cbs)          == [c EXCEPT !.callbacks = @ \cup cbs]

\* A send finds no producer: a new configuration is begun.
push_notification_driver_kafka_init_global ==
    /\ pc = "idle" /\ guser \in contexts /\ rk = 0
    /\ Len(conf) < MaxConfs
    /\ conf' = Append(conf, [state     |-> "open",
                             values    |-> [p \in Properties |-> DEFAULT],
                             callbacks |-> {"log_cb"}])
    /\ rkc' = Len(conf) + 1
    /\ pc' = "settings" /\ i' = 1
    /\ UNCHANGED <<contexts, global, rk, turnedDown>>

\* The property that a setting is for: strncmp looks at the prefix alone, and the
\* character after it is skipped whatever it is.
IsSetting(e)    == IsStrictPrefix(PREFIX, e.name)
PropertyName(e) == SubSeq(e.name, Len(PREFIX) + 2, Len(e.name))
Takes(e, p)     == IsSetting(e) /\ PropertyName(e) = p /\ Accepts(p, e.value)

\* Mutant: the entries are gone through backwards from the first.
ReadGoesBackwards ==
    /\ pc = "settings" /\ i <= Len(PluginEnvs[guser])
    /\ i' = i - 1
    /\ LET e == PluginEnvs[guser][i] IN
       IF Takes(e, PropertyName(e)) THEN rd_kafka_conf_set(PropertyName(e), e.value)
                                    ELSE UNCHANGED conf
    /\ UNCHANGED <<contexts, global, rkc, rk, pc, turnedDown>>

\* One entry of plugin_envs; one that is refused costs a warning.
read_plugin_kafka_settings ==
    /\ pc = "settings" /\ i <= Len(PluginEnvs[guser])
    /\ i' = i + 1
    /\ LET e == PluginEnvs[guser][i] IN
       IF Takes(e, PropertyName(e)) THEN rd_kafka_conf_set(PropertyName(e), e.value)
                                    ELSE UNCHANGED conf
    /\ UNCHANGED <<contexts, global, rkc, rk, pc, turnedDown>>

SetCallbacks ==
    /\ pc = "settings" /\ i > Len(PluginEnvs[guser])
    /\ conf' = [conf EXCEPT ![rkc] = set_cbs(@, {"error_cb", "dr_msg_cb"})]
    /\ pc' = "brokers"
    /\ UNCHANGED <<contexts, global, rkc, rk, i, turnedDown>>

\* A property init_global itself sets; if it is refused NULL is returned and
\* kafka_global->rkc is left as it is.
SetOwn(p, v, next) ==
    \/ /\ Accepts(p, v)
       /\ rd_kafka_conf_set(p, v)
       /\ pc' = next
       /\ UNCHANGED <<contexts, global, rkc, rk, i, turnedDown>>
    \/ /\ ~Accepts(p, v)
       /\ pc' = "idle"
       /\ turnedDown' = turnedDown \cup {rkc}
       /\ UNCHANGED <<contexts, global, rkc, rk, i, conf>>

SetBrokers == pc = "brokers" /\ SetOwn(BOOTSTRAP_SERVERS, brokers, "debug")
SetDebug   == pc = "debug" /\ SetOwn(DEBUG, ALL, "new")

\* rd_kafka_new takes the configuration over.
Created ==
    /\ pc = "new"
    /\ rk' = rkc
    /\ conf' = [conf EXCEPT ![rkc].state = "owned"]
    /\ pc' = "idle"
    /\ UNCHANGED <<contexts, global, rkc, i, turnedDown>>

\* Mutant: the configuration is not destroyed.
NotCreatedKeepsConf ==
    /\ pc = "new"
    /\ rkc' = 0
    /\ pc' = "dead"
    /\ UNCHANGED <<contexts, global, rk, i, conf, turnedDown>>

\* It fails: the configuration is destroyed, and rd_kafka_set_log_level writes
\* through NULL.
NotCreated ==
    /\ pc = "new"
    /\ conf' = [conf EXCEPT ![rkc].state = "freed"]
    /\ rkc' = 0
    /\ pc' = "dead"
    /\ UNCHANGED <<contexts, global, rk, i, turnedDown>>

\* Nothing more happens, as the process is over or no further configuration is made.
Finished == (pc = "dead" \/ Len(conf) = MaxConfs) /\ UNCHANGED vars

-----------------------------------------------------------------------------
InitGlobalStep ==
    \/ push_notification_driver_kafka_init_global
    \/ read_plugin_kafka_settings \/ SetCallbacks
    \/ SetBrokers \/ SetDebug
    \/ Created \/ NotCreated

Next ==
    \/ \E u \in Users : \/ push_notification_driver_kafka_init(u)
                        \/ push_notification_driver_kafka_cleanup(u)
    \/ InitGlobalStep
    \/ Finished

Spec == Init /\ [][Next]_vars

-----------------------------------------------------------------------------
(***************************************************************************)
(* Properties.                                                             *)
(***************************************************************************)
ConfType ==
    [state : {"open", "owned", "freed"}, values : [Properties -> Values],
     callbacks : SUBSET AllCallbacks]

TypeOK ==
    /\ contexts \subseteq Users
    /\ guser \in Users \cup {NoUser}
    /\ brokers \in Values /\ debug \in Values
    /\ pc \in {"idle", "settings", "brokers", "debug", "new", "dead"}
    /\ i \in Nat \ {0}
    /\ conf \in Seq(ConfType)
    /\ rkc \in 0..Len(conf) /\ rk \in 0..Len(conf)
    /\ turnedDown \subseteq 1..Len(conf)

\* A setting of user u that librdkafka accepted, with none for the same property
\* after it, decides the property; one without such a setting has its default.
FromSettings(u, p, v) ==
    \/ \E j \in DOMAIN PluginEnvs[u] :
        /\ Takes(PluginEnvs[u][j], p) /\ v = PluginEnvs[u][j].value
        /\ \A k \in DOMAIN PluginEnvs[u] : Takes(PluginEnvs[u][k], p) => k <= j
    \/ v = DEFAULT /\ ~ \E j \in DOMAIN PluginEnvs[u] : Takes(PluginEnvs[u][j], p)

\* The producer all users share runs with the settings of one user, that of
\* kafka_global: the last setting librdkafka accepted counts for each property,
\* refused ones cost nothing else, and neither the brokers nor the callbacks can be
\* changed by them.  "debug" is DebugAsConfigured's.
ProducerRunsItsConfig ==
    rk # 0 =>
        /\ conf[rk].callbacks = AllCallbacks
        /\ conf[rk].values[BOOTSTRAP_SERVERS] = Brokers[guser]
        /\ \A p \in Properties \ {BOOTSTRAP_SERVERS, DEBUG} :
            FromSettings(guser, p, conf[rk].values[p])

\* librdkafka's debug option is what kafka.notification.kafka_debug says (README.md:94).
DebugAsConfigured == rk # 0 => conf[rk].values[DEBUG] = debug

\* Every configuration is being built, owned by the producer in use, or freed;
\* only those that init_global turned down are never freed.
ConfAccounted ==
    \A c \in DOMAIN conf :
        /\ conf[c].state = "owned" <=> rk = c
        /\ conf[c].state = "open" => c \in turnedDown \/ (c = rkc /\ pc # "idle")
=============================================================================
