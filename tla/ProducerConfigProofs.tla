------------------------ MODULE ProducerConfigProofs ------------------------
(***************************************************************************)
(* Proofs about ProducerConfig, for any settings of any number of users.   *)
(* The inductive invariant says, for each place in init_global, how far    *)
(* the configuration has come; for the loop over the settings, that the    *)
(* entries before i have been applied.                                     *)
(***************************************************************************)
EXTENDS ProducerConfig, TLAPS

Building == {"settings", "brokers", "debug", "new"}

\* FromSettings for the entries of plugin_envs before n.
AppliedBefore(u, p, n, v) ==
    \/ \E j \in 1..(n - 1) :
        /\ Takes(PluginEnvs[u][j], p) /\ v = PluginEnvs[u][j].value
        /\ \A k \in 1..(n - 1) : Takes(PluginEnvs[u][k], p) => k <= j
    \/ v = DEFAULT /\ ~ \E j \in 1..(n - 1) : Takes(PluginEnvs[u][j], p)

\* kafka_global is its first user's.
GlobalOfUser ==
    /\ guser = NoUser => rk = 0
    /\ guser # NoUser => brokers = Brokers[guser]

\* There is a configuration to work on and no producer yet.
BuildingOpen ==
    pc \in Building =>
        /\ guser \in Users
        /\ rk = 0
        /\ rkc \in 1..Len(conf) /\ conf[rkc].state = "open"

\* What each step has done to it.
SoFar ==
    /\ pc = "settings" =>
        /\ i <= Len(PluginEnvs[guser]) + 1
        /\ conf[rkc].callbacks = {"log_cb"}
        /\ \A p \in Properties : AppliedBefore(guser, p, i, conf[rkc].values[p])
    /\ pc \in {"brokers", "debug", "new"} =>
        /\ conf[rkc].callbacks = AllCallbacks
        /\ \A p \in Properties \ {BOOTSTRAP_SERVERS, DEBUG} :
            FromSettings(guser, p, conf[rkc].values[p])
    /\ pc \in {"debug", "new"} => conf[rkc].values[BOOTSTRAP_SERVERS] = Brokers[guser]

ConfigInv ==
    TypeOK /\ GlobalOfUser /\ BuildingOpen /\ SoFar /\ ConfAccounted /\ ProducerRunsItsConfig

-----------------------------------------------------------------------------
(***************************************************************************)
(* The loop.                                                               *)
(***************************************************************************)
\* Nothing is applied at first.
LEMMA NothingApplied == \A u, p : AppliedBefore(u, p, 1, DEFAULT)
BY DEF AppliedBefore

\* At the end every entry is.
LEMMA EverythingApplied ==
    ASSUME NEW u \in Users, NEW n \in Nat, n <= Len(PluginEnvs[u]) + 1, n > Len(PluginEnvs[u]),
           NEW p, NEW v, AppliedBefore(u, p, n, v)
    PROVE  FromSettings(u, p, v)
<1>1. DOMAIN PluginEnvs[u] = 1..(n - 1)
  BY EnvsAssumption
<1> QED
  BY <1>1 DEF AppliedBefore, FromSettings

\* An entry that is taken decides its property.
LEMMA TakenApplied ==
    ASSUME NEW u \in Users, NEW n \in Nat \ {0}, NEW p, Takes(PluginEnvs[u][n], p)
    PROVE  AppliedBefore(u, p, n + 1, PluginEnvs[u][n].value)
<1>1. n \in 1..(n + 1 - 1)
  OBVIOUS
<1> QED
  BY <1>1 DEF AppliedBefore

\* One that is not leaves it alone.
LEMMA OthersApplied ==
    ASSUME NEW u \in Users, NEW n \in Nat \ {0}, NEW p, NEW v,
           AppliedBefore(u, p, n, v), ~Takes(PluginEnvs[u][n], p)
    PROVE  AppliedBefore(u, p, n + 1, v)
<1>1. \A k : k \in 1..(n + 1 - 1) <=> k \in 1..(n - 1) \/ k = n
  OBVIOUS
<1> QED
  BY <1>1 DEF AppliedBefore

-----------------------------------------------------------------------------
(***************************************************************************)
(* The configuration objects.                                              *)
(***************************************************************************)
\* What rd_kafka_conf_set does to the one being built.
LEMMA ConfSet ==
    ASSUME TypeOK, rkc \in 1..Len(conf), NEW p \in Properties, NEW v \in Values,
           rd_kafka_conf_set(p, v)
    PROVE  /\ conf' \in Seq(ConfType) /\ Len(conf') = Len(conf)
           /\ \A c \in 1..Len(conf) : c # rkc => conf'[c] = conf[c]
           /\ conf'[rkc].state = conf[rkc].state
           /\ conf'[rkc].callbacks = conf[rkc].callbacks
           /\ conf'[rkc].values = [conf[rkc].values EXCEPT ![p] = v]
           /\ conf[rkc].values \in [Properties -> Values]
<1> DEFINE new == [conf[rkc] EXCEPT !.values = [conf[rkc].values EXCEPT ![p] = v]]
<1>1. conf[rkc] \in ConfType
  BY DEF TypeOK
<1>2. conf' = [conf EXCEPT ![rkc] = new]
  BY DEF rd_kafka_conf_set
<1>3. conf[rkc].values \in [Properties -> Values]
  BY <1>1 DEF ConfType
<1>4. /\ new \in ConfType
      /\ new.state = conf[rkc].state /\ new.callbacks = conf[rkc].callbacks
      /\ new.values = [conf[rkc].values EXCEPT ![p] = v]
  BY <1>1, <1>3 DEF ConfType
<1> HIDE DEF new
<1> QED
  BY <1>2, <1>3, <1>4 DEF TypeOK

\* What a change of its state does.
LEMMA ConfState ==
    ASSUME TypeOK, NEW n \in 1..Len(conf), NEW s \in {"open", "owned", "freed"},
           conf' = [conf EXCEPT ![n].state = s]
    PROVE  /\ conf' \in Seq(ConfType) /\ Len(conf') = Len(conf)
           /\ \A c \in 1..Len(conf) : c # n => conf'[c] = conf[c]
           /\ conf'[n].state = s
           /\ conf'[n].callbacks = conf[n].callbacks
           /\ conf'[n].values = conf[n].values
<1> DEFINE new == [conf[n] EXCEPT !.state = s]
<1>1. conf[n] \in ConfType
  BY DEF TypeOK
<1>2. conf' = [conf EXCEPT ![n] = new]
  OBVIOUS
<1>3. /\ new \in ConfType
      /\ new.state = s /\ new.callbacks = conf[n].callbacks /\ new.values = conf[n].values
  BY <1>1 DEF ConfType
<1> HIDE DEF new
<1> QED
  BY <1>2, <1>3 DEF TypeOK

\* ConfAccounted and ProducerRunsItsConfig say nothing of the values of a
\* configuration that is still being built.
LEMMA BuildingStep ==
    ASSUME ConfigInv, pc \in Building, pc' \in Building,
           UNCHANGED <<contexts, global, rkc, rk, turnedDown>>,
           Len(conf') = Len(conf), conf'[rkc].state = conf[rkc].state,
           \A c \in 1..Len(conf) : c # rkc => conf'[c] = conf[c],
           conf' \in Seq(ConfType), i' \in Nat \ {0}
    PROVE  TypeOK' /\ GlobalOfUser' /\ BuildingOpen' /\ ConfAccounted' /\ ProducerRunsItsConfig'
<1>1. TypeOK'
  BY DEF ConfigInv, TypeOK, Building, global
<1>2. GlobalOfUser' /\ BuildingOpen' /\ ProducerRunsItsConfig'
  BY DEF ConfigInv, GlobalOfUser, BuildingOpen, ProducerRunsItsConfig, global
<1>3. DOMAIN conf = 1..Len(conf) /\ DOMAIN conf' = 1..Len(conf)
  BY <1>1 DEF ConfigInv, TypeOK
<1>4. \A c \in DOMAIN conf' : conf'[c].state = conf[c].state
  BY <1>3
<1>5. ConfAccounted'
  BY <1>3, <1>4 DEF ConfigInv, ConfAccounted, Building
<1> QED
  BY <1>1, <1>2, <1>5

-----------------------------------------------------------------------------
(***************************************************************************)
(* The steps of init_global.                                               *)
(***************************************************************************)
\* A new configuration has the defaults.
LEMMA InitGlobalStepInv ==
    ASSUME ConfigInv, push_notification_driver_kafka_init_global
    PROVE  ConfigInv'
<1> DEFINE new == [state |-> "open", values |-> [p \in Properties |-> DEFAULT],
                   callbacks |-> {"log_cb"}]
<1>1. /\ pc = "idle" /\ guser \in contexts /\ rk = 0
      /\ conf' = Append(conf, new) /\ rkc' = Len(conf) + 1 /\ pc' = "settings" /\ i' = 1
      /\ UNCHANGED <<contexts, global, rk, turnedDown>>
  BY DEF push_notification_driver_kafka_init_global
<1>2. new \in ConfType
  BY ValuesAssumption DEF ConfType, AllCallbacks
<1> HIDE DEF new
<1>3. /\ conf' \in Seq(ConfType) /\ Len(conf') = Len(conf) + 1
      /\ conf'[Len(conf) + 1] = new
      /\ \A c \in 1..Len(conf) : conf'[c] = conf[c]
      /\ DOMAIN conf = 1..Len(conf) /\ DOMAIN conf' = 1..(Len(conf) + 1)
      /\ Len(conf) \in Nat
  BY <1>1, <1>2 DEF ConfigInv, TypeOK
<1>4. TypeOK'
  BY <1>1, <1>3 DEF ConfigInv, TypeOK, global
<1>5. GlobalOfUser' /\ ProducerRunsItsConfig'
  BY <1>1 DEF ConfigInv, GlobalOfUser, ProducerRunsItsConfig, global
<1>6. BuildingOpen'
  BY <1>1, <1>3 DEF ConfigInv, TypeOK, BuildingOpen, global, new
<1>7. ConfAccounted'
  BY <1>1, <1>3 DEF ConfigInv, ConfAccounted, new
<1>8. guser \in Users /\ Len(PluginEnvs[guser]) \in Nat
  BY <1>1, EnvsAssumption DEF ConfigInv, TypeOK
<1>9. SoFar'
  BY <1>1, <1>3, <1>8, NothingApplied DEF SoFar, new, global
<1> QED
  BY <1>4, <1>5, <1>6, <1>7, <1>9 DEF ConfigInv

\* An entry is applied.
LEMMA ReadInv ==
    ASSUME ConfigInv, read_plugin_kafka_settings
    PROVE  ConfigInv'
<1> DEFINE e == PluginEnvs[guser][i]
           q == PropertyName(e)
<1>1. /\ pc = "settings" /\ i <= Len(PluginEnvs[guser]) /\ i' = i + 1
      /\ IF Takes(e, q) THEN rd_kafka_conf_set(q, e.value) ELSE UNCHANGED conf
      /\ UNCHANGED <<contexts, global, rkc, rk, pc, turnedDown>>
  BY DEF read_plugin_kafka_settings
<1>2. /\ guser \in Users /\ rkc \in 1..Len(conf) /\ i \in Nat \ {0}
      /\ Len(PluginEnvs[guser]) \in Nat
  BY <1>1, EnvsAssumption DEF ConfigInv, BuildingOpen, Building, TypeOK
<1>3. \A p \in Properties : Takes(e, p) => p = q
  BY DEF Takes
<1>4. guser' = guser
  BY <1>1 DEF global
<1>5. CASE Takes(e, q)
  <2>1. q \in Properties /\ e.value \in Values
    BY <1>1, <1>2, <1>5, EnvsAssumption DEF Takes, Accepts
  <2>2. rd_kafka_conf_set(q, e.value)
    BY <1>1, <1>5
  <2> HIDE DEF e, q
  <2>3. /\ conf' \in Seq(ConfType) /\ Len(conf') = Len(conf)
        /\ \A c \in 1..Len(conf) : c # rkc => conf'[c] = conf[c]
        /\ conf'[rkc].state = conf[rkc].state
        /\ conf'[rkc].callbacks = conf[rkc].callbacks
        /\ conf'[rkc].values = [conf[rkc].values EXCEPT ![q] = e.value]
        /\ conf[rkc].values \in [Properties -> Values]
    BY <1>2, <2>1, <2>2, ConfSet DEF ConfigInv
  <2>4. TypeOK' /\ GlobalOfUser' /\ BuildingOpen' /\ ConfAccounted' /\ ProducerRunsItsConfig'
    BY <1>1, <1>2, <2>3, BuildingStep DEF Building
  <2>5. ASSUME NEW p \in Properties
        PROVE  AppliedBefore(guser, p, i + 1, conf'[rkc].values[p])
    <3>1. CASE p = q
      BY <1>2, <1>5, <2>3, <3>1, TakenApplied DEF e
    <3>2. CASE p # q
      <4>1. conf'[rkc].values[p] = conf[rkc].values[p]
        BY <2>3, <3>2
      <4>2. AppliedBefore(guser, p, i, conf[rkc].values[p])
        BY <1>1 DEF ConfigInv, SoFar
      <4> QED
        BY <1>2, <1>3, <3>2, <4>1, <4>2, OthersApplied DEF e
    <3> QED
      BY <3>1, <3>2
  <2>6. SoFar'
    BY <1>1, <1>2, <1>4, <2>3, <2>5 DEF ConfigInv, SoFar
  <2> QED
    BY <2>4, <2>6 DEF ConfigInv
<1>6. CASE ~Takes(e, q)
  <2>1. UNCHANGED conf
    BY <1>1, <1>6
  <2>2. TypeOK' /\ GlobalOfUser' /\ BuildingOpen' /\ ConfAccounted' /\ ProducerRunsItsConfig'
    BY <1>1, <1>2, <2>1, BuildingStep DEF Building, ConfigInv, TypeOK
  <2>3. \A p \in Properties : ~Takes(e, p)
    BY <1>3, <1>6
  <2>4. \A p \in Properties : AppliedBefore(guser, p, i + 1, conf[rkc].values[p])
    BY <1>1, <1>2, <2>3, OthersApplied DEF ConfigInv, SoFar
  <2>5. SoFar'
    BY <1>1, <1>2, <1>4, <2>1, <2>4 DEF ConfigInv, SoFar
  <2> QED
    BY <2>2, <2>5 DEF ConfigInv
<1> QED
  BY <1>5, <1>6

\* The callbacks are set and the loop is over.
LEMMA CallbacksInv ==
    ASSUME ConfigInv, SetCallbacks
    PROVE  ConfigInv'
<1>1. /\ pc = "settings" /\ i > Len(PluginEnvs[guser]) /\ pc' = "brokers"
      /\ conf' = [conf EXCEPT ![rkc] = set_cbs(conf[rkc], {"error_cb", "dr_msg_cb"})]
      /\ UNCHANGED <<contexts, global, rkc, rk, i, turnedDown>>
  BY DEF SetCallbacks
<1>2. guser \in Users /\ rkc \in 1..Len(conf) /\ conf[rkc] \in ConfType /\ i \in Nat \ {0}
  BY <1>1 DEF ConfigInv, BuildingOpen, Building, TypeOK
<1>3. conf[rkc].callbacks = {"log_cb"}
  BY <1>1 DEF ConfigInv, SoFar
<1>4. /\ set_cbs(conf[rkc], {"error_cb", "dr_msg_cb"}) =
             [conf[rkc] EXCEPT !.callbacks = AllCallbacks]
      /\ [conf[rkc] EXCEPT !.callbacks = AllCallbacks] \in ConfType
  BY <1>2, <1>3 DEF set_cbs, ConfType, AllCallbacks
<1>5. /\ conf' \in Seq(ConfType) /\ Len(conf') = Len(conf)
      /\ \A c \in 1..Len(conf) : c # rkc => conf'[c] = conf[c]
      /\ conf'[rkc].state = conf[rkc].state
      /\ conf'[rkc].callbacks = AllCallbacks
      /\ conf'[rkc].values = conf[rkc].values
  BY <1>1, <1>2, <1>4 DEF ConfigInv, TypeOK, ConfType
<1>6. TypeOK' /\ GlobalOfUser' /\ BuildingOpen' /\ ConfAccounted' /\ ProducerRunsItsConfig'
  BY <1>1, <1>2, <1>5, BuildingStep DEF Building
<1>7. \A p \in Properties : FromSettings(guser, p, conf[rkc].values[p])
  BY <1>1, <1>2, EverythingApplied DEF ConfigInv, SoFar
<1>8. SoFar'
  BY <1>1, <1>5, <1>7 DEF SoFar, global
<1> QED
  BY <1>6, <1>8 DEF ConfigInv

\* The brokers are set, or the configuration is turned down.
LEMMA BrokersInv ==
    ASSUME ConfigInv, SetBrokers
    PROVE  ConfigInv'
<1>1. pc = "brokers" /\ SetOwn(BOOTSTRAP_SERVERS, brokers, "debug")
  BY DEF SetBrokers
<1>2. /\ guser \in Users /\ guser # NoUser /\ rkc \in 1..Len(conf) /\ brokers = Brokers[guser]
      /\ BOOTSTRAP_SERVERS \in Properties /\ brokers \in Values /\ i \in Nat \ {0}
  BY <1>1, UsersAssumption, PropertiesAssumption, ValuesAssumption
     DEF ConfigInv, BuildingOpen, Building, GlobalOfUser, TypeOK
<1>3. CASE Accepts(BOOTSTRAP_SERVERS, brokers)
  <2>1. /\ rd_kafka_conf_set(BOOTSTRAP_SERVERS, brokers) /\ pc' = "debug"
        /\ UNCHANGED <<contexts, global, rkc, rk, i, turnedDown>>
    BY <1>1, <1>3 DEF SetOwn
  <2>2. /\ conf' \in Seq(ConfType) /\ Len(conf') = Len(conf)
        /\ \A c \in 1..Len(conf) : c # rkc => conf'[c] = conf[c]
        /\ conf'[rkc].state = conf[rkc].state
        /\ conf'[rkc].callbacks = conf[rkc].callbacks
        /\ conf'[rkc].values = [conf[rkc].values EXCEPT ![BOOTSTRAP_SERVERS] = brokers]
        /\ conf[rkc].values \in [Properties -> Values]
    BY <1>2, <2>1, ConfSet DEF ConfigInv
  <2>3. TypeOK' /\ GlobalOfUser' /\ BuildingOpen' /\ ConfAccounted' /\ ProducerRunsItsConfig'
    BY <1>1, <1>2, <2>1, <2>2, BuildingStep DEF Building
  <2>4. SoFar'
    BY <1>1, <1>2, <2>1, <2>2 DEF ConfigInv, SoFar, global
  <2> QED
    BY <2>3, <2>4 DEF ConfigInv
<1>4. CASE ~Accepts(BOOTSTRAP_SERVERS, brokers)
  BY <1>1, <1>2, <1>4 DEF SetOwn, ConfigInv, TypeOK, GlobalOfUser, BuildingOpen, Building, SoFar,
                          ConfAccounted, ProducerRunsItsConfig, global
<1> QED
  BY <1>3, <1>4

\* "debug" is set, or the configuration is turned down.
LEMMA DebugInv ==
    ASSUME ConfigInv, SetDebug
    PROVE  ConfigInv'
<1>1. pc = "debug" /\ SetOwn(DEBUG, ALL, "new")
  BY DEF SetDebug
<1>2. /\ guser \in Users /\ rkc \in 1..Len(conf) /\ DEBUG \in Properties /\ ALL \in Values
      /\ i \in Nat \ {0} /\ BOOTSTRAP_SERVERS # DEBUG
  BY <1>1, PropertiesAssumption, ValuesAssumption DEF ConfigInv, BuildingOpen, Building, TypeOK
<1>3. CASE Accepts(DEBUG, ALL)
  <2>1. /\ rd_kafka_conf_set(DEBUG, ALL) /\ pc' = "new"
        /\ UNCHANGED <<contexts, global, rkc, rk, i, turnedDown>>
    BY <1>1, <1>3 DEF SetOwn
  <2>2. /\ conf' \in Seq(ConfType) /\ Len(conf') = Len(conf)
        /\ \A c \in 1..Len(conf) : c # rkc => conf'[c] = conf[c]
        /\ conf'[rkc].state = conf[rkc].state
        /\ conf'[rkc].callbacks = conf[rkc].callbacks
        /\ conf'[rkc].values = [conf[rkc].values EXCEPT ![DEBUG] = ALL]
        /\ conf[rkc].values \in [Properties -> Values]
    BY <1>2, <2>1, ConfSet DEF ConfigInv
  <2>3. TypeOK' /\ GlobalOfUser' /\ BuildingOpen' /\ ConfAccounted' /\ ProducerRunsItsConfig'
    BY <1>1, <1>2, <2>1, <2>2, BuildingStep DEF Building
  <2>4. SoFar'
    BY <1>1, <1>2, <2>1, <2>2, PropertiesAssumption DEF ConfigInv, SoFar, global
  <2> QED
    BY <2>3, <2>4 DEF ConfigInv
<1>4. CASE ~Accepts(DEBUG, ALL)
  BY <1>1, <1>2, <1>4 DEF SetOwn, ConfigInv, TypeOK, GlobalOfUser, BuildingOpen, Building, SoFar,
                          ConfAccounted, ProducerRunsItsConfig, global
<1> QED
  BY <1>3, <1>4

\* The producer takes the finished configuration over, or it is destroyed.
LEMMA NewInv ==
    ASSUME ConfigInv, Created \/ NotCreated
    PROVE  ConfigInv'
<1>1. /\ pc = "new" /\ guser \in Users /\ rkc \in 1..Len(conf) /\ rk = 0
      /\ conf[rkc].state = "open"
      /\ UNCHANGED <<contexts, global, i, turnedDown>>
  BY DEF Created, NotCreated, ConfigInv, BuildingOpen, Building
<1>2. DOMAIN conf = 1..Len(conf)
  BY DEF ConfigInv, TypeOK
<1>3. CASE Created
  <2>1. /\ rk' = rkc /\ UNCHANGED rkc /\ pc' = "idle"
        /\ conf' = [conf EXCEPT ![rkc].state = "owned"]
    BY <1>3 DEF Created
  <2>2. /\ conf' \in Seq(ConfType) /\ Len(conf') = Len(conf)
        /\ \A c \in 1..Len(conf) : c # rkc => conf'[c] = conf[c]
        /\ conf'[rkc].state = "owned"
        /\ conf'[rkc].callbacks = conf[rkc].callbacks
        /\ conf'[rkc].values = conf[rkc].values
    BY <1>1, <2>1, ConfState DEF ConfigInv
  <2>3. TypeOK' /\ GlobalOfUser' /\ BuildingOpen' /\ SoFar'
    BY <1>1, <2>1, <2>2, UsersAssumption
       DEF ConfigInv, TypeOK, GlobalOfUser, BuildingOpen, Building, SoFar, global
  <2>4. ConfAccounted'
    <3>1. DOMAIN conf' = 1..Len(conf)
      BY <2>2
    <3>2. ASSUME NEW c \in 1..Len(conf), c # rkc
          PROVE  conf'[c].state # "owned" /\ (conf'[c].state = "open" => c \in turnedDown)
      BY <1>1, <1>2, <2>2, <3>2 DEF ConfigInv, ConfAccounted
    <3> QED
      BY <1>1, <2>1, <2>2, <3>1, <3>2 DEF ConfAccounted
  <2>5. ProducerRunsItsConfig'
    BY <1>1, <2>1, <2>2 DEF ConfigInv, SoFar, ProducerRunsItsConfig, global
  <2> QED
    BY <2>3, <2>4, <2>5 DEF ConfigInv
<1>4. CASE NotCreated
  <2>1. /\ rkc' = 0 /\ UNCHANGED rk /\ pc' = "dead"
        /\ conf' = [conf EXCEPT ![rkc].state = "freed"]
    BY <1>4 DEF NotCreated
  <2>2. /\ conf' \in Seq(ConfType) /\ Len(conf') = Len(conf)
        /\ \A c \in 1..Len(conf) : c # rkc => conf'[c] = conf[c]
        /\ conf'[rkc].state = "freed"
    BY <1>1, <2>1, ConfState DEF ConfigInv
  <2>3. TypeOK' /\ GlobalOfUser' /\ BuildingOpen' /\ SoFar' /\ ProducerRunsItsConfig'
    BY <1>1, <2>1, <2>2
       DEF ConfigInv, TypeOK, GlobalOfUser, BuildingOpen, Building, SoFar, ProducerRunsItsConfig,
           global
  <2>4. ConfAccounted'
    <3>1. DOMAIN conf' = 1..Len(conf)
      BY <2>2
    <3>2. ASSUME NEW c \in 1..Len(conf), c # rkc
          PROVE  conf'[c].state # "owned" /\ (conf'[c].state = "open" => c \in turnedDown)
      BY <1>1, <1>2, <2>2, <3>2 DEF ConfigInv, ConfAccounted
    <3> QED
      BY <1>1, <2>1, <2>2, <3>1, <3>2 DEF ConfAccounted
  <2> QED
    BY <2>3, <2>4 DEF ConfigInv
<1> QED
  BY <1>3, <1>4

-----------------------------------------------------------------------------
(***************************************************************************)
(* The driver's contexts, and the theorems.                                *)
(***************************************************************************)
\* The first context fills kafka_global in.
LEMMA InitUserInv ==
    ASSUME ConfigInv, NEW u \in Users, push_notification_driver_kafka_init(u)
    PROVE  ConfigInv'
<1>1. /\ pc = "idle" /\ contexts' = contexts \cup {u}
      /\ UNCHANGED <<pc, i, conf, turnedDown>>
  BY DEF push_notification_driver_kafka_init
<1>2. CASE guser = NoUser
  <2>1. /\ guser' = u /\ brokers' = Brokers[u] /\ debug' = Debugs[u] /\ rkc' = 0 /\ rk' = 0 /\ rk = 0
    BY <1>2 DEF push_notification_driver_kafka_init, ConfigInv, GlobalOfUser
  <2> QED
    BY <1>1, <2>1, UsersAssumption, ValuesAssumption
       DEF ConfigInv, TypeOK, GlobalOfUser, BuildingOpen, Building, SoFar, ConfAccounted,
           ProducerRunsItsConfig
<1>3. CASE guser # NoUser
  <2>1. UNCHANGED <<guser, brokers, debug, rkc, rk>>
    BY <1>3 DEF push_notification_driver_kafka_init, global
  <2> QED
    BY <1>1, <2>1
       DEF ConfigInv, TypeOK, GlobalOfUser, BuildingOpen, Building, SoFar, ConfAccounted,
           ProducerRunsItsConfig
<1> QED
  BY <1>2, <1>3

\* With the last context the producer and its configuration go.
LEMMA CleanupInv ==
    ASSUME ConfigInv, NEW u \in Users, push_notification_driver_kafka_cleanup(u)
    PROVE  ConfigInv'
<1>1. /\ pc = "idle" /\ contexts' \subseteq contexts
      /\ UNCHANGED <<pc, i, turnedDown>>
  BY DEF push_notification_driver_kafka_cleanup
<1>2. CASE contexts # {u}
  <2>1. UNCHANGED <<guser, brokers, debug, rkc, rk, conf>>
    BY <1>2 DEF push_notification_driver_kafka_cleanup, global
  <2> QED
    BY <1>1, <2>1
       DEF ConfigInv, TypeOK, GlobalOfUser, BuildingOpen, Building, SoFar, ConfAccounted,
           ProducerRunsItsConfig
<1>3. CASE contexts = {u} /\ rk = 0
  <2>1. /\ guser' = NoUser /\ brokers' = DEFAULT /\ debug' = DEFAULT
        /\ rkc' = 0 /\ rk' = 0 /\ UNCHANGED conf
    BY <1>3 DEF push_notification_driver_kafka_cleanup
  <2> QED
    BY <1>1, <1>3, <2>1, ValuesAssumption
       DEF ConfigInv, TypeOK, GlobalOfUser, BuildingOpen, Building, SoFar, ConfAccounted,
           ProducerRunsItsConfig
<1>4. CASE contexts = {u} /\ rk # 0
  <2>1. /\ guser' = NoUser /\ brokers' = DEFAULT /\ debug' = DEFAULT /\ rkc' = 0 /\ rk' = 0
        /\ conf' = [conf EXCEPT ![rk].state = "freed"]
    BY <1>4 DEF push_notification_driver_kafka_cleanup
  <2>2. rk \in 1..Len(conf) /\ DOMAIN conf = 1..Len(conf)
    BY <1>4 DEF ConfigInv, TypeOK
  <2>3. /\ conf' \in Seq(ConfType) /\ Len(conf') = Len(conf)
        /\ \A c \in 1..Len(conf) : c # rk => conf'[c] = conf[c]
        /\ conf'[rk].state = "freed"
    BY <2>1, <2>2, ConfState DEF ConfigInv
  <2>4. TypeOK' /\ GlobalOfUser' /\ BuildingOpen' /\ SoFar' /\ ProducerRunsItsConfig'
    BY <1>1, <2>1, <2>3, ValuesAssumption
       DEF ConfigInv, TypeOK, GlobalOfUser, BuildingOpen, Building, SoFar, ProducerRunsItsConfig
  <2>5. ConfAccounted'
    <3>1. DOMAIN conf' = 1..Len(conf)
      BY <2>3
    <3>2. ASSUME NEW c \in 1..Len(conf)
          PROVE  conf'[c].state # "owned" /\ (conf'[c].state = "open" => c \in turnedDown)
      BY <1>1, <2>2, <2>3 DEF ConfigInv, ConfAccounted
    <3>3. rk' \notin 1..Len(conf)
      BY <2>1
    <3> QED
      BY <1>1, <3>1, <3>2, <3>3 DEF ConfAccounted
  <2> QED
    BY <2>4, <2>5 DEF ConfigInv
<1> QED
  BY <1>2, <1>3, <1>4

\* ConfigInv is inductive.
THEOREM ConfigInvariant == Spec => []ConfigInv
<1>1. Init => ConfigInv
  BY ValuesAssumption
     DEF Init, ConfigInv, TypeOK, GlobalOfUser, BuildingOpen, Building, SoFar, ConfAccounted,
         ProducerRunsItsConfig
<1>2. ConfigInv /\ [Next]_vars => ConfigInv'
  <2>1. ConfigInv /\ UNCHANGED vars => ConfigInv'
    BY DEF vars, global, ConfigInv, TypeOK, GlobalOfUser, BuildingOpen, SoFar, ConfAccounted,
           ProducerRunsItsConfig
  <2> QED
    BY <2>1, InitUserInv, CleanupInv, InitGlobalStepInv, ReadInv, CallbacksInv, BrokersInv,
       DebugInv, NewInv DEF Next, InitGlobalStep, Finished
<1> QED
  BY <1>1, <1>2, PTL DEF Spec

\* Every variable keeps its type.
THEOREM ConfigTypeCorrect == Spec => []TypeOK
<1>1. ConfigInv => TypeOK
  BY DEF ConfigInv
<1> QED
  BY <1>1, ConfigInvariant, PTL

\* Whatever is configured, the producer's configuration is the one described.
THEOREM ProducerIsConfigured == Spec => []ProducerRunsItsConfig
<1>1. ConfigInv => ProducerRunsItsConfig
  BY DEF ConfigInv
<1> QED
  BY <1>1, ConfigInvariant, PTL

\* No configuration is lost sight of or freed twice but those turned down.
THEOREM ConfsAreAccounted == Spec => []ConfAccounted
<1>1. ConfigInv => ConfAccounted
  BY DEF ConfigInv
<1> QED
  BY <1>1, ConfigInvariant, PTL
=============================================================================
