-------------------------- MODULE MCProducerConfig --------------------------
(***************************************************************************)
(* Instance of ProducerConfig for TLC: two users with different settings.  *)
(* The first user's include names of other plugins, the bare prefix, a     *)
(* property set twice, an unknown one, a refused value, and attempts at    *)
(* the properties the driver sets itself; the second user's brokers are    *)
(* refused.                                                                *)
(***************************************************************************)
EXTENDS ProducerConfig

CONSTANTS u1, u2

MCUsers   == {u1, u2}
MCPREFIX  == <<"kafka", "notification", "settings">>
MCServers == <<"bootstrap", "servers">>
MCDebug   == <<"debug">>
MCProperties == {MCServers, MCDebug, <<"acks">>, <<"linger", "ms">>, <<"retries">>}

Setting(property, v) == [name |-> MCPREFIX \o <<".">> \o property, value |-> v]
Plain(n, v)          == [name |-> n, value |-> v]

MCPluginEnvs == (u1 :> <<
        Plain(<<"kafka", "notification", "kafka_brokers">>, "b1"),
        Plain(MCPREFIX, "bare"),
        Setting(<<"acks">>, "one"),
        Setting(<<"unknown">>, "v"),
        Setting(MCServers, "elsewhere"),
        Setting(<<"acks">>, "bad"),
        Plain(MCPREFIX \o <<"_">> \o <<"linger", "ms">>, "five"),
        Setting(<<"acks">>, "all"),
        Setting(MCDebug, "msg"),
        Setting(<<>>, "v")>>)
    @@ (u2 :> <<Setting(<<"retries">>, "two")>>)

MCBrokers == u1 :> "b1" @@ u2 :> "bad"
MCDebugs  == u1 :> "msg" @@ u2 :> DEFAULT
MCValues  == {"b1", "bad", "bare", "one", "v", "elsewhere", "five", "all", "msg", "two", DEFAULT}
MCRefused == {<<p, "bad">> : p \in MCProperties}
=============================================================================
