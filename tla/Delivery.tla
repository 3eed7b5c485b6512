------------------------------ MODULE Delivery ------------------------------
(***************************************************************************)
(* What the driver promises about a notification, without polls, retries   *)
(* or handles.  Messages are handed over one after the other; the one      *)
(* handed over is queued or given up before the next one comes; a queued   *)
(* message is settled once, by its report or by the shutdown that takes    *)
(* everything queued with it.  KafkaSend implements this.                  *)
(***************************************************************************)
EXTENDS Naturals

CONSTANT NumMsgs  \* bound: messages in a behaviour

Msgs  == 1..NumMsgs
Fates == {"unsent", "handed", "queued", "given up", "reported", "lost"}

VARIABLE fate     \* what has become of each message

With(f) == {m \in Msgs : fate[m] = f}

Init == fate = [m \in Msgs |-> "unsent"]

\* The fates after the messages of S have come to f.
Become(S, f) == [m \in Msgs |-> IF m \in S THEN f ELSE fate[m]]

\* m is the next message, and no other is being worked on.
IsNext(m) == With("handed") = {} /\ \A n \in Msgs : fate[n] = "unsent" <=> n >= m

HandOver == \E m \in Msgs : IsNext(m) /\ fate' = Become({m}, "handed")

\* Kafka is not initialised: the message is not even tried.
Refuse == \E m \in Msgs : IsNext(m) /\ fate' = Become({m}, "given up")

Queue == With("handed") # {} /\ fate' = Become(With("handed"), "queued")

\* Reports are served while the message is given up, too.
GiveUp ==
    /\ With("handed") # {}
    /\ \E S \in SUBSET With("queued") :
          fate' = [m \in Msgs |-> IF m \in S THEN "reported"
                                  ELSE Become(With("handed"), "given up")[m]]

Report == \E S \in SUBSET With("queued") : fate' = Become(S, "reported")

\* Nothing is in the hands of the driver when a producer is destroyed.
Lose == With("handed") = {} /\ fate' = Become(With("queued"), "lost")

Next == HandOver \/ Refuse \/ Queue \/ GiveUp \/ Report \/ Lose

Spec == Init /\ [][Next]_fate
=============================================================================
