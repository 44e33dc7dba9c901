----------------------------- MODULE MCBoltStore -----------------------------
(***************************************************************************)
(* Model-checking instance of BoltStore: two client goroutines, two        *)
(* Shutdown callers, one or two sessions, two topics and a few messages.   *)
(***************************************************************************)
EXTENDS BoltStore

CONSTANTS c1, c2, h1, h2, s1, s2, t1, t2

MCClients  == {c1, c2}
MCShutters == {h1, h2}
MCSessions == {s1}
MCTopics   == {t1, t2}

\* A QoS 1 PUBLISH with a payload and a QoS 0 PUBLISH without one.
pub1 == [type |-> "PUBLISH", id |-> 1, qos |-> 1, topic |-> t1, payload |-> "data"]
pub0 == [type |-> "PUBLISH", id |-> 0, qos |-> 0, topic |-> t2, payload |-> ""]
\* The PUBREL of packet 7.
rel7 == [type |-> "PUBREL", id |-> 7, qos |-> 0, topic |-> NoArg, payload |-> ""]

MCMsgs    == {pub1, pub0}
MCBatches == {<<pub1>>, <<pub0, pub1>>}
\* t1 subscribed at QoS 1; t1 at QoS 2 together with t2 at QoS 0.
MCSubArgs == {[t \in {t1} |-> 1], [t \in {t1, t2} |-> IF t = t1 THEN 2 ELSE 0]}

MCMsgsRel    == {pub1, rel7}
MCBatchesRel == {<<rel7>>}
=============================================================================
