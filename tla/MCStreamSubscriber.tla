-------------------------- MODULE MCStreamSubscriber --------------------------
EXTENDS StreamSubscriber

CONSTANTS s1, c1, t1, t2
MCSubs == {s1}
MCClients == {c1}
MCClientOf == [s \in MCSubs |-> c1]
MCTopics == {t1, t2}
MCTopicFilter == [s \in MCSubs |-> {t1}]
MCPublishers == {}
=============================================================================
