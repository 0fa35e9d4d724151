-------------------------- MODULE MCStreamPublisher --------------------------
EXTENDS StreamPublisher, TLC

CONSTANTS p1, a1
MCPublishers == {p1}
MCApps == {a1}
=============================================================================
