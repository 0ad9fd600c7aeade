------------------------------ MODULE MCBroker ------------------------------
(* Instances of Broker.  The root may have one child, or two for a child    *)
(* that is orphaned; the last one ignores SIGTERM.                          *)
EXTENDS Broker

CONSTANTS root, child, grandchild

JustRoot    == {root}
OneChild    == {root, child}
TwoChildren == {root, child, grandchild}
=============================================================================
