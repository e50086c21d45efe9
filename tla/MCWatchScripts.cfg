\* Both scripts, thresholds 1 and 2, a target that changes four times and two
\* outages of LocalOps.
SPECIFICATION Spec
CONSTANTS
    Scripts = {"ping", "tunnel"}
    UpThresholds = {1, 2}
    DownThresholds = {1, 2}
    MaxChanges = 4
    MaxOutages = 1
INVARIANTS TypeOK MessagesAlternate OutagesAreTimed RowFollowsScript
PROPERTIES LastingChangeIsNoticed TunnelStatusHeals
CHECK_DEADLOCK FALSE
