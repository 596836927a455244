------------------------------ MODULE MCDispatch ------------------------------
EXTENDS Dispatch
Policy(days, at, strategy) ==
  [enabled |-> TRUE, priority |-> 0, from |-> 0, until |-> 99, isDefault |-> FALSE,
   manual |-> TRUE, schedule |-> [on |-> TRUE, at |-> at, days |-> days, strategy |-> strategy]]
\* The first collection is due in the first minute; while the key of its
\* occurrence may have been used its strategy is changed, and the second becomes
\* due as well, in both minutes.
Before == <<Policy({1}, 0, "scan_and_compile")>>
Edited == <<Policy({1}, 0, "scan_only"), Policy({0, 1}, 0, "compile_stale_only")>>
MCConfigs == {Before, Edited}
=============================================================================
