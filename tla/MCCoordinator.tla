----------------------------- MODULE MCCoordinator -----------------------------
EXTENDS Coordinator
Policy(priority, from, until, isDefault, manual, days, at) ==
  [enabled |-> TRUE, priority |-> priority, from |-> from, until |-> until,
   isDefault |-> isDefault, manual |-> manual, schedule |-> [on |-> TRUE, at |-> at, days |-> days]]
\* The windows of the two collections follow each other; then the first is
\* disabled and the second opens later, is the default and moves its schedule.
Both == <<Policy(0, 0, 2, TRUE, FALSE, {0, 1}, 1), Policy(5, 2, 4, FALSE, TRUE, {0}, 1)>>
Moved == <<[Policy(0, 0, 9, FALSE, FALSE, {1}, 0) EXCEPT !.enabled = FALSE],
           Policy(5, 3, 4, TRUE, TRUE, {1}, 0)>>
MCConfigs == {<<>>, Both, Moved}
MCOverrides == {Automatic, [kind |-> "default", id |-> None], Explicit(2)}
=============================================================================
