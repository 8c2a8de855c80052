--------------------------- MODULE MCAvailability ---------------------------
(* Two states, and downtimes: one that began before the endpoint's window, *)
(* one that ended early, one that never ran, and one of another object.    *)
EXTENDS Availability
UpAndDown == {0, 1}
Row(own, started, begin, scheduled, actual) ==
    [own |-> own, started |-> started, cancelled |-> FALSE, begin |-> begin, scheduled |-> scheduled, actual |-> actual]
NoDowntimes == {}
SomeDowntimes ==
    {Row(TRUE, TRUE, 1, 3, Epoch), Row(TRUE, TRUE, 2, 5, 3), Row(TRUE, FALSE, 3, 4, Epoch),
     Row(FALSE, TRUE, 2, 4, Epoch)}
=============================================================================
