----------------------------- MODULE MCCFRunLoop -----------------------------
(* Values of the constants of CFRunLoop that are functions *)
EXTENDS CFRunLoop

OrderValue == [s \in Sources |-> 0]
RunArgsValue == {<<"default", FALSE, "forever">>, <<"tracking", TRUE, "some">>}
AddsValue == {<<x, "tracking">> : x \in Sources \cup Ports} \cup {<<t, "default">> : t \in Timers}
\* The timers may come back after they were taken out of the default mode, and
\* one of them be in both modes
AddsTimers == {<<t, "default">> : t \in Timers} \cup {<<"t", "tracking">>}
=============================================================================
