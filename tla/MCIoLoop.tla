------------------------------ MODULE MCIoLoop ------------------------------
(* Small instances of IoLoop for TLC. *)
EXTENDS IoLoop

CONSTANTS w1, w2

plain == [kind |-> "plain", delay |-> 0]
event == [kind |-> "event", delay |-> 0]
timer(d) == [kind |-> "timer", delay |-> d]

\* With IntBits = 4 a delay of 5 is cut to MaxTimeout and one of 17 wraps to 1.
ShortScripts ==
    {<<timer(5), event>>, <<timer(5), timer(1)>>,
     <<timer(17), plain>>, <<event, event>>}

\* With IntBits = 4 a delay of 9 is negative as an int.
FarScripts == {<<timer(9), plain>>}


=============================================================================
