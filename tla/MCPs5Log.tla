------------------------------ MODULE MCPs5Log ------------------------------
EXTENDS Ps5Log

MCCaptureSets == {{"out", "err"}}

MCLimits ==
    {[mode |-> "off", conns |-> 1, seq |-> 1, prints |-> 0, faults |-> 0],
     [mode |-> "tcp", conns |-> 2, seq |-> 2, prints |-> 0, faults |-> 1],
     [mode |-> "tcp", conns |-> 1, seq |-> 2, prints |-> 2, faults |-> 1],
     [mode |-> "udp", conns |-> 1, seq |-> 3, prints |-> 0, faults |-> 1]}
=============================================================================
