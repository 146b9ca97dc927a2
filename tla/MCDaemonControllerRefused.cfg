\* DaemonController with two requesters, without UdpMessaging: setMode refuses the
\* forwarding and the service mode.
CONSTANTS
    Requesters = {r1, r2}
    NoOne = NoOne
    Worker = Worker
    Exclusive = FALSE
    Interface = TRUE
SPECIFICATION Spec
PROPERTIES
    CommandSwitches
