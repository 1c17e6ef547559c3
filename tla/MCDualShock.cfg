\* Three faults: an interruption of the configuration, one of the attempt to repeat it,
\* and one more.
CONSTANT MaxFaults = 3
SPECIFICATION Spec
PROPERTIES PacketsComplete ShowsOnePacket BecomesAnalog
