--------------------------- MODULE MC_ProductionLoop ---------------------------
EXTENDS ProductionLoop

MCInputs == {"ack1", "ack2"}

\* the check answers ContinueAsIs or Split (StatsAreNotReady acts as the
\* former, Collapse as the latter); in the failing variant it may also
\* answer ThreadIsNotInTheTable, which panics the builder
MCLoadBalancing == {"ContinueAsIs", "Split"}
PanicLoadBalancing == MCLoadBalancing \cup {"ThreadIsNotInTheTable"}

=============================================================================
