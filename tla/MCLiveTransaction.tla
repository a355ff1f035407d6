------------------------- MODULE MCLiveTransaction -------------------------
EXTENDS LiveTransaction, LiveCommands

AllCommands == DOMAIN CommandTable

\* An apply after a failed one, a change by others, a failure and one in its undo, a kill.
FewUses == [call |-> 2, edit |-> 1, fault |-> 2, kill |-> 1]
=============================================================================
