------------------------------ MODULE MCBravo ------------------------------
EXTENDS Bravo

\* Three threads on two slots: two of them share slot 0.
MCIndex == [t \in Threads |-> t % SLOT_SIZE]
=============================================================================
