------------------------- MODULE MCRecoveryBatches -------------------------
EXTENDS RecoveryBatches

FiveRows == 1 .. 5
============================================================================
