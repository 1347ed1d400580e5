------------------------ MODULE MC_DualSenseTrigger ------------------------
EXTENDS DualSenseTrigger, TLC
=============================================================================
