------------------------------ MODULE MCAudio --------------------------------
EXTENDS Audio

MCTones == {[freq |-> 440, dur |-> 2]}
=============================================================================
