------------------------------ MODULE MCRelay ------------------------------
EXTENDS Relay
MCMaxUnits == [up |-> 3, down |-> 2]
=============================================================================
