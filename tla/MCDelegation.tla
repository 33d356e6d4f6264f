------------------------------ MODULE MCDelegation -----------------------------
EXTENDS Delegation
Cyclic == [a \in Agents |-> Agents \ {a, Root}]
=============================================================================
