------------------------------ MODULE MCHostsFile ------------------------------
EXTENDS HostsFile
const_Decisions == {{[addr |-> 1, host |-> "h1"], [addr |-> 2, host |-> "h2"]},
                    {[addr |-> 3, host |-> "h1"]}}
const_Statics == {<<[kind |-> "entry", addr |-> 0, host |-> "s1", at |-> 0]>>,
                  <<[kind |-> "entry", addr |-> 0, host |-> "s2", at |-> 0]>>}
=============================================================================
