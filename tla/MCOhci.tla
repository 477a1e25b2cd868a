------------------------------ MODULE MCOhci ------------------------------
EXTENDS Ohci
MCFlags == {[skip |-> k, iso |-> i, direction |-> TRUE] : k \in {FALSE}, i \in BOOLEAN}
              \cup {[skip |-> TRUE, iso |-> FALSE, direction |-> FALSE]}
\* A driver that knows the controller: it never resumes an operational bus.
MCTransitions == {<<s, t>> \in States \X States : s # t /\ <<s, t>> # <<"operational", "resume">>}
MCEnables == {{"periodic"}, {"control"}}
Heads(p, c) == [periodic |-> p, control |-> c, bulk |-> 0]
MCSetups == {[hccaReg |-> TRUE, head |-> Heads(1, 1), mask |-> {"WD"}],
             [hccaReg |-> FALSE, head |-> Heads(0, 0), mask |-> {}]}
MCDelays == {<<1, 3, 7>>}
MCMasks == {{"WD"}, Events}
=============================================================================
