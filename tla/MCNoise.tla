------------------------------ MODULE MCNoise ------------------------------
EXTENDS Noise

\* The node at the dialed address, or another one that was expected there.
MCDialable == {static("responder"), <<"static", "elsewhere">>}
MCLimit == [e \in End |-> IF e = "initiator" THEN 4 ELSE 2]
=============================================================================
