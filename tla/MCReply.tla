-------------------------------- MODULE MCReply --------------------------------
\* Instances of Reply for TLC.
EXTENDS Reply, TLC

AllAsks == [api : {"anthropic", "openai"}, opened : BOOLEAN, asked : BOOLEAN]
Opened == {a \in AllAsks : a.opened}
=============================================================================
