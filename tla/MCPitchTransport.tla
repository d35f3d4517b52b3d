-------------------------- MODULE MCPitchTransport --------------------------
EXTENDS PitchTransport

Deflections == {0, 1}
Drags == {1}
Level == {1}
=============================================================================
