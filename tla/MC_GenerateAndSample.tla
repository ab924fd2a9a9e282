----------------------- MODULE MC_GenerateAndSample -----------------------
EXTENDS GenerateAndSample

CONSTANTS s1, s2, s3

MCStates == {s1, s2, s3}

=============================================================================
