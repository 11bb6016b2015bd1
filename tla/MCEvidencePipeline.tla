------------------------- MODULE MCEvidencePipeline -------------------------
EXTENDS EvidencePipeline

CONSTANTS f1, f2

TwoFamilies == <<f1, f2>>
=============================================================================
