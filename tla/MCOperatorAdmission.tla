------------------------ MODULE MCOperatorAdmission ------------------------
EXTENDS OperatorAdmission
\* The untwisted algebra and two novel codes of one quadratic code.
MCDescribed == {{}, {<<0, 1>>}, {<<1, 0>>}}
=============================================================================
