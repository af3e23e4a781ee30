---------------------------- MODULE MCReadPath -----------------------------
EXTENDS ReadPath

MCSizes == <<2, 1>>
=============================================================================
