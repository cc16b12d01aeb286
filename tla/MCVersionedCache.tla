-------------------------- MODULE MCVersionedCache --------------------------
EXTENDS VersionedCache

MCValue == 0 .. MaxVersion
MCFamily == {Key} \* one prefix; the keys of another family are untouched
=============================================================================
