---------------------------- MODULE MC_Signature ----------------------------
EXTENDS Signature

CONSTANTS k1, p1, b1, b2, none, stranger

MC_Keys == {k1}
MC_Pubs == {p1}
MC_Bodies == {b1, b2}
\* Too short (panics), and the right length.
MC_SigLens == {0, 65}
\* Recovery ids as crypto.Sign makes them, as a wallet makes them, and junk.
MC_Vs == {1, 27, 28, 200}
=============================================================================
