---------------------------- MODULE MC_Dictionary ----------------------------
EXTENDS Dictionary, TLC
CONSTANTS ka, kb, kab
\* "a", "b" and "ab": hashes 97, 98 and 3105, so "a" and "ab" share a bucket
\* at sizes 2 and 4.
MCKeys == {ka, kb, kab}
MCText == (ka :> <<97>>) @@ (kb :> <<98>>) @@ (kab :> <<97, 98>>)
=============================================================================
