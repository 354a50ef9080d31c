--------------------------- MODULE MC_DemoPipeline ---------------------------
EXTENDS DemoPipeline

\* 'a', 'A' and '1': a letter both cases of which differ in parity, and a
\* byte toupper leaves alone.
MCChars == {97, 65, 49}
=============================================================================
