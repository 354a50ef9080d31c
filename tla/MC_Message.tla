------------------------------ MODULE MC_Message ------------------------------
EXTENDS Message, TLC
CONSTANTS f1, f2
\* Two header encodings: one byte and two bytes long.
MCFields == {f1, f2}
MCHSize == (f1 :> 1) @@ (f2 :> 2)
\* A session without "MessageSize": PseudoSessionConfig gets kMaxMessageSize.
MCDefaultSizes == {3}
=============================================================================
