------------------------------ MODULE MCStrCli ------------------------------
EXTENDS StrCli
\* Up to six bytes, which is what both directions of the connection hold.
MCInputs == UNION {[1 .. n -> {"x", "nl"}] : n \in 0 .. 4}
            \cup {in \in [1 .. 5 -> {"x", "nl"}] \cup [1 .. 6 -> {"x", "nl"}] : in[Len(in)] = "nl"}
=============================================================================
