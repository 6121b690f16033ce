----------------------------- MODULE MCRawSend -----------------------------
EXTENDS RawSend

\* Two links peers opened
MCAllSlaves == [h \in Handles |-> {"slave"}]

\* A handle whose links peers or we open, and one whose links peers open
MCEitherRole == [h \in Handles |-> IF h = 3 THEN {"slave", "master"} ELSE {"slave"}]
============================================================================
