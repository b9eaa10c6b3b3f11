------------------------------ MODULE MCAssistant ------------------------------
\* A small instance of Assistant.
EXTENDS Assistant, TLC
=============================================================================
