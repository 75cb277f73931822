--------------------------- MODULE MCMessageInbox ---------------------------
\* Model values for MessageInbox: tabs are interchangeable.
EXTENDS MessageInbox, TLC

TabSymmetry == Permutations(Tabs)
=============================================================================
