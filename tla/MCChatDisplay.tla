--------------------------- MODULE MCChatDisplay ---------------------------
\* The instance of ChatDisplay that TLC checks: all its values are in the cfg.
EXTENDS ChatDisplay
=============================================================================
