----------------------------- MODULE MCAutoRoll -----------------------------
\* Two loans of two sizes, a roll tenor of two and a clock of five.
EXTENDS AutoRoll
=============================================================================
