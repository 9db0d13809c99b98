------------------------------- MODULE MCAiChat -------------------------------
EXTENDS AiChat
CONSTANTS c1, c2
===============================================================================
