------------------------------- MODULE MCSdLog --------------------------------
EXTENDS SdLog
==============================================================================
