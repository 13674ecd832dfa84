------------------------------ MODULE MCGrabTasks -----------------------------
EXTENDS GrabTasks

PlainGrabbers == <<"models">>
SecureGrabbers == <<"cfgpull">>
==============================================================================
