-------------------------- MODULE MCFirmwareUpdate --------------------------
EXTENDS FirmwareUpdate
=============================================================================
