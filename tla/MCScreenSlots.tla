----------------------------- MODULE MCScreenSlots -----------------------------
EXTENDS ScreenSlots
CONSTANTS ttc, weather, clock
ThreeTurns == <<ttc, weather, clock>>
=============================================================================
