SPECIFICATION ScreenSpec
INVARIANTS StopVoiceStops
