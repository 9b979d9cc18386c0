------------------------------ MODULE MCVoice ------------------------------
(* The instance of the voice backends for TLC: two routes, frames of two
   units, rings of one frame, an event queue of one, two starts. *)
EXTENDS VoiceBackends

MCRoutes == {Speaker, 3}
OneRoute == {Speaker}
AllBackends == {"linux", "windows", "apple", "android", "mock"}
AllFocuses == {"capture", "playback", "routes", "formats"}
=============================================================================
