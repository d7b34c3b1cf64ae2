CONSTANTS
  p1 = p1
  p2 = p2
  lan = lan
  Points = {p1, p2}
  Host <- MCHost
  Targets = {"ssdp:all", "upnp:rootdevice", "WANIPConnection:2", "WANPPPConnection:2", "other"}
  Window = 2
  Mxs = {0, 3}
  MaxSearches = 4
SPECIFICATION Spec
INVARIANTS TypeOK V2OnlyWhenAsked DocumentsHold
PROPERTIES AllAnswered
CHECK_DEADLOCK FALSE
