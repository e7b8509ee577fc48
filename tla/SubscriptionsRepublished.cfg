CONSTANTS
  t1 = t1 t2 = t2 t3 = t3 v = v w = w
  d1 = d1 d2 = d2 d3 = d3
  Ids = {v, w}
  Tracks = {t1, t2, t3}
  Downs = {d1, d2, d3}
  NoTrack = NoTrack NoDown = NoDown NoSub = NoSub
  s1 = s1 s2 = s2 s3 = s3 s4 = s4
  Subs = {s1, s2, s3, s4}
  IdOf <- const_IdOf
  Limit = 1 MaxEvents = 4
  Codecs = {"av1", "vp8"} Regressing = "av1" Target = "vp8"
  Subscribers = {"subscriber"} OtherNodes = {"node"}
  Best = 1 MaxCalls = 2 MaxAtOnce = 2
  sender = sender p1 = p1 p2 = p2
  Senders = {sender} Receivers = {p1, p2}
  Came <- const_Came Dest <- const_Dest Named <- const_Named
  MaxSeq = 4 MaxResends = 1
SPECIFICATION MCSpec
PROPERTIES StillAvailable
CHECK_DEADLOCK FALSE
