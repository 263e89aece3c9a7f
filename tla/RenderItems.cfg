SPECIFICATION SpoolSpec
CONSTANTS
  Ride = {r1}
  Client = {c1}
  Clips = 1
  MaxStops = 0
INVARIANT ItemsAreComplete
