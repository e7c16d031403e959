SPECIFICATION Spec
CONSTANTS
  Urls <- SomeUrls
  Listings <- ShortListings
  Empty = ""
  Udp = {"udp1", "udp2"}
  Http = {"http"}
  MaxPeers = 2
INVARIANT FirstWithPeers
INVARIANT WarningsToldUnlessDeserted
INVARIANT ErrorsAreTrue
PROPERTY UdpNeverHangs
CHECK_DEADLOCK FALSE
