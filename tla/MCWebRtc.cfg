SPECIFICATION MCSpec
CONSTANTS
  o1 = o1  o2 = o2  c1 = c1  c2 = c2
  Offers <- MCOffers
  MaxPeerConnections = 1
  Channels <- MCChannels
  Max = 1
  UsizeMax = 2
  Followed = o1
  ProxyOffers <- MCProxyOffers
  Upstreams <- MCUpstreams
  MaxOffer = 2
  MaxAnswer = 2
  HeadLimit = 3
  ReadChunk = 2
  ConnectTimeout = 1
  RequestTimeout = 2
INVARIANTS RegistrySound ChannelLimitExact ProxyFaithful
PROPERTIES PluginSettles ProxyAnswers
CHECK_DEADLOCK FALSE
