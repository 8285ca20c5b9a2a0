SPECIFICATION MCSpec
CONSTANTS
  Instances = {"a", "b", "c"}
  EndPoints = {"p", "q"}
  EndPointOf <- MCEndPointOf
  Timeout = 1
  MaxTopic = 2
  UserTokens = {}
  SubscriberTokens = {"s"}
  ApiKeys = {"k"}
  Threads = {1, 2}
INVARIANT RemovedStaysOut
PROPERTIES ZombiesRemoved LiveServiceListed RevokedForgotten
