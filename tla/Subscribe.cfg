SPECIFICATION Spec
CONSTANTS
  s1 = s1
  c1 = c1
  t1 = t1
  t2 = t2
  Subs <- MCSubs
  Clients <- MCClients
  ClientOf <- MCClientOf
  Topics <- MCTopics
  TopicFilter <- MCTopicFilter
  Publishers <- MCPublishers
  FromOffsets = {0, 1}
  PublisherTTL = 1
  MaxItems = 3
  MaxRuns = 3
INVARIANT
  YieldsLog
  EndsOnlyWithStream
PROPERTY
  ReadsOn
  EndsWithLastRun
CHECK_DEADLOCK FALSE
