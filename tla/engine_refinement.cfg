\* Three configurations, see EngineSessions.
SPECIFICATION FairSpec
PROPERTIES
  ImplementsSession
