SPECIFICATION Spec
CONSTANTS
  FeatReplies <- MCFeatReplies
  Asked <- MCAsked
INVARIANTS
  TypeOK
  CredentialsProtected
  OpenedIsNegotiated
  DataChannelResumes
  DigestAsAsked
CHECK_DEADLOCK FALSE
