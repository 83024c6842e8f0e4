SPECIFICATION FairSpec
CONSTANTS
  Fds <- FourFds
  MaxEntries = 3
INVARIANT DescriptorsAccounted
INVARIANT EveryAddressTried
INVARIANT BindsAsAsked
PROPERTY CallsReturn
