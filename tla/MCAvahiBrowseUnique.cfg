SPECIFICATION BrowseSpec
CONSTANTS
  Video = {v1, v2}
  Name = {n1}
  Link = {l1}
  BusLink = {l1}
  None = None
  MaxSenders = 2
  MaxBus = 2
INVARIANT OneVideoPerName
