\* One sender with a fault, one reviewer, bounces, a requeue; nobody leaves.
SPECIFICATION FairSpec
CONSTANTS
  MaxMessages = 2
  ana = ana
  bruno = bruno
  Contact <- People
  To <- FirstToAna
  Leavers <- Nobody
  Sender = {s1}
  Desk = {}
  Reviewer = {r1}
  Limit = 1
  Batch = 2
  MaxRequeues = 1
  MaxFaults = 1
INVARIANTS   ExcessNeedsBounceOrFault
PROPERTIES SentIsNotForgotten 
