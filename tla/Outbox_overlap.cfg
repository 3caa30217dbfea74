\* Two senders side by side, no fault: how far the limit and an opt-out are overshot.
SPECIFICATION Spec
CONSTANTS
  MaxMessages = 3
  ana = ana
  bruno = bruno
  Contact <- OnlyAna
  To <- AllToAna
  Leavers <- OnlyAna
  Sender = {s1, s2}
  Desk = {s2}
  Reviewer = {r1}
  Limit = 1
  Batch = 2
  MaxRequeues = 0
  MaxFaults = 0
SYMMETRY Symmetry
INVARIANTS DeliveredWasApproved OptOutStopsTheRest LimitOvershootIsBounded
