SPECIFICATION Spec
CONSTANTS
  None = None
  u1 = u1
  u2 = u2
  top1 = top1
  dress1 = dress1
  shoes1 = shoes1
  look1 = look1
  look2 = look2
  call1 = call1
  call2 = call2
  Users <- MCUsers
  Garments <- MCGarments
  Looks <- MCLooks
  Lanes <- MCLanes
  Owner <- MCOwner
  SlotOf <- MCSlotOf
  Alike <- MCAlike
  Plans <- MCPlans
INVARIANTS TypeOK SeenIsTrue DeletedLeavesNoTrace BasketIsInTheHamper
PROPERTY SavedLooksAreWearable
CHECK_DEADLOCK FALSE
