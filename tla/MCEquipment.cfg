SPECIFICATION Spec
CONSTANTS
  fair = fair
  talk = talk
  Events <- MCEvents
  Names = {projector}
  Slots <- MCSlots
  Asks <- MCAsks
  MaxStock = 2
INVARIANTS IInv RequestedIsPending ConfirmedKeepsItsEquipment SafetyCoversTheEquipment
PROPERTIES StockNeverOverdrawn
CHECK_DEADLOCK FALSE
