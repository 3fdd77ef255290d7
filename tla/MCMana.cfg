SPECIFICATION ManaSpec
CONSTANTS
  swap = swap  grave = grave  kick = kick  tale = tale
  plains = plains  island = island  swamp = swamp  elf = elf
  Cards <- MCCards
  LandCards <- MCLandCards
  Fielded <- MCFielded
  produces <- MCProduces
  ability <- MCAbility
  dye <- MCDye
  face <- MCFace
  MaxX = 1
INVARIANTS ManaTypeOK NothingVanishes OfferedIsPayable
PROPERTIES PaidInFull
