\* A merchant b, a buyer a who trades with him, a buyer c with little strength.
SPECIFICATION MarketSpec
CONSTANTS
  a = a
  b = b
  c = c
  Player <- MCPlayer
  Free <- MCFree
  Merchant <- MCMerchant
  Trader <- MCTrader
  Buyer <- MCBuyer
  Item = {i, j}
  MaxInventory = 2
  OpenSlots = 2
  MaxWeight <- MCMaxWeight
  MaxZeny = 1
  Rich <- MCRich
  Window = 0
  MaxEvents = 0
  CartSize = 2
  MaxShops = 2
  Nobody = Nobody
  NoShop = NoShop
SYMMETRY Symmetry
INVARIANTS
  VendorNotTrading
  InStock
PROPERTIES
  
  PaysWhatHeSaw
