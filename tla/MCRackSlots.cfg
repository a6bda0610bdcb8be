SPECIFICATION Spec
CONSTANTS
  Rack = {1, 2, 3, 4}
  CardHeight <- Heights
  PerRow = 2
PROPERTIES
  SwapsExchange
