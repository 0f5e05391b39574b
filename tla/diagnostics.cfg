SPECIFICATION Spec
CONSTANTS
  Tables <- TwoTables
  Typos <- OneTypo
  Sep <- Semicolon
  Tabs = {1, 2}
  Contexts = {1, 2}
  Deferred = {2}
  Texts <- SomeTexts
  FirstTexts <- OneText
  FirstCatalog <- JustOrders
  CacheLimit = 2
  MaxSteps = 2
PROPERTIES
  MarksStayOnTheirWords
  MarksCatchUp
