SPECIFICATION Spec
CONSTANTS
  Offered = {4, 15, 16}
  Tabs = {"protocol", "validator"}
  Searches = {{15}}
  PAGE_SIZE = 1
  Inputs <- Typed
  CardInputs <- Cards
  PieInputs <- Pies
  SliceInputs <- Slices
  MaxCards = 2
  MaxPies = 1
  MaxSlices = 2
CONSTRAINT IsSmall
INVARIANTS ReportSurvives NothingLeaks CoreTakesRequests
