SPECIFICATION MCSpec
CONSTANTS
  Admin = {a1, a2}
  Reader = {a1, a2}
  Offers <- MCOffers
  MaxPackage = 2
  MaxGroup = 2
  MaxRevision = 3
SYMMETRY Symmetry
INVARIANTS PackagesSound CacheFresh
PROPERTIES PublishedStands
CHECK_DEADLOCK FALSE
