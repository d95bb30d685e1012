\* Windows of three breadcrumbs, four results published, at most two references followed, of the five in
\* the code.  The appraisal ends, so the system may stop.
CONSTANTS
  Evidences <- MCEvidences
  Whole <- MCWhole
  Centroid <- MCCentroid
  EU <- MCEU
  N = 3
  STEP = 2
  Imports <- MCImports
  MaxDepth = 1
  MaxPublished = 4
SPECIFICATION FairSpec
INVARIANTS TypeOK StrictVerdictExact AcceptedIsObserved UuidNamesOneClaim
PROPERTIES WalkEnds
CHECK_DEADLOCK FALSE
