SPECIFICATION FairSpec
CONSTANTS
  Networks = {"home", "uc", "(word)"}
  UseCases = {"plt.get_diag"}
  Others = {"other"}
  Letters <- MCLetters
  CloudLetters <- MCCloudLetters
  QueueDepth = 2
  MaxFaults = 2
INVARIANTS Reachable ReadBackTrue RoutedAsMeant
PROPERTY Commissioned
CHECK_DEADLOCK FALSE
