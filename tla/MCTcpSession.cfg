CONSTANTS
  Unprintable = Unprintable
  DataArgs <- MCDataArgs
  Changes <- MCChanges
  IfNames <- MCIfNames
  IfArgs <- MCIfArgs
  RouteArgs <- MCRouteArgs
  MaxDev = 4
  MaxPos = 4
  MaxRoutes = 5
  Width = 8
  HookArgs <- MCHookArgs
  ModHooks <- MCModHooks
  RcvPaths <- MCRcvPaths
  LocalPaths <- MCLocalPaths
  QueueArgs <- MCQueueArgs
  NoId = NoId
  NoIf = NoIf
  MaxHooks = 2
  MaxQueueId = 3
SPECIFICATION MCSpec
INVARIANT TypeOK
INVARIANT RouteDestAgrees
INVARIANT IfshowReadsInitialized
INVARIANT PacketQueuedOnce
INVARIANT QueueIdsIncreasing
PROPERTY StreamRefined
