CONSTANTS
    Tasks <- SomeTasks
    KeySets <- SomeKeys
    Statuses <- SomeStatuses
    Canvases <- SomeCanvases
    MaxPolls = 2
SPECIFICATION Spec
INVARIANTS TypeOK AttemptsBounded HopelessEnds RoutedToAble RatioNearest
PROPERTIES EveryCallEnds
CHECK_DEADLOCK FALSE
