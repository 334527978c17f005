CONSTANTS
    MaxFrames = 3
SPECIFICATION Spec
INVARIANT DispatchInArrivalOrder
PROPERTY ArrivalsDispatched
