----------------------------- MODULE MCEventLoop -----------------------------
EXTENDS EventLoop

CONSTANTS hooked, plain

TwoHandlers == {hooked, plain}
HookedHandlers == {hooked}
PastAndFuture == {-1, 0, 1}
Caps == {-1, 1}
Horizon == {1}
=============================================================================
