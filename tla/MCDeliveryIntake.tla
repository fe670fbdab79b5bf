-------------------------- MODULE MCDeliveryIntake --------------------------
EXTENDS DeliveryIntake, TLC

CONSTANTS placed, placedAgain, cancel, o1

\* One order, notified under two event ids and cancelled.
MCOrder == placed :> o1 @@ placedAgain :> o1 @@ cancel :> o1
=============================================================================
