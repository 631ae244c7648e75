----------------------- MODULE MCNotificationOutbox -----------------------
(* Values for the run of NotificationOutbox. *)
EXTENDS NotificationOutbox

CONSTANTS d1, d2, i1, i2

MCDispatchers == {d1, d2}
MCIntents == {i1, i2}
MCDelays == {1}
MCLates == {0, 1}
=============================================================================
