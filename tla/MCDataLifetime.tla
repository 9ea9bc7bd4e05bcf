--------------------------- MODULE MCDataLifetime ---------------------------
(* Two views with their cadences and scaled windows.                       *)
EXTENDS DataLifetime

MCWindow == [free |-> 1, pro |-> 2]
MCViews == <<"telemetry_5m", "telemetry_1h">>
MCCadence == [telemetry_5m |-> 1, telemetry_1h |-> 2]
=============================================================================
