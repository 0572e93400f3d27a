\* Ten vehicles, logs of four to seven rows.
CONSTANTS
    Vehicles <- VehiclesDef
SPECIFICATION Spec
INVARIANTS EveryRunReported SagWarnedToo DropsReported HorizonExact PhasesTile FindingsInTimeline
CHECK_DEADLOCK FALSE
