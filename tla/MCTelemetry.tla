---------------------------- MODULE MCTelemetry ----------------------------
(* Small vehicles for TLC: each logs what one group of rules reads. *)
EXTENDS Timeline

Vehicle(rows, steps, length) == [rows |-> rows, steps |-> steps, length |-> length]

Fix(fix, sats, hdop, pos) == [fix |-> fix, sats |-> sats, hdop |-> hdop, pos |-> pos, speed |-> 1]
In(mode, reason)  == [mode |-> mode, reason |-> reason]
Err(subsys, code) == [subsys |-> subsys, ecode |-> code]
Tilt(degrees)     == [tilt |-> degrees]
Volts(v)          == [volt |-> v, pct |-> 100]
Outputs(a, b)     == [out |-> <<a, b, b, b>>]
Estimate(vel, lane) ==
    [vel |-> vel, pos |-> 0, hgt |-> 0, offset |-> 0, lane |-> lane]

VehiclesDef ==
    {\* GPS that loses satellites, its fix, and jumps.
     Vehicle([GPS |-> {Fix(3, 12, 10, 0), Fix(3, 8, 30, 0), Fix(1, 6, 60, 0), Fix(3, 12, 10, 50)}],
             {20, 100}, 4),
     \* Mode changes, failsafes that begin and end, a crash.
     Vehicle([MODE |-> {In("AUTO", 1), In("RTL", 4)},
              ERR |-> {Err(5, 1), Err(16, 1), Err(7, 0)},
              ATT |-> {Tilt(80)}], {0, 20}, 4),
     \* The same for the slow channels.
     Vehicle([MODE |-> {In("LOITER", 2), In("LAND", 6)},
              GPS |-> {Fix(3, 12, 10, 0), Fix(1, 6, 10, 0)},
              PARM |-> {[value |-> 1]}, ATT |-> {Tilt(80)}], {0, 51}, 4),
     \* A telemetry log, whose MODE rows carry no name.
     Vehicle([MODE |-> {In("unnamed", 0)}, GPS |-> {Fix(1, 6, 10, 0)}, ATT |-> {Tilt(80)}],
             {0, 20}, 4),
     \* A battery under load, sampled evenly and unevenly.
     Vehicle([BAT |-> {Volts(168), Volts(150), Volts(100)}], {10}, 7),
     Vehicle([BAT |-> {Volts(168), Volts(150), Volts(100)}], {10, 20}, 4),
     \* Motors that stop and recover.
     Vehicle([RCOU |-> {Outputs(1000, 1500), Outputs(1500, 1500)}], {0, 25, 30}, 5),
     \* An EKF that diverges and changes lanes; its vehicle logs errors as well.
     Vehicle([NKF4 |-> {Estimate(0, 0), Estimate(7, 1), Estimate(12, 0)},
              ERR |-> {Err(24, 1)}], {20, 30}, 4),
     \* Vibration that clips, a heading that drifts; a motor that loses speed.
     Vehicle([VIBE |-> {[rms |-> 35, clips |-> 9], [rms |-> 1, clips |-> 0]},
              IMU |-> {[excess |-> 30]}, NKF3 |-> {[heading |-> -4, innov |-> 3]}], {1, 30}, 4),
     Vehicle([ESC |-> {[rpm |-> 5000], [rpm |-> 3000]}], {2}, 6)}
=============================================================================
