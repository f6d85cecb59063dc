-------------------------- MODULE MCAlertPipeline --------------------------
(* AlertPipeline for TLC: a siren that echoes its settings, a door and a   *)
(* remote with a low battery, and a device nobody has registered.          *)
EXTENDS AlertPipeline

MCRegistry == [siren |-> "sgbj", door |-> "mcs", remote |-> "sos"]

MCReports ==
    {[device |-> "siren", status |-> <<[code |-> "alarm_volume", value |-> "other"],
                                       [code |-> "alarm_time", value |-> "healthy"],
                                       [code |-> "alarm_switch", value |-> "true"]>>],
     [device |-> "door", status |-> <<[code |-> "doorcontact_state", value |-> "true"],
                                      [code |-> "battery_percentage", value |-> "low"]>>],
     [device |-> "remote", status |-> <<[code |-> "battery_percentage", value |-> "low"],
                                        [code |-> "disarmed", value |-> "other"]>>],
     [device |-> "guest", status |-> <<[code |-> "switch_1", value |-> "true"],
                                       [code |-> "battery_percentage", value |-> "healthy"]>>]}
=============================================================================
