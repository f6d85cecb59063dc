------------------------------ MODULE Normalizer ------------------------------
(***************************************************************************)
(* services/sensorNormalizer.js with config/dpProfiles.js: the events that *)
(* a device's status report becomes.  A report names its device and lists  *)
(* data points, each a code with a value; a code means what the profile of *)
(* that very device says.                                                  *)
(*                                                                         *)
(* Values stand for what the resolvers tell apart: "true" for true and     *)
(* 'true', "pir" and "alarm" for these words, "low" and "healthy" for a    *)
(* number below the battery threshold or not, "other" for the rest.        *)
(***************************************************************************)
EXTENDS Sequences, SequencesExt

CONSTANT
    Registry  \* deviceRegistry.json: the dpProfile of each known device

Values == {"true", "pir", "alarm", "low", "healthy", "other"}

DP_PROFILES == [
    mcs |-> [doorcontact_state |-> "doorState", battery_percentage |-> "batteryLow"],
    qt |-> [switch |-> "doorState", battery |-> "batteryLow"],
    tdq |-> [switch_1 |-> "relayState"],
    sgbj |-> [alarm_switch |-> "alarmState", alarm_volume |-> "ignore", alarm_time |-> "ignore"],
    pir |-> [pir |-> "motionDetected", battery_percentage |-> "batteryLow"],
    watersensor |-> [watersensor_state |-> "waterLeak"],
    sos |-> [arm |-> "remoteArmed", disarmed |-> "remoteDisarmed",
             battery_percentage |-> "batteryLow"],
    wsdcg |-> [va_temperature |-> "ignore", va_humidity |-> "ignore",
               temp_unit_convert |-> "ignore", battery_percentage |-> "batteryLow"]]

(* What each resolver makes of a value; null is no event.                  *)
Resolve(resolver, value) ==
    CASE resolver = "doorState" -> <<IF value = "true" THEN "DOOR_OPENED" ELSE "DOOR_CLOSED">>
      [] resolver = "relayState" -> <<IF value = "true" THEN "RELAY_ON" ELSE "RELAY_OFF">>
      [] resolver = "alarmState" -> <<IF value = "true" THEN "ALARM_ON" ELSE "ALARM_OFF">>
      [] resolver = "remoteArmed" -> <<"REMOTE_ARMED">>
      [] resolver = "remoteDisarmed" -> <<"REMOTE_DISARMED">>
      [] resolver = "motionDetected" /\ value \in {"pir", "true"} -> <<"MOTION_DETECTED">>
      [] resolver = "waterLeak" /\ value \in {"alarm", "true"} -> <<"WATER_LEAK">>
      [] resolver = "batteryLow" /\ value = "low" -> <<"BATTERY_LOW">>
      [] OTHER -> <<>>

IsDefined(device, code) ==
    /\ device \in DOMAIN Registry /\ Registry[device] \in DOMAIN DP_PROFILES
    /\ code \in DOMAIN DP_PROFILES[Registry[device]]

(* Data points the device's profile does not define are shown as they are. *)
EventsOf(device, dp) ==
    IF IsDefined(device, dp.code)
    THEN Resolve(DP_PROFILES[Registry[device]][dp.code], dp.value)
    ELSE <<"UNKNOWN_EVENT">>

TransformFirst(report) ==
    SubSeq(FlattenSeq([i \in DOMAIN report.status |->
                          EventsOf(report.device, report.status[i])]), 1, 1)

Transform(report) ==
    FlattenSeq([i \in DOMAIN report.status |-> EventsOf(report.device, report.status[i])])

=============================================================================
