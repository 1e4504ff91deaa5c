--------------------------- MODULE DeviceCatalogue ---------------------------
(***************************************************************************)
(* The device models of models_impl.py and the lists of device_helper.py   *)
(* as data: which services an object of a class uses, and what happens     *)
(* when its device does not have one of them.                              *)
(***************************************************************************)
EXTENDS ServiceCatalogue

(***************************************************************************)
(* bare: services the accessors use without asking whether they are there, *)
(* which raises when device_service returned None.  guarded: services they *)
(* ask for first: a read then answers None or a default, a write is        *)
(* skipped without a word.  held: services looked up and used or handed    *)
(* out as objects only.  flags: services whose presence a property tells.  *)
(* writes: <<service, key>> the model writes itself, next to what its      *)
(* services write.  is: the classes an object is an instance of.           *)
(***************************************************************************)
None == [bare |-> {}, guarded |-> {}, held |-> {}, flags |-> {}, writes |-> {}, is |-> {}]

Class(name, parents, own) ==
    LET all == [f \in DOMAIN own |-> own[f] \cup UNION {p[f] : p \in parents}]
    IN  [all EXCEPT !.is = @ \cup {name}]

SHCBatteryDevice == Class("SHCBatteryDevice", {}, [None EXCEPT
    !.guarded = {"BatteryLevel"},
    !.flags = {"BatteryLevel"}])

CommunicationQuality == Class("CommunicationQuality", {}, [None EXCEPT
    !.bare = {"CommunicationQuality"}])

PowerMeter == Class("PowerMeter", {}, [None EXCEPT
    !.bare = {"PowerMeter"}])

ChildProtection == Class("ChildProtection", {}, [None EXCEPT
    !.bare = {"ChildProtection"},
    !.writes = {<<"ChildProtection", "childLockActive">>}])

Thermostat == Class("Thermostat", {}, [None EXCEPT
    !.bare = {"Thermostat"},
    !.writes = {<<"Thermostat", "childLock">>}])

PowerSwitch == Class("PowerSwitch", {}, [None EXCEPT
    !.bare = {"PowerSwitch"},
    !.writes = {<<"PowerSwitch", "switchState">>}])

PowerSwitchProgram == Class("PowerSwitchProgram", {}, [None EXCEPT
    !.held = {"PowerSwitchProgram"}])

TemperatureLevel == Class("TemperatureLevel", {}, [None EXCEPT
    !.guarded = {"TemperatureLevel"}])

HumidityLevel == Class("HumidityLevel", {}, [None EXCEPT
    !.guarded = {"HumidityLevel"},
    !.flags = {"HumidityLevel"}])

\* Its accessors assert that the service is there.
TemperatureOffset == Class("TemperatureOffset", {}, [None EXCEPT
    !.bare = {"TemperatureOffset"},
    !.flags = {"TemperatureOffset"},
    !.writes = {<<"TemperatureOffset", "offset">>}])

SilentMode == Class("SilentMode", {}, [None EXCEPT
    !.guarded = {"SilentMode"},
    !.flags = {"SilentMode"},
    !.writes = {<<"SilentMode", "mode">>}])

\* supports_intrusion_alarm also asks for the model SMOKE_DETECTOR2.
SHCSmokeDetector == Class("SHCSmokeDetector", {SHCBatteryDevice}, [None EXCEPT
    !.bare = {"Alarm", "SmokeDetectorCheck"},
    !.guarded = {"SmokeSensitivity"},
    !.flags = {"Alarm", "SmokeSensitivity"},
    !.writes = {<<"Alarm", "value">>, <<"SmokeDetectorCheck", "value">>}])

SHCSmartPlug == Class("SHCSmartPlug", {PowerMeter, PowerSwitch, PowerSwitchProgram}, [None EXCEPT
    !.bare = {"Routing"},
    !.guarded = {"EnergySavingMode", "LedBrightnessConfiguration", "PowerSwitchConfiguration",
                 "PowerSwitchWarning"},
    !.flags = {"EnergySavingMode", "LedBrightnessConfiguration", "PowerSwitchConfiguration",
               "PowerSwitchWarning"},
    !.writes = {<<"Routing", "value">>}])

SHCSmartPlugCompact ==
    Class("SHCSmartPlugCompact", {CommunicationQuality, PowerMeter, PowerSwitch,
                                  PowerSwitchProgram}, [None EXCEPT
    !.guarded = {"EnergySavingMode", "LedBrightnessConfiguration", "PowerSwitchConfiguration",
                 "PowerSwitchWarning"},
    !.flags = {"EnergySavingMode", "LedBrightnessConfiguration", "PowerSwitchConfiguration",
               "PowerSwitchWarning"}])

SHCLightSwitch ==
    Class("SHCLightSwitch", {ChildProtection, PowerSwitch, PowerSwitchProgram}, None)

SHCLightSwitchBSM == Class("SHCLightSwitchBSM", {SHCLightSwitch, PowerMeter}, None)

SHCLightControl == Class("SHCLightControl", {CommunicationQuality, PowerMeter}, [None EXCEPT
    !.guarded = {"Keypad", "SwitchConfiguration"},
    !.flags = {"Keypad"}])

\* relay_type tells whether it has an ImpulseSwitch.
SHCMicromoduleRelay ==
    Class("SHCMicromoduleRelay", {CommunicationQuality, ChildProtection, PowerSwitch,
                                  PowerSwitchProgram}, [None EXCEPT
    !.guarded = {"ImpulseSwitch", "SwitchConfiguration"},
    !.flags = {"ImpulseSwitch", "SwitchConfiguration"},
    !.writes = {<<"ImpulseSwitch", "impulseLength">>, <<"ImpulseSwitch", "impulseState">>}])

SHCShutterControl == Class("SHCShutterControl", {}, [None EXCEPT
    !.bare = {"ShutterControl"},
    !.writes = {<<"ShutterControl", "level">>, <<"ShutterControl", "operationState">>}])

SHCMicromoduleShutterControl ==
    Class("SHCMicromoduleShutterControl", {SHCShutterControl, CommunicationQuality,
                                           ChildProtection, PowerMeter}, [None EXCEPT
    !.guarded = {"Keypad"},
    !.flags = {"Keypad"}])

SHCMicromoduleBlinds ==
    Class("SHCMicromoduleBlinds", {SHCMicromoduleShutterControl}, [None EXCEPT
    !.bare = {"BlindsControl", "BlindsSceneControl"},
    !.writes = {<<"BlindsControl", "targetAngle">>}])

SHCShutterContact == Class("SHCShutterContact", {SHCBatteryDevice}, [None EXCEPT
    !.bare = {"ShutterContact"}])

SHCShutterContact2 ==
    Class("SHCShutterContact2", {SHCShutterContact, CommunicationQuality}, [None EXCEPT
    !.bare = {"Bypass"},
    !.writes = {<<"Bypass", "state">>}])

SHCShutterContact2Plus == Class("SHCShutterContact2Plus", {SHCShutterContact2}, [None EXCEPT
    !.bare = {"VibrationSensor"},
    !.writes = {<<"VibrationSensor", "enabled">>, <<"VibrationSensor", "sensitivity">>}])

SHCCamera360 == Class("SHCCamera360", {}, [None EXCEPT
    !.bare = {"PrivacyMode"},
    !.guarded = {"CameraNotification"},
    !.writes = {<<"CameraNotification", "value">>, <<"PrivacyMode", "value">>}])

SHCCameraEyes == Class("SHCCameraEyes", {SHCCamera360}, [None EXCEPT
    !.guarded = {"CameraLight"},
    !.writes = {<<"CameraLight", "value">>}])

SHCCameraOutdoorGen2 == Class("SHCCameraOutdoorGen2", {SHCCamera360}, [None EXCEPT
    !.guarded = {"CameraAmbientLight", "CameraFrontLight"},
    !.writes = {<<"CameraAmbientLight", "value">>, <<"CameraFrontLight", "value">>}])

SHCThermostat ==
    Class("SHCThermostat", {SHCBatteryDevice, CommunicationQuality, SilentMode, Thermostat,
                            TemperatureLevel, TemperatureOffset}, [None EXCEPT
    !.bare = {"ValveTappet"}])

SHCClimateControl == Class("SHCClimateControl", {TemperatureLevel}, [None EXCEPT
    !.bare = {"RoomClimateControl"},
    !.guarded = {"ThermostatSupportedControlMode"},
    !.writes = {<<"RoomClimateControl", "boostMode">>, <<"RoomClimateControl", "low">>,
                <<"RoomClimateControl", "operationMode">>,
                <<"RoomClimateControl", "roomControlMode">>,
                <<"RoomClimateControl", "setpointTemperature">>,
                <<"RoomClimateControl", "summerMode">>}])

SHCHeatingCircuit == Class("SHCHeatingCircuit", {}, [None EXCEPT
    !.bare = {"HeatingCircuit"},
    !.writes = {<<"HeatingCircuit", "operationMode">>,
                <<"HeatingCircuit", "setpointTemperature">>,
                <<"HeatingCircuit", "setpointTemperatureForLevelComfort">>,
                <<"HeatingCircuit", "setpointTemperatureForLevelEco">>}])

SHCWallThermostat ==
    Class("SHCWallThermostat", {SHCBatteryDevice, TemperatureLevel, HumidityLevel, Thermostat,
                                TemperatureOffset}, None)

SHCThermostatGen2 == Class("SHCThermostatGen2", {SHCThermostat}, [None EXCEPT
    !.guarded = {"DisplayConfiguration", "DisplayDirection", "DisplayedTemperatureConfiguration",
                 "WallThermostatConfiguration"},
    !.flags = {"DisplayConfiguration", "DisplayDirection", "DisplayedTemperatureConfiguration",
               "WallThermostatConfiguration"}])

SHCRoomThermostat2 ==
    Class("SHCRoomThermostat2", {SHCWallThermostat, CommunicationQuality, Thermostat,
                                 TemperatureOffset}, [None EXCEPT
    !.guarded = {"DisplayConfiguration", "DisplayDirection", "DisplayedTemperatureConfiguration",
                 "TerminalConfiguration"},
    !.flags = {"DisplayConfiguration", "DisplayDirection", "DisplayedTemperatureConfiguration",
               "TerminalConfiguration"}])

SHCUniversalSwitch == Class("SHCUniversalSwitch", {SHCBatteryDevice}, [None EXCEPT
    !.bare = {"Keypad"},
    !.held = {"KeypadTrigger"},
    !.flags = {"KeypadTrigger"}])

SHCUniversalSwitch2 == Class("SHCUniversalSwitch2", {SHCUniversalSwitch}, None)

SHCMotionDetector == Class("SHCMotionDetector", {SHCBatteryDevice}, [None EXCEPT
    !.bare = {"LatestMotion", "MultiLevelSensor"}])

\* supports_light asks for both BinarySwitch and MultiLevelSwitch.
SHCMotionDetector2 == Class("SHCMotionDetector2", {SHCBatteryDevice}, [None EXCEPT
    !.bare = {"CommunicationQuality", "LatestMotion", "LatestTamper", "MultiLevelSensor",
              "OccupancyDetection", "PetImmunity", "PirSensorConfiguration", "PollControl",
              "TemperatureLevel"},
    !.guarded = {"BinarySwitch", "DetectionTest", "MultiLevelSwitch", "SmartSensitivityControl",
                 "WalkTest"},
    !.flags = {"BinarySwitch", "DetectionTest", "MultiLevelSwitch", "SmartSensitivityControl",
               "WalkTest"},
    !.writes = {<<"BinarySwitch", "on">>, <<"MultiLevelSwitch", "level">>,
                <<"PetImmunity", "enabled">>, <<"PirSensorConfiguration", "motionSensitivity">>}])

SHCTwinguard == Class("SHCTwinguard", {SHCBatteryDevice}, [None EXCEPT
    !.bare = {"AirQualityLevel", "SmokeDetectorCheck"},
    !.guarded = {"SmokeSensitivity", "TwinguardNightlyPromise"},
    !.flags = {"SmokeSensitivity", "TwinguardNightlyPromise"},
    !.writes = {<<"SmokeDetectorCheck", "value">>}])

SHCSmokeDetectionSystem == Class("SHCSmokeDetectionSystem", {}, [None EXCEPT
    !.bare = {"SurveillanceAlarm"}])

SHCPresenceSimulationSystem == Class("SHCPresenceSimulationSystem", {}, [None EXCEPT
    !.bare = {"PresenceSimulationConfiguration"},
    !.writes = {<<"PresenceSimulationConfiguration", "enabled">>}])

\* The flags are computed once, as Capabilities.
SHCLight == Class("SHCLight", {}, [None EXCEPT
    !.bare = {"BinarySwitch"},
    !.guarded = {"HSBColorActuator", "HueColorTemperature", "MultiLevelSwitch"},
    !.flags = {"HSBColorActuator", "HueColorTemperature", "MultiLevelSwitch"},
    !.writes = {<<"BinarySwitch", "on">>, <<"HSBColorActuator", "rgb">>,
                <<"HueColorTemperature", "colorTemperature">>, <<"MultiLevelSwitch", "level">>}])

SHCWaterLeakageSensor == Class("SHCWaterLeakageSensor", {SHCBatteryDevice}, [None EXCEPT
    !.bare = {"WaterLeakageSensor", "WaterLeakageSensorCheck", "WaterLeakageSensorTilt"}])

SHCMicromoduleDimmer ==
    Class("SHCMicromoduleDimmer", {SHCLight, CommunicationQuality, ChildProtection, PowerSwitch},
      [None EXCEPT
    !.guarded = {"PowerSwitch"},
    !.held = {"DimmerConfiguration"},
    !.flags = {"DimmerConfiguration"},
    !.writes = {<<"PowerSwitch", "switchState">>}])

SHCOutdoorSiren == Class("SHCOutdoorSiren", {SHCBatteryDevice}, [None EXCEPT
    !.bare = {"OutdoorSiren"},
    !.held = {"OutdoorSirenPowerSupply"},
    !.flags = {"OutdoorSirenPowerSupply"}])

(***************************************************************************)
(* The class of a device, by the model the SHC reports.  A device of any   *)
(* other model is a plain SHCDevice.                                       *)
(***************************************************************************)
MODEL_MAPPING ==
   [SWD |-> SHCShutterContact, SWD2 |-> SHCShutterContact2, SWD2_DUAL |-> SHCShutterContact2,
    SWD2_PLUS |-> SHCShutterContact2Plus, BBL |-> SHCShutterControl,
    MICROMODULE_AWNING |-> SHCMicromoduleShutterControl,
    MICROMODULE_SHUTTER |-> SHCMicromoduleShutterControl, PSM |-> SHCSmartPlug,
    BSM |-> SHCLightSwitchBSM, MICROMODULE_BLINDS |-> SHCMicromoduleBlinds,
    MICROMODULE_LIGHT_ATTACHED |-> SHCLightSwitch, MICROMODULE_LIGHT_CONTROL |-> SHCLightControl,
    MICROMODULE_RELAY |-> SHCMicromoduleRelay, PLUG_COMPACT |-> SHCSmartPlugCompact,
    PLUG_COMPACT_DUAL |-> SHCSmartPlugCompact, SD |-> SHCSmokeDetector,
    SMOKE_DETECTOR2 |-> SHCSmokeDetector, CAMERA_EYES |-> SHCCameraEyes,
    CAMERA_360 |-> SHCCamera360, CAMERA_OUTDOOR_GEN2 |-> SHCCameraOutdoorGen2,
    ROOM_CLIMATE_CONTROL |-> SHCClimateControl, TRV |-> SHCThermostat,
    TRV_GEN2 |-> SHCThermostatGen2, TRV_GEN2_DUAL |-> SHCThermostatGen2,
    THB |-> SHCWallThermostat, BWTH |-> SHCWallThermostat, BWTH24 |-> SHCWallThermostat,
    RTH2_BAT |-> SHCRoomThermostat2, RTH2_230 |-> SHCRoomThermostat2,
    WRC2 |-> SHCUniversalSwitch, SWITCH2 |-> SHCUniversalSwitch2, MD |-> SHCMotionDetector,
    MD2 |-> SHCMotionDetector2, PRESENCE_SIMULATION_SERVICE |-> SHCPresenceSimulationSystem,
    TWINGUARD |-> SHCTwinguard, SMOKE_DETECTION_SYSTEM |-> SHCSmokeDetectionSystem,
    LEDVANCE_LIGHT |-> SHCLight, HUE_LIGHT |-> SHCLight, WLS |-> SHCWaterLeakageSensor,
    HEATING_CIRCUIT |-> SHCHeatingCircuit, MICROMODULE_DIMMER |-> SHCMicromoduleDimmer,
    OUTDOOR_SIREN |-> SHCOutdoorSiren]

SUPPORTED_MODELS == DOMAIN MODEL_MAPPING

(***************************************************************************)
(* The lists of SHCDeviceHelper: the models whose devices they hold and    *)
(* the class their annotation promises.  The two relay lists share the     *)
(* devices of a model by relay_type; the two systems are single devices,   *)
(* found by a fixed id.                                                    *)
(***************************************************************************)
List(class, models) == [class |-> class, models |-> models]

SHCDeviceHelper ==
   [shutter_contacts |-> List("SHCShutterContact", {"SWD"}),
    shutter_contacts2 |-> List("SHCShutterContact2", {"SWD2", "SWD2_DUAL", "SWD2_PLUS"}),
    shutter_controls |-> List("SHCShutterControl", {"BBL"}),
    micromodule_shutter_controls |->
        List("SHCMicromoduleShutterControl", {"MICROMODULE_AWNING", "MICROMODULE_SHUTTER"}),
    micromodule_blinds |-> List("SHCMicromoduleBlinds", {"MICROMODULE_BLINDS"}),
    micromodule_relays |-> List("SHCMicromoduleRelay", {"MICROMODULE_RELAY"}),
    micromodule_impulse_relays |-> List("SHCMicromoduleRelay", {"MICROMODULE_RELAY"}),
    light_switches_bsm |-> List("SHCLightSwitchBSM", {"BSM"}),
    micromodule_light_attached |-> List("SHCLightSwitch", {"MICROMODULE_LIGHT_ATTACHED"}),
    micromodule_light_controls |-> List("SHCLightControl", {"MICROMODULE_LIGHT_CONTROL"}),
    smart_plugs |-> List("SHCSmartPlug", {"PSM"}),
    smart_plugs_compact |->
        List("SHCSmartPlugCompact", {"PLUG_COMPACT", "PLUG_COMPACT_DUAL"}),
    smoke_detectors |-> List("SHCSmokeDetector", {"SD", "SMOKE_DETECTOR2"}),
    climate_controls |-> List("SHCClimateControl", {"ROOM_CLIMATE_CONTROL"}),
    thermostats |-> List("SHCThermostat", {"TRV", "TRV_GEN2", "TRV_GEN2_DUAL"}),
    wallthermostats |-> List("SHCWallThermostat", {"BWTH", "BWTH24", "THB"}),
    roomthermostats |-> List("SHCRoomThermostat2", {"RTH2_230", "RTH2_BAT"}),
    motion_detectors |-> List("SHCMotionDetector", {"MD"}),
    motion_detectors2 |-> List("SHCMotionDetector2", {"MD2"}),
    twinguards |-> List("SHCTwinguard", {"TWINGUARD"}),
    universal_switches |-> List("SHCUniversalSwitch", {"SWITCH2", "WRC2"}),
    camera_eyes |-> List("SHCCameraEyes", {"CAMERA_EYES"}),
    camera_360 |-> List("SHCCamera360", {"CAMERA_360"}),
    camera_outdoor_gen2 |-> List("SHCCameraOutdoorGen2", {"CAMERA_OUTDOOR_GEN2"}),
    ledvance_lights |-> List("SHCLight", {"LEDVANCE_LIGHT"}),
    hue_lights |-> List("SHCLight", {"HUE_LIGHT"}),
    water_leakage_detectors |-> List("SHCWaterLeakageSensor", {"WLS"}),
    presence_simulation_system |->
        List("SHCPresenceSimulationSystem", {"PRESENCE_SIMULATION_SERVICE"}),
    smoke_detection_system |-> List("SHCSmokeDetectionSystem", {"SMOKE_DETECTION_SYSTEM"}),
    heating_circuits |-> List("SHCHeatingCircuit", {"HEATING_CIRCUIT"}),
    micromodule_dimmers |-> List("SHCMicromoduleDimmer", {"MICROMODULE_DIMMER"}),
    outdoor_sirens |-> List("SHCOutdoorSiren", {"OUTDOOR_SIREN"})]

\* The services a model has to do with, and the keys of one that it can write.
Used(m) == m.bare \cup m.guarded \cup m.held

Written(m, s) == SERVICE_MAPPING[s].puts \cup SERVICE_MAPPING[s].aputs
    \cup {w[2] : w \in {x \in m.writes : x[1] = s}}

Models == {MODEL_MAPPING[m] : m \in SUPPORTED_MODELS}
Lists == {SHCDeviceHelper[l] : l \in DOMAIN SHCDeviceHelper}

-----------------------------------------------------------------------------
(***************************************************************************)
(* What the tables have to agree on.  A model asks for no service that     *)
(* build would refuse, and writes no key that nothing reads back: else the *)
(* service is always missing, or the write never shows.                    *)
(***************************************************************************)
ASSUME ServicesAreKnown ==
    \A m \in Models : Used(m) \cup m.flags \subseteq SUPPORTED_DEVICE_SERVICE_IDS
ASSUME WritesAreReadBack ==
    /\ \A m \in Models : \A w \in m.writes :
          w[1] \in Used(m) /\ w[2] \in DOMAIN SERVICE_MAPPING[w[1]].reads
    /\ \A s \in {SERVICE_MAPPING[id] : id \in SUPPORTED_DEVICE_SERVICE_IDS} :
          /\ s.puts \cup s.aputs \cup s.local \cup s.present \subseteq DOMAIN s.reads
          /\ s.requests \cap DOMAIN s.reads = {}

(***************************************************************************)
(* What is filled into a block can always be sent: reading it raises       *)
(* nothing and never yields None.                                          *)
(***************************************************************************)
ASSUME BlocksCanBeFilled ==
    \A id \in SUPPORTED_DEVICE_SERVICE_IDS :
        LET s == SERVICE_MAPPING[id]
        IN  \A b \in s.blocks : \A k \in b.fields :
                b.set \subseteq b.fields /\ s.reads[k] \in {Default, DefaultEnum}

(***************************************************************************)
(* The helper lists every supported model in one list of a class it is,    *)
(* the relays in two.                                                      *)
(***************************************************************************)
ASSUME EveryModelIsListed ==
    /\ UNION {l.models : l \in Lists} = SUPPORTED_MODELS
    /\ \A l \in Lists : \A m \in l.models : l.class \in MODEL_MAPPING[m].is
    /\ \A a, b \in DOMAIN SHCDeviceHelper :
          SHCDeviceHelper[a].models \cap SHCDeviceHelper[b].models # {} =>
              a = b \/ {a, b} = {"micromodule_relays", "micromodule_impulse_relays"}

(***************************************************************************)
(* A write that a model skips without a word when the service is missing   *)
(* can be seen coming by a flag, but for these services.                   *)
(***************************************************************************)
ASSUME SkippedWritesAreFlagged ==
    \A m \in Models : \A s \in m.guarded \ m.flags :
        Written(m, s) # {} =>
            s \in {"SwitchConfiguration", "CameraLight", "CameraNotification",
                    "CameraAmbientLight", "CameraFrontLight", "PowerSwitch"}

=============================================================================
