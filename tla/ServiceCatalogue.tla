-------------------------- MODULE ServiceCatalogue --------------------------
(***************************************************************************)
(* The device services of services_impl.py as data: for every class, how   *)
(* each key of the state is read and which keys are written, and how.  The *)
(* tables have the names of the classes.  DeviceCatalogue says which device *)
(* models use them, ServiceAccess models an access.                        *)
(*                                                                         *)
(* A way of reading says what the property returns when the key is absent  *)
(* from the state, and when it holds a value the enumeration of the class  *)
(* does not have ("value": the property takes any value).                  *)
(***************************************************************************)
EXTENDS FiniteSets, TLC

Way(absent, odd) == [absent |-> absent, odd |-> odd]

Required       == Way("raises",  "value")     \* self.state[k]
RequiredEnum   == Way("raises",  "raises")    \* Enum(self.state[k])
Default        == Way("default", "value")     \* self.state.get(k, d)
DefaultEnum    == Way("default", "default")   \* the same, ValueError caught
DefaultStrict  == Way("default", "raises")    \* ValueError not caught
Optional       == Way("none",    "value")     \* None (or "n/a") when absent
OptionalStrict == Way("none",    "raises")
OptionalEnum   == Way("none",    "unknown")
OptionalQuiet  == Way("none",    "none")
UnknownEnum    == Way("unknown", "unknown")   \* Enum.UNKNOWN
FaultsEnum     == Way("default", "unknown")   \* OK, else NOT_AVAILABLE

Ways == {Required, RequiredEnum, Default, DefaultEnum, DefaultStrict, Optional,
         OptionalStrict, OptionalEnum, OptionalQuiet, UnknownEnum, FaultsEnum}

Read(way, keys) == [k \in keys |-> way]

(***************************************************************************)
(* reads: key -> way.  present: the keys whose presence is a feature flag. *)
(* puts, aputs: keys written alone by a setter and by a coroutine.         *)
(* requests: keys written that no property reads.  posts: operations.      *)
(* local: keys a setter changes in the cached state only.  blocks: writes  *)
(* that send several fields, see Block.                                    *)
(***************************************************************************)
Blank == [reads |-> Read(Default, {}), present |-> {}, puts |-> {}, aputs |-> {},
          requests |-> {}, posts |-> {}, local |-> {}, blocks |-> {}]

(***************************************************************************)
(* A write of one of the set fields of a block sends all its fields.  The  *)
(* raw ones are copied from the cached state and patched there, the others *)
(* filled from their properties, so with a default where the cached state  *)
(* has none.  A guarded block is not written while the cached state has    *)
(* none of it; an ordered one is refused when its lower bound would not be *)
(* below its upper one.                                                    *)
(***************************************************************************)
Block(set, fields, raw, guarded, ordered, flavours) ==
    [set |-> set, fields |-> fields, raw |-> raw, guarded |-> guarded, ordered |-> ordered,
     flavours |-> flavours]

TemperatureOffsetService == [Blank EXCEPT
    !.reads = Read(Default, {"offset", "stepSize", "minOffset", "maxOffset"}),
    !.puts = {"offset"}]

TemperatureLevelService == [Blank EXCEPT !.reads = Read(Default, {"temperature"})]

HumidityLevelService == [Blank EXCEPT !.reads = Read(Default, {"humidity"})]

RoomClimateControlService == [Blank EXCEPT
    !.reads = Read(DefaultEnum, {"operationMode"})
        @@ Read(Default, {"setpointTemperature", "ventilationMode", "low", "boostMode",
                          "summerMode", "roomControlMode", "supportsBoostMode",
                          "showSetpointTemperature", "hasDemand"})
        @@ Read(Optional, {"setpointTemperatureForLevelEco",
                           "setpointTemperatureForLevelComfort"}),
    !.present = {"low", "setpointTemperatureForLevelEco", "roomControlMode"},
    !.puts = {"operationMode", "setpointTemperature", "low", "boostMode", "summerMode",
              "roomControlMode"}]

ThermostatSupportedControlModeService ==
    [Blank EXCEPT !.reads = Read(Default, {"supportedControlModes"})]

HeatingCircuitService == [Blank EXCEPT
    !.reads = Read(DefaultEnum, {"operationMode"})
        @@ Read(Default, {"setpointTemperature", "temperatureOverrideModeActive",
                          "temperatureOverrideFeatureEnabled",
                          "energySavingFeatureEnabled", "on"})
        @@ Read(Optional, {"setpointTemperatureForLevelEco",
                           "setpointTemperatureForLevelComfort"})
        @@ Read(OptionalEnum, {"heatingType"}),
    !.puts = {"operationMode", "setpointTemperature", "setpointTemperatureForLevelEco",
              "setpointTemperatureForLevelComfort"}]

SilentModeService == [Blank EXCEPT !.reads = Read(DefaultEnum, {"mode"})]

ShutterContactService == [Blank EXCEPT !.reads = Read(DefaultEnum, {"value"})]

BypassService == [Blank EXCEPT
    !.reads = Read(UnknownEnum, {"state"}) @@ Read(Default, {"enabled", "timeout", "infinite"}),
    !.blocks = {Block({"enabled", "timeout", "infinite"}, {"enabled", "timeout", "infinite"},
                      {}, TRUE, FALSE, {"sync", "async"})}]

VibrationSensorService == [Blank EXCEPT
    !.reads = Read(UnknownEnum, {"value", "sensitivity"}) @@ Read(Default, {"enabled"})]

ValveTappetService == [Blank EXCEPT
    !.reads = Read(Default, {"position"}) @@ Read(UnknownEnum, {"value"})]

PowerSwitchService == [Blank EXCEPT
    !.reads = Read(RequiredEnum, {"switchState"}) @@ Read(Default, {"automaticPowerOffTime"})]

PowerMeterService == [Blank EXCEPT
    !.reads = Read(Default, {"powerConsumption", "energyConsumption"})
        @@ Read(Optional, {"energyYield"})]

RoutingService == [Blank EXCEPT !.reads = Read(DefaultEnum, {"value"})]

PowerSwitchProgramService == [Blank EXCEPT
    !.reads = Read(RequiredEnum, {"operationMode"}), !.puts = {"operationMode"}]

BinarySwitchService == [Blank EXCEPT !.reads = Read(Required, {"on"})]

MultiLevelSwitchService == [Blank EXCEPT !.reads = Read(Required, {"level"})]

MultiLevelSensorService == [Blank EXCEPT !.reads = Read(Default, {"illuminance"})]

HueColorTemperatureService == [Blank EXCEPT
    !.reads = Read(Required, {"colorTemperature"}) @@ Read(Default, {"minCt", "maxCt"})]

HSBColorActuatorService == [Blank EXCEPT
    !.reads = Read(Required, {"rgb", "gamut"}) @@ Read(Default, {"minCt", "maxCt"})]

SmokeDetectorCheckService == [Blank EXCEPT !.reads = Read(DefaultEnum, {"value"})]

AlarmService == [Blank EXCEPT !.reads = Read(DefaultEnum, {"value"})]

ShutterControlService == [Blank EXCEPT
    !.reads = Read(DefaultEnum, {"operationState"}) @@ Read(Default, {"calibrated", "level"})]

BlindsControlService == [Blank EXCEPT
    !.reads = Read(Default, {"currentAngle", "targetAngle"})
        @@ Read(OptionalStrict, {"blindsType"}),
    !.puts = {"targetAngle"}]

BlindsSceneControlService == [Blank EXCEPT
    !.reads = Read(Default, {"level", "angle"}),
    !.blocks = {Block({"level", "angle"}, {"level", "angle"}, {}, FALSE, FALSE, {"sync"})}]

\* Also CameraAmbientLightService and CameraFrontLightService.
CameraLightService == [Blank EXCEPT !.reads = Read(DefaultStrict, {"value"})]

PrivacyModeService == [Blank EXCEPT !.reads = Read(DefaultStrict, {"value"})]

CameraNotificationService == [Blank EXCEPT !.reads = Read(DefaultEnum, {"value"})]

ChildProtectionService == [Blank EXCEPT !.reads = Read(Required, {"childLockActive"})]

ImpulseSwitchService == [Blank EXCEPT
    !.reads = Read(Required, {"impulseState", "impulseLength"})
        @@ Read(Optional, {"instantOfLastImpulse"})]

KeypadService == [Blank EXCEPT
    !.reads = Read(Default, {"keyCode", "eventTimestamp"})
        @@ Read(OptionalQuiet, {"keyName", "eventType"}),
    !.local = {"eventType"}]

LatestMotionService == [Blank EXCEPT !.reads = Read(Optional, {"latestMotionDetected"})]

DetectionTestService == [Blank EXCEPT
    !.reads = Read(UnknownEnum, {"detectionState", "motionSensitivity"}),
    !.requests = {"detectionStateRequest"}]

LatestTamperService == [Blank EXCEPT
    !.reads = Read(Default, {"tamperProtectionEnabled", "wasTampered"})
        @@ Read(Optional, {"lastTamperTime"}),
    !.puts = {"tamperProtectionEnabled"}, !.aputs = {"tamperProtectionEnabled"},
    !.posts = {"resetTamperedState"}]

PollControlService == [Blank EXCEPT
    !.reads = Read(UnknownEnum, {"longPollInterval"}),
    !.puts = {"longPollInterval"}, !.aputs = {"longPollInterval"}]

PirSensorConfigurationService == [Blank EXCEPT !.reads = Read(UnknownEnum, {"motionSensitivity"})]

OccupancyDetectionService == [Blank EXCEPT
    !.reads = Read(Required, {"isOccupied"}) @@ Read(Optional, {"lastOccupancyChangeTime"})]

PetImmunityService == [Blank EXCEPT !.reads = Read(Default, {"enabled"}), !.puts = {"enabled"}]

SmartSensitivityControlService == [Blank EXCEPT
    !.reads = Read(Default, {"enabled", "sensitivities"}),
    !.puts = {"enabled"}, !.aputs = {"enabled"},
    !.blocks = {Block({"sensitivities"}, {"enabled", "sensitivities"}, {"sensitivities"},
                      FALSE, FALSE, {"sync", "async"})}]

WalkTestService == [Blank EXCEPT
    !.reads = Read(UnknownEnum, {"walkState", "walkStateRequest", "petImmunityState"}),
    !.puts = {"walkStateRequest"}, !.aputs = {"walkStateRequest"}]

SmokeSensitivityService == [Blank EXCEPT
    !.reads = Read(OptionalEnum, {"smokeSensitivity"}) @@ Read(Default, {"preAlarmEnabled"}),
    !.puts = {"smokeSensitivity", "preAlarmEnabled"},
    !.aputs = {"smokeSensitivity", "preAlarmEnabled"}]

TwinguardNightlyPromiseService == [Blank EXCEPT
    !.reads = Read(Default, {"nightlyPromiseEnabled"}),
    !.puts = {"nightlyPromiseEnabled"}, !.aputs = {"nightlyPromiseEnabled"}]

EnergySavingModeService == [Blank EXCEPT
    !.reads = Read(Default, {"energySavingModeEnabled", "enterDurationSeconds"})
        @@ Read(Optional, {"powerThreshold"}),
    !.puts = {"energySavingModeEnabled", "powerThreshold", "enterDurationSeconds"},
    !.aputs = {"energySavingModeEnabled", "powerThreshold", "enterDurationSeconds"}]

LedBrightnessConfigurationService == [Blank EXCEPT
    !.reads = Read(Optional, {"brightness", "maxBrightness", "minBrightness", "stepSize"}),
    !.puts = {"brightness"}, !.aputs = {"brightness"}]

PowerSwitchConfigurationService == [Blank EXCEPT
    !.reads = Read(OptionalEnum, {"stateAfterPowerOutage"})
        @@ Read(Default, {"supportedStatesAfterPowerOutage"}),
    !.puts = {"stateAfterPowerOutage"}, !.aputs = {"stateAfterPowerOutage"}]

PowerSwitchWarningService == [Blank EXCEPT
    !.reads = Read(Default, {"warningSuppressed"}),
    !.puts = {"warningSuppressed"}, !.aputs = {"warningSuppressed"}]

AirQualityLevelService == [Blank EXCEPT
    !.reads = Read(UnknownEnum, {"combinedRating", "temperatureRating", "humidityRating",
                                 "purityRating"})
        @@ Read(Default, {"description", "humidity", "comfortZone"})
        @@ Read(Required, {"temperature", "purity"})]

SurveillanceAlarmService == [Blank EXCEPT !.reads = Read(DefaultEnum, {"value"})]

\* Read from the raw service, next to its state.
BatteryLevelService == [Blank EXCEPT !.reads = Read(FaultsEnum, {"faults"})]

ThermostatService == [Blank EXCEPT !.reads = Read(RequiredEnum, {"childLock"})]

CommunicationQualityService == [Blank EXCEPT
    !.reads = Read(UnknownEnum, {"quality"}), !.requests = {"requestState"}]

WaterLeakageSensorService == [Blank EXCEPT !.reads = Read(DefaultEnum, {"state"})]

WaterLeakageSensorTiltService == [Blank EXCEPT
    !.reads = Read(DefaultEnum, {"pushNotificationState", "acousticSignalState"})]

WaterLeakageSensorCheckService == [Blank EXCEPT !.reads = Read(Required, {"result"})]

PresenceSimulationConfigurationService == [Blank EXCEPT
    !.reads = Read(Default, {"enabled"}), !.puts = {"enabled"}]

DisplayConfiguration == [Blank EXCEPT
    !.reads = Read(Optional, {"displayBrightness", "displayBrightnessMax",
                              "displayBrightnessMin", "displayBrightnessStepSize",
                              "displayOnTime", "displayOnTimeMax", "displayOnTimeMin",
                              "displayOnTimeStepSize", "humidityWarningEnabled"}),
    !.puts = {"displayBrightness", "displayOnTime", "humidityWarningEnabled"},
    !.aputs = {"displayBrightness", "displayOnTime", "humidityWarningEnabled"}]

DisplayDirection == [Blank EXCEPT
    !.reads = Read(OptionalEnum, {"direction"}),
    !.puts = {"direction"}, !.aputs = {"direction"}]

DisplayedTemperatureConfiguration == [Blank EXCEPT
    !.reads = Read(OptionalEnum, {"displayedTemperature"}),
    !.puts = {"displayedTemperature"}, !.aputs = {"displayedTemperature"}]

TerminalConfiguration == [Blank EXCEPT
    !.reads = Read(OptionalEnum, {"type"}) @@ Read(Default, {"supportedTypes"})
        @@ Read(Optional, {"temperature"}),
    !.puts = {"type"}, !.aputs = {"type"}]

WallThermostatConfiguration == [Blank EXCEPT
    !.reads = Read(OptionalEnum, {"valveType", "heaterType"})
        @@ Read(Default, {"supportedHeaterTypes"})
        @@ Read(Optional, {"decalcificationProtectionEnabled"}),
    !.puts = {"valveType", "heaterType"}, !.aputs = {"valveType", "heaterType"}]

SwitchConfiguration == [Blank EXCEPT
    !.reads = Read(OptionalEnum, {"switchType", "actuatorType", "outputMode"})
        @@ Read(Default, {"swapInputs", "swapOutputs", "supportedOutputModes"})
        @@ Read(Optional, {"supportsSwapOutputs"}),
    !.puts = {"switchType", "swapInputs", "swapOutputs", "actuatorType", "outputMode"},
    !.aputs = {"switchType", "swapInputs", "swapOutputs", "actuatorType", "outputMode"}]

SirenSettings == {"alarmDuration", "flashDuration", "soundLevel", "alarmDelay", "flashDelay"}

OutdoorSirenService == [Blank EXCEPT
    !.reads = Read(Default, {"acousticAlarmOn", "visualAlarmOn", "tamperActivated",
                             "legacyAlarm", "smartAlarm"})
        @@ Read(Default, SirenSettings \ {"soundLevel"}) @@ Read(DefaultEnum, {"soundLevel"}),
    !.blocks = {Block(SirenSettings, SirenSettings, {}, TRUE, FALSE, {"async"})},
    !.posts = {"triggerTestAlarm"}]

OutdoorSirenPowerSupplyService == [Blank EXCEPT
    !.reads = Read(Default, {"batteryPercentageRemaining", "acDcError", "batteryDefect",
                             "batteryTemperatureAbnormal", "primaryPowerSupplyOutage",
                             "solarChargingCurrent"})
        @@ Read(UnknownEnum, {"configuredPowerSupply", "mainPowerSupply",
                              "solarChargingScore"})]

KeypadTriggerService == [Blank EXCEPT
    !.reads = Read(Optional, {"switchType"})
        @@ Read(Default, {"scenarioIdAssociations", "idsToTrigger"})]

SoftwareUpdateService == [Blank EXCEPT
    !.reads = Read(UnknownEnum, {"swUpdateState"})
        @@ Read(Optional, {"swUpdateLastResult", "swUpdateAvailableVersion",
                           "swInstalledVersion"})
        @@ Read(Default, {"automaticUpdatesEnabled"})]

DimmerConfigurationService == [Blank EXCEPT
    !.reads = Read(DefaultEnum, {"edgePhaseControlMode"})
        @@ Read(Default, {"minBrightness", "maxBrightness", "dimmingSpeed"}),
    !.aputs = {"edgePhaseControlMode", "dimmingSpeed"},
    !.blocks = {Block({"minBrightness", "maxBrightness"}, {"minBrightness", "maxBrightness"},
                      {}, FALSE, TRUE, {"async"})},
    !.posts = {"previewMaxBrightness", "previewMinBrightness"}]

(***************************************************************************)
(* The services the library knows, by the id the SHC gives them.  A device *)
(* has one object for each of its services with such an id; build refuses  *)
(* any other id with a ValueError, which the enumeration avoids by asking  *)
(* SUPPORTED_DEVICE_SERVICE_IDS first.                                     *)
(***************************************************************************)
SERVICE_MAPPING ==
   [AirQualityLevel |-> AirQualityLevelService, Alarm |-> AlarmService,
    BatteryLevel |-> BatteryLevelService, BinarySwitch |-> BinarySwitchService,
    BlindsControl |-> BlindsControlService, BlindsSceneControl |-> BlindsSceneControlService,
    Bypass |-> BypassService, CameraAmbientLight |-> CameraLightService,
    CameraFrontLight |-> CameraLightService, CameraLight |-> CameraLightService,
    CameraNotification |-> CameraNotificationService,
    ChildProtection |-> ChildProtectionService,
    CommunicationQuality |-> CommunicationQualityService,
    DetectionTest |-> DetectionTestService, DimmerConfiguration |-> DimmerConfigurationService,
    DisplayConfiguration |-> DisplayConfiguration, DisplayDirection |-> DisplayDirection,
    DisplayedTemperatureConfiguration |-> DisplayedTemperatureConfiguration,
    EnergySavingMode |-> EnergySavingModeService, HeatingCircuit |-> HeatingCircuitService,
    HSBColorActuator |-> HSBColorActuatorService,
    HueColorTemperature |-> HueColorTemperatureService, HumidityLevel |-> HumidityLevelService,
    ImpulseSwitch |-> ImpulseSwitchService, Keypad |-> KeypadService,
    KeypadTrigger |-> KeypadTriggerService, LatestMotion |-> LatestMotionService,
    LatestTamper |-> LatestTamperService,
    LedBrightnessConfiguration |-> LedBrightnessConfigurationService,
    MultiLevelSensor |-> MultiLevelSensorService, MultiLevelSwitch |-> MultiLevelSwitchService,
    OccupancyDetection |-> OccupancyDetectionService, OutdoorSiren |-> OutdoorSirenService,
    OutdoorSirenPowerSupply |-> OutdoorSirenPowerSupplyService,
    PetImmunity |-> PetImmunityService,
    PirSensorConfiguration |-> PirSensorConfigurationService,
    PollControl |-> PollControlService, PowerMeter |-> PowerMeterService,
    PowerSwitch |-> PowerSwitchService,
    PowerSwitchConfiguration |-> PowerSwitchConfigurationService,
    PowerSwitchProgram |-> PowerSwitchProgramService,
    PowerSwitchWarning |-> PowerSwitchWarningService,
    PresenceSimulationConfiguration |-> PresenceSimulationConfigurationService,
    PrivacyMode |-> PrivacyModeService, RoomClimateControl |-> RoomClimateControlService,
    ThermostatSupportedControlMode |-> ThermostatSupportedControlModeService,
    Routing |-> RoutingService, ShutterContact |-> ShutterContactService,
    ShutterControl |-> ShutterControlService, SilentMode |-> SilentModeService,
    SmartSensitivityControl |-> SmartSensitivityControlService,
    SmokeSensitivity |-> SmokeSensitivityService,
    SmokeDetectorCheck |-> SmokeDetectorCheckService, SoftwareUpdate |-> SoftwareUpdateService,
    SurveillanceAlarm |-> SurveillanceAlarmService, SwitchConfiguration |-> SwitchConfiguration,
    TemperatureLevel |-> TemperatureLevelService,
    TemperatureOffset |-> TemperatureOffsetService,
    TerminalConfiguration |-> TerminalConfiguration, Thermostat |-> ThermostatService,
    TwinguardNightlyPromise |-> TwinguardNightlyPromiseService,
    ValveTappet |-> ValveTappetService, VibrationSensor |-> VibrationSensorService,
    WalkTest |-> WalkTestService, WallThermostatConfiguration |-> WallThermostatConfiguration,
    WaterLeakageSensor |-> WaterLeakageSensorService,
    WaterLeakageSensorCheck |-> WaterLeakageSensorCheckService,
    WaterLeakageSensorTilt |-> WaterLeakageSensorTiltService]

SUPPORTED_DEVICE_SERVICE_IDS == DOMAIN SERVICE_MAPPING

=============================================================================
