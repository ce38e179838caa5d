----------------------------- MODULE ResourceKinds -----------------------------
(***************************************************************************)
(* The classes of resource.hpp: which members each shows (get_json), from  *)
(* which key of its file it reads each back (load_json), and which ones no *)
(* constructor gives a value.                                              *)
(*                                                                         *)
(* A member is named by its json key; the members of an object inside the  *)
(* resource that are set or read apart have a dot in their names.  The     *)
(* uri, the type and @odata.type are the same in the object, its file and  *)
(* its constructor and are left out, and so are Actions and the links to   *)
(* other resources, which are made again from the uris (ResourceTree).     *)
(***************************************************************************)
EXTENDS Sequences, TLC

\* What load_json has for a member it does not read.
NotRead == "NotRead"

\* Members read back from the key they are written to, and members not read.
Kept(names) == [m \in names |-> m]
Lost(names) == [m \in names |-> NotRead]
Inside(object, names) == {object \o "." \o n : n \in names}

(***************************************************************************)
(* get_json and load_json of each class.                                   *)
(***************************************************************************)
ResourceMembers == Kept({"Name"})
CollectionMembers == ResourceMembers
ListMembers == Kept({"MemberType"}) @@ ResourceMembers

RoleMembers == Kept({"Id", "IsPredefined", "AssignedPrivileges"}) @@ ResourceMembers
AccountMembers ==
    Kept({"Id", "Enabled", "Password", "UserName", "Locked", "RoleOdataId"}) @@ ResourceMembers

Lockout == {"AuthFailureLoggingThreshold", "AccountLockoutThreshold", "AccountLockoutDuration",
            "AccountLockoutCounterResetAfter", "AccountLockoutCounterResetEnabled"}
AccountServiceMembers ==
    Kept({"Id", "Status", "ServiceEnabled", "MinPasswordLength", "MaxPasswordLength"} \cup Lockout)
    @@ ResourceMembers
DirectoryMembers ==
    Kept({"LDAP.AccountProviderType", "LDAP.PasswordSet", "LDAP.ServiceEnabled", "LDAP.Port",
          "LDAP.ServiceAddresses", "LDAP.Authentication", "LDAP.SearchSettings",
          "LDAP.BaseDistinguishedNames", "ActiveDirectory.AccountProviderType",
          "ActiveDirectory.ServiceEnabled", "ActiveDirectory.Port",
          "ActiveDirectory.ServiceAddresses", "ActiveDirectory.Authentication"})

SessionServiceMembers == Kept({"Id", "Status", "ServiceEnabled", "SessionTimeout"}) @@ ResourceMembers
SessionMembers == Kept({"Id", "SessionType", "AccountId", "AuthToken"}) @@ ResourceMembers

LogServiceMembers ==
    Kept({"Id", "Description", "DateTime", "DateTimeLocalOffset", "MaxNumberOfRecords",
          "LogEntryType", "OverWritePolicy", "ServiceEnabled", "SyslogFilters", "Status"})
    @@ ResourceMembers
\* The three members of its Message that Message::get_specific_json shows.
LogEntryMessage == Kept({"Message", "MessageArgs", "MessageId"})
LogEntryMembers ==
    Kept({"Id", "EntryType", "Severity", "Created", "SensorNumber", "SensorType", "EntryCode",
          "EventId", "EventTimeStamp", "EventType"})
    @@ LogEntryMessage @@ ResourceMembers

EventDestinationMembers ==
    Kept({"Id", "Destination", "SubscriptionType", "DeliveryRetryPolicy", "Context", "Protocol",
          "Status", "EventTypes"})
    @@ ResourceMembers
EventServiceMembers ==
    Kept({"Id", "ServiceEnabled", "DeliveryRetryAttempts", "DeliveryRetryIntervalSeconds",
          "ServerSentEventUri", "Status", "EventTypesForSubscription",
          "SSEFilterPropertiesSupported", "SMTP"})
    @@ ResourceMembers

UpdateServiceMembers == Kept({"Id", "ServiceEnabled", "HttpPushUri", "Status"}) @@ ResourceMembers
SoftwareInventoryMembers ==
    Kept({"Id", "Updatable", "Manufacturer", "ReleaseDate", "Version", "SoftwareId",
          "LowestSupportedVersion", "Status", "UefiDevicePaths"})
    @@ ResourceMembers

Thresholds == {"UpperThresholdNonCritical", "UpperThresholdCritical", "UpperThresholdFatal",
               "LowerThresholdNonCritical", "LowerThresholdCritical", "LowerThresholdFatal"}
TemperatureMembers ==
    Kept({"MemberId", "Status", "SensorNumber", "ReadingCelsius", "MinReadingRangeTemp",
          "MaxReadingRangeTemp", "PhysicalContext"} \cup Thresholds)
    @@ ResourceMembers
FanMembers ==
    Kept({"MemberId", "Status", "SensorNumber", "Reading", "ReadingUnits", "MinReadingRange",
          "MaxReadingRange", "PhysicalContext"} \cup Thresholds)
    @@ ResourceMembers
ThermalMembers == Kept({"Id"}) @@ ResourceMembers
SensorMembers ==
    Kept({"Id", "ReadingType", "ReadingTime", "Reading", "ReadingUnits", "ReadingRangeMin",
          "ReadingRangeMax", "Accuracy", "Precision", "SensingInterval", "PhysicalContext",
          "Status", "Thresholds"})
    @@ ResourceMembers

PowerSupplyMembers ==
    Kept({"MemberId", "PowerSupplyType", "LineInputVoltageType", "LineInputVoltage",
          "PowerCapacityWatts", "LastPowerOutputWatts", "Model", "Manufacturer",
          "FirmwareVersion", "SerialNumber", "PartNumber", "SparePartNumber", "Status",
          "InputRanges"})
    @@ ResourceMembers
VoltageMembers ==
    Kept({"MemberId", "SensorNumber", "ReadingVolts", "MinReadingRange", "MaxReadingRange",
          "PhysicalContext", "Status"} \cup Thresholds)
    @@ ResourceMembers
\* load_json reads what the file has as available into the watts allocated too.
PowerControlMembers ==
    ("PowerAllocatedWatts" :> "PowerAvailableWatts")
    @@ Kept({"MemberId", "PowerConsumedWatts", "PowerRequestedWatts", "PowerAvailableWatts",
             "PowerCapacityWatts", "Status", "PowerMetrics", "PowerLimit"})
    @@ ResourceMembers
PowerMembers == Kept({"Id"}) @@ ResourceMembers
ChassisMembers ==
    Kept({"Id", "ChassisType", "Manufacturer", "Model", "SerialNumber", "PartNumber", "AssetTag",
          "PowerState", "IndicatorLED", "Status", "Location"})
    @@ ResourceMembers

ManagerMembers ==
    Kept({"Id", "ManagerType", "Description", "FirmwareVersion", "DateTime",
          "DateTimeLocalOffset", "Model", "UUID", "PowerState", "Status"})
    @@ ResourceMembers
SyslogServiceMembers == Kept({"EnableSyslog", "SyslogPortNumber", "SyslogServer"}) @@ ResourceMembers
RadiusMembers ==
    Kept({"Id", "RadiusEnabled", "RadiusServer", "RadiusPortNumber", "RadiusSecret"})
    @@ ResourceMembers
EthernetInterfacesMembers ==
    Kept({"Id", "Description", "LinkStatus", "PermanentMACAddress", "MACAddress", "SpeedMbps",
          "AutoNeg", "FullDuplex", "MTUSize", "HostName", "FQDN", "IPv6DefaultGateway",
          "InterfaceEnabled", "Status", "NameServers", "DHCPv4", "DHCPv6", "IPv4Addresses",
          "IPv6Addresses", "VLAN"})
    @@ ResourceMembers

Switch == {"ProtocolEnabled", "Port"}
NtpMembers ==
    Kept({"NTP.ProtocolEnabled", "NTP.Port", "NTP.PrimaryNTPServer", "NTP.SecondaryNTPServer",
          "NTP.Date", "NTP.Time", "NTP.TimeZone", "NTP.NTPServers"})
SnmpMembers ==
    Kept({"SNMP.ProtocolEnabled", "SNMP.Port", "SNMP.AuthenticationProtocol",
          "SNMP.CommunityAccessMode", "SNMP.EnableSNMPv1", "SNMP.EnableSNMPv2c",
          "SNMP.EnableSNMPv3", "SNMP.EncryptionProtocol", "SNMP.HideCommunityStrings",
          "SNMP.EngineId", "SNMP.CommunityStrings"})
NetworkProtocolMembers ==
    Kept({"FQDN", "Id", "HostName", "Description", "Status"} \cup Inside("IPMI", Switch)
         \cup Inside("KVMIP", Switch) \cup Inside("HTTP", Switch) \cup Inside("HTTPS", Switch))
    @@ Lost(Inside("SSH", Switch) \cup Inside("VirtualMedia", Switch)) @@ ResourceMembers

TaskServiceMembers == Kept({"Id", "Status", "ServiceEnabled", "DateTime"}) @@ ResourceMembers
TaskMembers ==
    Kept({"Id", "StartTime", "EndTime", "TaskState", "TaskStatus", "Payload"}) @@ ResourceMembers

SystemsMembers ==
    Kept({"Id", "SystemType", "AssetTag", "Manufacturer", "Model", "SerialNumber", "PartNumber",
          "Description", "UUID", "HostName", "Status", "IndicatorLED", "PowerState", "Boot"})
    @@ Lost({"BiosVersion"}) @@ ResourceMembers
ProcessorsMembers ==
    Kept({"Id", "Socket", "ProcessorType", "ProcessorArchitecture", "InstructionSet",
          "Manufacturer", "Model", "MaxSpeedMHz", "TotalCores", "TotalThreads", "Status",
          "ProcessorId"})
    @@ ResourceMembers
StorageMembers == Kept({"Id", "Description", "Status"}) @@ ResourceMembers
StorageControllersMembers ==
    Kept({"Id", "Manufacturer", "Model", "SerialNumber", "PartNumber", "SpeedGbps",
          "FirmwareVersion", "Identifiers", "Status", "SupportedControllerProtocols",
          "SupportedDeviceProtocols"})
    @@ ResourceMembers
SimpleStorageMembers ==
    Kept({"Id", "Description", "UefiDevicePath", "Status", "Devices"})
    @@ Lost({"Devices.FileSystem"}) @@ ResourceMembers
DriveMembers ==
    Kept({"Id", "AssetTag", "Description", "EncryptionAbility", "EncryptionStatus",
          "HotspareType", "Manufacturer", "Model", "SKU", "StatusIndicator", "PartNumber",
          "Protocol", "Revision", "SerialNumber", "BlockSizeBytes", "CapableSpeedGbs",
          "NegotiatedSpeedGbs", "PredictedMediaLifeLeftPercent", "RotationSpeedRPM",
          "FailurePredicted", "PhysicalLocation", "Status"})
    @@ Lost({"MediaType", "Identifiers"}) @@ ResourceMembers
VolumeMembers ==
    Kept({"Id", "Description", "RAIDType", "ReadCachePolicy", "WriteCachePolicy",
          "StripSizeBytes", "DisplayName", "BlockSizeBytes", "CapacityBytes",
          "AccessCapabilities", "Status"})
    @@ ResourceMembers
BiosMembers == Kept({"Id", "AttributeRegistry", "Attributes"}) @@ ResourceMembers
MemoryMembers ==
    Kept({"Id", "RankCount", "CapacityKiB", "DataWidthBits", "BusWidthBits", "ErrorCorrection",
          "MemoryType", "MemoryDeviceType", "BaseModuleType", "Status", "MaxTDPMilliWatts",
          "MemoryLocation", "MemoryMedia"})
    @@ ResourceMembers

\* Certificate::load_json is the only one that leaves out the members of Resource.
CertificateMembers ==
    Kept({"Id", "CertificateString", "CertificateType", "Issuer", "Subject", "ValidNotBefore",
          "ValidNotAfter", "Email", "KeyBitLength", "KeyUsage"})
    @@ Lost(DOMAIN ResourceMembers)
CertificateLocationMembers == Kept({"Id"}) @@ ResourceMembers
CertificateServiceMembers == Kept({"Id"}) @@ ResourceMembers
VirtualMediaMembers ==
    Kept({"ConnectedVia", "Id", "Image", "ImageName", "UserName", "Password", "Inserted",
          "WriteProtected", "MediaTypes", "Size", "CreateTime"})
    @@ ResourceMembers
MessageRegistryMembers ==
    Kept({"Id", "Language", "RegistryPrefix", "RegistryVersion"}) @@ Lost({"Messages"})
    @@ ResourceMembers
\* The service root is never read: record_load_json makes it again when it finds its file.
ServiceRootMembers == Lost({"Id", "RedfishVersion", "UUID"}) @@ Lost(DOMAIN ResourceMembers)

\* The classes record_load_json reads: what a resource of each shows, by the key it is read from.
AccountKinds == [
    Account |-> AccountMembers, Role |-> RoleMembers,
    AccountService |-> AccountServiceMembers @@ DirectoryMembers,
    SessionService |-> SessionServiceMembers, Session |-> SessionMembers,
    EventDestination |-> EventDestinationMembers, EventService |-> EventServiceMembers,
    UpdateService |-> UpdateServiceMembers, SoftwareInventory |-> SoftwareInventoryMembers,
    TaskService |-> TaskServiceMembers, Task |-> TaskMembers,
    Certificate |-> CertificateMembers, CertificateLocation |-> CertificateLocationMembers,
    CertificateService |-> CertificateServiceMembers]
ServerKinds == [
    ServiceRoot |-> ServiceRootMembers, Collection |-> CollectionMembers, List |-> ListMembers,
    Systems |-> SystemsMembers, Processors |-> ProcessorsMembers, Memory |-> MemoryMembers,
    Storage |-> StorageMembers, StorageControllers |-> StorageControllersMembers,
    SimpleStorage |-> SimpleStorageMembers, Drive |-> DriveMembers, Volume |-> VolumeMembers,
    Bios |-> BiosMembers, EthernetInterfaces |-> EthernetInterfacesMembers,
    LogService |-> LogServiceMembers, LogEntry |-> LogEntryMembers]
ChassisKinds == [
    Chassis |-> ChassisMembers, Thermal |-> ThermalMembers, Temperature |-> TemperatureMembers,
    Fan |-> FanMembers, Power |-> PowerMembers, PowerControl |-> PowerControlMembers,
    Voltage |-> VoltageMembers, PowerSupply |-> PowerSupplyMembers, Sensor |-> SensorMembers]
ManagerKinds == [
    Manager |-> ManagerMembers,
    NetworkProtocol |-> NetworkProtocolMembers @@ NtpMembers @@ SnmpMembers,
    SyslogService |-> SyslogServiceMembers, Radius |-> RadiusMembers,
    VirtualMedia |-> VirtualMediaMembers, MessageRegistry |-> MessageRegistryMembers]
Shown == AccountKinds @@ ServerKinds @@ ChassisKinds @@ ManagerKinds
Kinds == DOMAIN Shown

\* What a start makes again whatever its file says.
MadeAnew == {"ServiceRoot", "MessageRegistry"}

(***************************************************************************)
(* The numbers and booleans a constructor gives no value: they hold what   *)
(* was in the memory.  Strings and vectors are empty.                      *)
(***************************************************************************)
RoleUnset == [Role |-> {"IsPredefined"}]
LogUnset == [LogService |-> {"MaxNumberOfRecords", "ServiceEnabled"}, LogEntry |-> {}]
DirectoryUnset == [AccountService |->
    {"LDAP.PasswordSet", "LDAP.ServiceEnabled", "LDAP.Port", "ActiveDirectory.ServiceEnabled",
     "ActiveDirectory.Port"}]
EventUnset == [EventService |->
    {"ServiceEnabled", "DeliveryRetryAttempts", "DeliveryRetryIntervalSeconds",
     "SSEFilterPropertiesSupported", "SMTP"}]
UpdateUnset == [UpdateService |-> {"ServiceEnabled"}, SoftwareInventory |-> {"Updatable"}]
CertificateUnset == [Certificate |-> {"KeyBitLength"}]
NetworkUnset == [
    NetworkProtocol |->
        UNION {Inside(p, Switch) : p \in {"IPMI", "KVMIP", "HTTP", "HTTPS", "SSH", "VirtualMedia",
                                          "NTP", "SNMP"}}
        \cup Inside("SNMP", {"EnableSNMPv1", "EnableSNMPv2c", "EnableSNMPv3",
                             "HideCommunityStrings"}),
    EthernetInterfaces |->
        {"SpeedMbps", "AutoNeg", "FullDuplex", "MTUSize", "InterfaceEnabled", "DHCPv4", "DHCPv6",
         "VLAN"}]
SyslogUnset == [SyslogService |-> {"SyslogPortNumber", "EnableSyslog"}]
RadiusUnset == [Radius |-> {"RadiusPortNumber", "RadiusEnabled"}]
ServiceUnset == [TaskService |-> {"ServiceEnabled"},
                 SessionService |-> {"ServiceEnabled", "SessionTimeout"}]
ReadingUnset == [
    Temperature |-> {"SensorNumber", "ReadingCelsius", "MinReadingRangeTemp",
                     "MaxReadingRangeTemp"} \cup Thresholds,
    Fan |-> {"SensorNumber", "Reading", "MinReadingRange", "MaxReadingRange"} \cup Thresholds]
PowerUnset == [
    Voltage |-> {"SensorNumber", "ReadingVolts", "MinReadingRange", "MaxReadingRange"}
                \cup Thresholds,
    PowerSupply |-> {"LineInputVoltage", "PowerCapacityWatts", "LastPowerOutputWatts"},
    PowerControl |-> {"PowerConsumedWatts", "PowerRequestedWatts", "PowerAvailableWatts",
                      "PowerCapacityWatts", "PowerAllocatedWatts", "PowerMetrics", "PowerLimit"}]
StorageUnset == [
    StorageControllers |-> {"SpeedGbps"},
    Drive |-> {"BlockSizeBytes", "CapableSpeedGbs", "NegotiatedSpeedGbs",
               "PredictedMediaLifeLeftPercent", "RotationSpeedRPM", "FailurePredicted",
               "PhysicalLocation"},
    Volume |-> {"BlockSizeBytes", "CapacityBytes"}]
ComputerUnset == [
    Processors |-> {"MaxSpeedMHz", "TotalCores", "TotalThreads"},
    Memory |-> {"RankCount", "CapacityKiB", "DataWidthBits", "BusWidthBits", "MemoryLocation"}]
MachineUnset == [Systems |-> {"IndicatorLED"}, Chassis |-> {"IndicatorLED", "Location"}]
MediaUnset == [VirtualMedia |-> {"Inserted", "WriteProtected"}]

UnsetOf ==
    RoleUnset @@ DirectoryUnset @@ LogUnset @@ EventUnset @@ UpdateUnset @@ CertificateUnset
    @@ NetworkUnset @@ SyslogUnset @@ RadiusUnset @@ ServiceUnset @@ ReadingUnset @@ PowerUnset
    @@ StorageUnset @@ ComputerUnset @@ MachineUnset @@ MediaUnset @@ [k \in Kinds |-> {}]
=============================================================================
