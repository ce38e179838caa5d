---------------------------- MODULE ResourceMakers ----------------------------
(***************************************************************************)
(* What gives the members of a new resource their values: the init_*       *)
(* functions of the first start (init.cpp), the handlers that make one on  *)
(* a request (task.cpp), and the bring_* functions that copy one from a    *)
(* module (chassis_controller.cpp).                                        *)
(*                                                                         *)
(* A table has the members that are shown and that neither the maker nor   *)
(* the constructor it calls gives a value.                                 *)
(***************************************************************************)
EXTENDS ResourceKinds

(***************************************************************************)
(* init_*                                                                  *)
(***************************************************************************)
\* The constructor of the root makes the certificate service too; collections and lists are made,
\* and named, by the constructors of what holds them.
RootLeaves ==
    [k \in {"ServiceRoot", "CertificateService", "CertificateLocation", "Collection", "List"} |-> {}]
SystemLeaves == [Systems |-> {}]
StorageLeaves == [Storage |-> {"Name"}]
StorageControllersLeaves == [StorageControllers |-> {"Name"}]
DriveLeaves == [Drive |-> {}]
VolumeLeaves == [Volume |-> {}]
ProcessorLeaves == [Processors |-> {}]
MemoryLeaves == [Memory |->
    {"Name", "RankCount", "DataWidthBits", "BusWidthBits", "ErrorCorrection", "MemoryType",
     "MemoryDeviceType", "BaseModuleType", "MaxTDPMilliWatts", "MemoryLocation", "MemoryMedia"}]
LogServiceLeaves == [LogService |-> {"Name", "DateTime"}]
LogEntryLeaves == [LogEntry |->
    {"SensorType", "EntryCode", "EventId", "EventTimeStamp", "EventType"}]
SimpleStorageLeaves == [SimpleStorage |->
    {"Name", "Description", "UefiDevicePath", "Devices.FileSystem"}]
BiosLeaves == [Bios |-> {}]
ChassisLeaves == [Chassis |-> {}]
SensorLeaves == [Sensor |->
    {"Name", "ReadingType", "ReadingTime", "ReadingUnits", "SensingInterval", "PhysicalContext",
     "Status"}]
\* init_thermal gives the fans a reading and a status; nothing else of a reading is given.
ThermalLeaves == [
    Thermal |-> {}, Temperature |-> DOMAIN TemperatureMembers \ {"MemberId"},
    Fan |-> DOMAIN FanMembers \ {"MemberId", "Reading", "Status"}]
PowerLeaves == [
    Power |-> {}, PowerControl |-> DOMAIN PowerControlMembers \ {"MemberId"},
    Voltage |-> DOMAIN VoltageMembers \ {"MemberId"},
    PowerSupply |-> DOMAIN PowerSupplyMembers \ {"MemberId"}]
\* A manager and its network protocol have a name of their own, which get_json does not show.
ManagerLeaves == [Manager |-> {"Name"}, SyslogService |-> {}, Radius |-> {}]
NetworkProtocolLeaves == [NetworkProtocol |-> {"Name"}]
VirtualMediaLeaves == [VirtualMedia |->
    {"Image", "ImageName", "UserName", "Password", "Size", "CreateTime"}]
UpdateServiceLeaves == [UpdateService |-> {"Name"}]
SoftwareInventoryLeaves == [SoftwareInventory |-> {"Name", "SoftwareId", "UefiDevicePaths"}]
TaskServiceLeaves == [TaskService |-> {}]
EventServiceLeaves == [EventService |->
    {"Name", "Id", "ServerSentEventUri", "EventTypesForSubscription"}]
\* init_account_service makes the roles, the first accounts and their certificate too.
AccountLeaves == [
    AccountService |-> {}, Account |-> {}, Role |-> {},
    Certificate |-> {"Name", "Id", "Issuer", "Subject", "ValidNotBefore", "ValidNotAfter",
                     "Email", "KeyBitLength", "KeyUsage"}]
SessionServiceLeaves == [SessionService |-> {}]
MessageRegistryLeaves == [MessageRegistry |-> {}]

InitLeaves ==
    RootLeaves @@ SystemLeaves @@ StorageLeaves @@ StorageControllersLeaves @@ DriveLeaves
    @@ VolumeLeaves @@ ProcessorLeaves @@ MemoryLeaves @@ LogServiceLeaves @@ LogEntryLeaves
    @@ SimpleStorageLeaves @@ BiosLeaves @@ ChassisLeaves @@ SensorLeaves @@ ThermalLeaves
    @@ PowerLeaves @@ ManagerLeaves @@ NetworkProtocolLeaves @@ VirtualMediaLeaves
    @@ UpdateServiceLeaves @@ SoftwareInventoryLeaves @@ TaskServiceLeaves @@ EventServiceLeaves
    @@ AccountLeaves @@ SessionServiceLeaves @@ MessageRegistryLeaves

(***************************************************************************)
(* The handlers of requests.                                               *)
(***************************************************************************)
MakeAccountLeaves == [Account |-> {}]
MakeSessionLeaves == [Session |-> {}]
\* make_role leaves out whether the role is predefined.
MakeRoleLeaves == [Role |-> {"IsPredefined"}]
MakeSubscriptionLeaves == [EventDestination |-> {}]
MakeTaskLeaves == [Task |-> {"EndTime"}]

RequestLeaves ==
    MakeAccountLeaves @@ MakeSessionLeaves @@ MakeRoleLeaves @@ MakeSubscriptionLeaves
    @@ MakeTaskLeaves

(***************************************************************************)
(* bring_*: most read what the module shows with load_json, the others     *)
(* member by member.                                                       *)
(***************************************************************************)
Copied(k) == {m \in DOMAIN Shown[k] : Shown[k][m] # NotRead}

BroughtSystem == [Systems |-> (DOMAIN SystemsMembers) \ {"Name"}]
BroughtBios == [Bios |-> Copied("Bios")]
BroughtStorage == [Storage |-> {"Id", "Description", "Status"}]
BroughtStorageControllers ==
    [StorageControllers |-> (DOMAIN StorageControllersMembers) \ {"Name"}]
BroughtDrive == [Drive |-> DOMAIN DriveMembers]
BroughtParts == [k \in {"Volume", "Processors", "Memory"} |-> Copied(k)]
BroughtServices ==
    [k \in {"EthernetInterfaces", "LogService", "LogEntry", "SimpleStorage"} |-> Copied(k)]
BroughtManager == [k \in {"Manager", "NetworkProtocol", "Radius"} |-> Copied(k)]
BroughtVirtualMedia == [VirtualMedia |-> Copied("VirtualMedia")]
BroughtChassis == [k \in {"Chassis", "Thermal", "Power"} |-> Copied(k)]
BroughtReadings ==
    [k \in {"Temperature", "Fan", "PowerControl", "Voltage", "PowerSupply", "Sensor"} |->
        Copied(k)]
BroughtInventory == [SoftwareInventory |-> Copied("SoftwareInventory")]

Brought ==
    BroughtSystem @@ BroughtBios @@ BroughtStorage @@ BroughtStorageControllers @@ BroughtDrive
    @@ BroughtParts @@ BroughtServices @@ BroughtManager @@ BroughtVirtualMedia @@ BroughtChassis
    @@ BroughtReadings @@ BroughtInventory

(***************************************************************************)
(* Who can make a resource of a class, and what it then has no value of.   *)
(***************************************************************************)
Makers(k) ==
    (IF k \in DOMAIN InitLeaves THEN {"init"} ELSE {})
    \cup (IF k \in DOMAIN RequestLeaves THEN {"request"} ELSE {})
    \cup (IF k \in DOMAIN Brought THEN {"module"} ELSE {})

Leaves(k, maker) ==
    CASE maker = "init" -> InitLeaves[k]
      [] maker = "request" -> RequestLeaves[k]
      [] maker = "module" -> (DOMAIN Shown[k]) \ Brought[k]
=============================================================================
