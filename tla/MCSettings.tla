------------------------------ MODULE MCSettings ------------------------------
(***************************************************************************)
(* Settings, with the members that a handler treats together.              *)
(***************************************************************************)
EXTENDS Settings

MCGroups == [
    AccountService |-> {
        {MinLength, MaxLength, "ServiceEnabled"},
        {"LDAP.ServiceEnabled", "ActiveDirectory.ServiceEnabled", "LDAP.PasswordSet"},
        {"LDAP.ServiceEnabled", "ActiveDirectory.ServiceEnabled", "ActiveDirectory.Port"},
        {"LDAP.PasswordSet", "LDAP.Authentication", "LDAP.BaseDistinguishedNames"}},
    NetworkProtocol |-> {
        {"NTP.ProtocolEnabled", "NTP.TimeZone", "NTP.Date", "NTP.Time"},
        {"NTP.ProtocolEnabled", "NTP.PrimaryNTPServer", "NTP.SecondaryNTPServer", "NTP.Date"},
        {"SNMP.ProtocolEnabled"} \cup ToSet(Versions),
        {"SNMP.ProtocolEnabled", "SNMP.EnableSNMPv2c", "SNMP.CommunityStrings", "SNMP.Port"},
        {"SNMP.ProtocolEnabled", "SNMP.EnableSNMPv3", "SNMP.EncryptionProtocol",
         "NTP.TimeZone"}},
    SyslogService |-> {{"EnableSyslog", "SyslogPortNumber", "SyslogServer"}},
    Systems |-> {{"IndicatorLED", "HostName", "Boot"}},
    Chassis |-> {{"IndicatorLED", "AssetTag", "Location"}},
    EventService |->
        {{"DeliveryRetryAttempts", "DeliveryRetryIntervalSeconds", "ServiceEnabled"}},
    EventDestination |-> {{"Context", "DeliveryRetryPolicy"}},
    LogService |-> {{"ServiceEnabled", "DateTimeLocalOffset", "SyslogFilters"}},
    PowerControl |-> {{"PowerAllocatedWatts", "PowerAvailableWatts", "PowerLimit"}}]
=============================================================================
