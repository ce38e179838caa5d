----------------------------- MODULE PatchHandlers -----------------------------
(***************************************************************************)
(* The PATCH handlers of task.cpp: which members of a resource each takes, *)
(* in which order, and what it does about a value that will not do.        *)
(*                                                                         *)
(* A body asks for values of some members: asked is a function on them.    *)
(* "a" and "b" are two values that will do, true and false for a switch;   *)
(* "bad" is one of the right type that will not, or what is not an array   *)
(* where one is read in a try.  A member of the wrong type is not found by *)
(* get_value_from_json_key: it is as if it were not asked for.  Left out   *)
(* is a CommunityStrings that is not an array: patch_network_protocol      *)
(* reads it outside of any try, and no answer is given.                    *)
(***************************************************************************)
EXTENDS ResourceMakers, SequencesExt, Integers

On == "a"
Off == "b"

\* The switches that init_* turns off and that a handler looks at.
OffAtInit ==
    {"LDAP.ServiceEnabled", "LDAP.PasswordSet", "ActiveDirectory.ServiceEnabled",
     "NTP.ProtocolEnabled", "SNMP.ProtocolEnabled", "SNMP.EnableSNMPv1", "SNMP.EnableSNMPv2c",
     "SNMP.EnableSNMPv3", "SNMP.HideCommunityStrings"}
\* What init_* gives a member; NTP starts without a time zone.
InitValue(m) == IF m \in OffAtInit THEN Off ELSE IF m = "NTP.TimeZone" THEN "blank" ELSE "init"

\* A handler under way: the members, whether it will answer OK, whether it has taken a
\* member, and whether it has returned.
Started(mem) == [mem |-> mem, ok |-> TRUE, any |-> FALSE, stopped |-> FALSE]
Held(s, m) == IF m \in DOMAIN s.mem THEN s.mem[m] ELSE InitValue(m)
Set(s, m, v) == IF m \in DOMAIN s.mem THEN [s EXCEPT !.mem[m] = v] ELSE s
Stop(s) == [s EXCEPT !.ok = FALSE, !.stopped = TRUE]

(***************************************************************************)
(* The common form: a member that is found is checked and assigned, one    *)
(* after the other.  "wrong" says what becomes of a value that will not    *)
(* do: it is left out and nothing said ("skip"), the answer is an error    *)
(* but the handler goes on ("fail"), it returns at once ("stop"), or it    *)
(* does after it has put something else there ("half").                    *)
(***************************************************************************)
Step(m, wrong) == [member |-> m, wrong |-> wrong]
Plain(ms) == [i \in DOMAIN ms |-> Step(ms[i], "never")]

\* A step the handler returns at.
Stops(asked, step) ==
    /\ step.member \in DOMAIN asked /\ asked[step.member] = "bad"
    /\ step.wrong \in {"stop", "half"}

\* The steps whose member is asked for and that the handler comes to: none after one it
\* returns at.
Reached(s, asked, steps) ==
    {steps[i] : i \in {j \in DOMAIN steps :
        /\ ~s.stopped /\ steps[j].member \in DOMAIN asked
        /\ \A before \in 1 .. j - 1 : ~Stops(asked, steps[before])}}

\* What the steps do, one after the other; no member is in two of them.
Through(s, asked, steps) ==
    LET reached == Reached(s, asked, steps)
        taken == {step \in reached : asked[step.member] # "bad"}
    IN [mem |-> [m \in DOMAIN s.mem |->
                    IF \E step \in taken : step.member = m THEN asked[m]
                    ELSE IF Step(m, "half") \in reached THEN "other" ELSE s.mem[m]],
        ok |-> s.ok /\ \A step \in reached \ taken : step.wrong = "skip",
        any |-> s.any \/ taken # {},
        stopped |-> s.stopped \/ \E step \in reached : Stops(asked, step)]

\* The handlers that start with result = false: a body without a member they take is an error.
TakenOnly(s) == [s EXCEPT !.ok = @ /\ s.any]

(***************************************************************************)
(* patch_account_service                                                   *)
(***************************************************************************)
MinLength == "MinPasswordLength"
MaxLength == "MaxPasswordLength"
\* Their values in order: 6 and 24 at first, then a and b.
Length(m, v) == CASE v = "a" -> 20 [] v = "b" -> 40
                  [] v = "init" -> IF m = MinLength THEN 6 ELSE 24

\* A faulty variant: each limit is checked against the other one of before.
PatchLengthsApart(s, asked) ==
    LET ask == {MinLength, MaxLength} \cap DOMAIN asked
        After(m) == IF m \in ask THEN asked[m] ELSE Held(s, m)
    IN IF \/ \E m \in ask : asked[m] = "bad"
          \/ Length(MinLength, After(MinLength)) > Length(MaxLength, Held(s, MaxLength))
          \/ Length(MinLength, Held(s, MinLength)) > Length(MaxLength, After(MaxLength))
       THEN Stop(s)
       ELSE Set(Set(s, MaxLength, After(MaxLength)), MinLength, After(MinLength))

\* The two limits are checked together; zero will not do.
PatchLengths(s, asked) ==
    LET ask == {MinLength, MaxLength} \cap DOMAIN asked
        After(m) == IF m \in ask THEN asked[m] ELSE Held(s, m)
    IN IF ask = {} THEN s
       ELSE IF \/ \E m \in ask : asked[m] = "bad"
               \/ Length(MinLength, After(MinLength)) > Length(MaxLength, After(MaxLength))
       THEN Stop(s)
       ELSE Set(Set(s, MaxLength, After(MaxLength)), MinLength, After(MinLength))

\* A faulty variant: the other one stays as it is.
SwitchDirectoryOnly(s, asked, this, that) ==
    IF s.stopped \/ this \notin DOMAIN asked THEN s ELSE Set(s, this, asked[this])

\* One directory that is turned on turns the other off.
SwitchDirectory(s, asked, this, that) ==
    IF s.stopped \/ this \notin DOMAIN asked THEN s
    ELSE Set(IF asked[this] = On THEN Set(s, that, Off) ELSE s, this, asked[this])

\* The password is only taken with PasswordSet, and PasswordSet only with credentials.
PatchPasswordSet(s, asked) ==
    LET set == "LDAP.PasswordSet"
        auth == "LDAP.Authentication"
    IN IF s.stopped \/ set \notin DOMAIN asked THEN s
       ELSE IF asked[set] = Off THEN Set(s, set, Off)
       ELSE IF auth \notin DOMAIN asked THEN Stop(s)
       ELSE Set(Set(s, auth, asked[auth]), set, On)

PatchLdap(s, asked) ==
    Through(PatchPasswordSet(SwitchDirectory(s, asked, "LDAP.ServiceEnabled",
                                             "ActiveDirectory.ServiceEnabled"), asked),
            asked, <<Step("LDAP.ServiceAddresses", "stop"),
                     Step("LDAP.BaseDistinguishedNames", "half")>>)

PatchActiveDirectory(s, asked) ==
    Through(SwitchDirectory(s, asked, "ActiveDirectory.ServiceEnabled", "LDAP.ServiceEnabled"),
            asked, <<Step("ActiveDirectory.Port", "fail"),
                     Step("ActiveDirectory.ServiceAddresses", "half"),
                     Step("ActiveDirectory.Authentication", "never")>>)

PatchAccountServiceMembers(s, asked) ==
    LET switches == Plain(<<"ServiceEnabled", "AuthFailureLoggingThreshold",
                            "AccountLockoutThreshold", "AccountLockoutDuration",
                            "AccountLockoutCounterResetAfter",
                            "AccountLockoutCounterResetEnabled">>)
    IN PatchActiveDirectory(PatchLdap(Through(PatchLengths(s, asked), asked, switches), asked),
                            asked)

PatchSessionServiceMembers(s, asked) ==
    Through(s, asked, Plain(<<"SessionTimeout", "ServiceEnabled">>))

PatchManager(s, asked) ==
    TakenOnly(Through(s, asked, Plain(<<"Description", "DateTime", "DateTimeLocalOffset">>)))

(***************************************************************************)
(* patch_network_protocol                                                  *)
(***************************************************************************)
Versions == <<"SNMP.EnableSNMPv1", "SNMP.EnableSNMPv2c", "SNMP.EnableSNMPv3">>

\* The three versions are all written into enable_SNMPv1: the last that is asked for stays.
PatchVersions(s, asked) ==
    LET ask == {i \in DOMAIN Versions : Versions[i] \in DOMAIN asked}
    IN IF ask = {} THEN s ELSE Set(s, Versions[1], asked[Versions[Max(ask)]])

\* The first version that is asked to be on says which of the other members are looked at.
\* Community strings are added to those there are.
PatchVersionMembers(s, asked) ==
    LET wanted == SelectSeq(Versions, LAMBDA v : v \in DOMAIN asked /\ asked[v] = On)
        strings == "SNMP.CommunityStrings"
        plain == Through(s, asked, Plain(<<"SNMP.HideCommunityStrings",
                                           "SNMP.CommunityAccessMode">>))
    IN IF wanted = <<>> THEN s
       ELSE IF wanted[1] = Versions[3]
       THEN Through(s, asked, Plain(<<"SNMP.AuthenticationProtocol", "SNMP.EncryptionProtocol">>))
       ELSE IF strings \notin DOMAIN asked THEN plain
       ELSE Set(plain, strings, IF Held(s, strings) = "init" THEN asked[strings] ELSE "both")

\* Without ProtocolEnabled nothing of SNMP is looked at; off, everything of it starts anew.
PatchSnmp(s, asked) ==
    LET switch == "SNMP.ProtocolEnabled"
        port == Plain(<<"SNMP.Port">>)
    IN IF switch \notin DOMAIN asked THEN s
       ELSE IF asked[switch] = Off
       THEN [s EXCEPT !.mem = [m \in DOMAIN @ |->
                                  IF m \in DOMAIN SnmpMembers THEN InitValue(m) ELSE @[m]]]
       ELSE PatchVersionMembers(
                Through(PatchVersions(Set(s, switch, On), asked), asked, port), asked)

Ports ==
    <<"IPMI.ProtocolEnabled", "IPMI.Port", "KVMIP.ProtocolEnabled", "KVMIP.Port",
      "HTTP.ProtocolEnabled", "HTTP.Port", "HTTPS.ProtocolEnabled", "HTTPS.Port",
      "SSH.ProtocolEnabled", "SSH.Port">>

PatchPorts(s, asked) == Through(s, asked, Plain(Ports))

\* A secondary server is only looked at with a primary one.
PatchTimeServers(s, asked) ==
    LET primary == "NTP.PrimaryNTPServer"
    IN IF primary \notin DOMAIN asked THEN s
       ELSE Through(s, asked, Plain(<<primary, "NTP.SecondaryNTPServer">>))

\* The date and the time become those of the system once either has been set.
PatchDate(s, asked) ==
    LET ask == {"NTP.Date", "NTP.Time"} \cap DOMAIN asked
    IN IF ask = {} THEN s
       ELSE IF \E m \in ask : asked[m] = "bad" THEN Stop(s)
       ELSE Set(Set(s, "NTP.Date", "other"), "NTP.Time", "other")

\* A faulty variant: the date and the time are looked at after the zone too.
PatchZoneAndDate(s, asked) ==
    LET zone == "NTP.TimeZone"
    IN IF zone \notin DOMAIN asked THEN PatchDate(s, asked)
       ELSE IF asked[zone] = "bad" THEN Stop(s)
       ELSE PatchDate(Set(s, zone, asked[zone]), asked)

\* A new time zone goes before the date and the time, which are then left out.
PatchZone(s, asked) ==
    LET zone == "NTP.TimeZone"
    IN IF zone \notin DOMAIN asked \/ asked[zone] = Held(s, zone) THEN PatchDate(s, asked)
       ELSE IF asked[zone] = "bad" THEN Stop(s)
       ELSE Set(s, zone, asked[zone])

NtpMentioned(asked) == DOMAIN NtpMembers \cap DOMAIN asked # {}

PatchNtp(s, asked) ==
    LET switch == "NTP.ProtocolEnabled"
        on == (IF switch \in DOMAIN asked THEN asked[switch] ELSE Held(s, switch)) = On
        r == IF on THEN PatchTimeServers(s, asked) ELSE PatchZone(s, asked)
    IN IF ~NtpMentioned(asked) THEN s
       ELSE IF r.stopped THEN r ELSE Set(r, switch, IF on THEN On ELSE Off)

PatchNetworkProtocol(s, asked) ==
    PatchNtp(PatchPorts(PatchSnmp(Through(s, asked, Plain(<<"Description">>)), asked), asked),
             asked)

(***************************************************************************)
(* The other handlers                                                      *)
(***************************************************************************)
\* patch_syslog answers OK whatever it has left out.
PatchSyslog(s, asked) ==
    Through(s, asked, <<Step("EnableSyslog", "never"), Step("SyslogPortNumber", "skip"),
                        Step("SyslogServer", "skip")>>)

PatchSystem(s, asked) ==
    Through(s, asked, <<Step("IndicatorLED", "stop"), Step("Description", "never"),
                        Step("HostName", "never"), Step("AssetTag", "never"),
                        Step("Boot", "never")>>)

\* A faulty variant: the location is not looked at.
PatchChassisBare(s, asked) ==
    TakenOnly(Through(s, asked, <<Step("IndicatorLED", "stop"), Step("AssetTag", "never")>>))

PatchChassis(s, asked) ==
    TakenOnly(Through(s, asked, <<Step("IndicatorLED", "stop"), Step("AssetTag", "never"),
                                  Step("Location", "never")>>))

PatchPowerControl(s, asked) == TakenOnly(Through(s, asked, Plain(<<"PowerLimit">>)))

PatchDrive(s, asked) == TakenOnly(Through(s, asked, Plain(<<"AssetTag">>)))

\* A faulty variant: every member is assigned once it is checked.
OneByOne(s, asked, ms) ==
    TakenOnly(Through(s, asked, [i \in DOMAIN ms |-> Step(ms[i], "stop")]))

\* The event service and its subscriptions check every member before they assign one.
AllOrNone(s, asked, ms) ==
    LET ask == ToSet(ms) \cap DOMAIN asked
    IN IF ask = {} \/ \E m \in ask : asked[m] = "bad" THEN Stop(s)
       ELSE Through(s, asked, Plain(ms))

PatchEventService(s, asked) ==
    AllOrNone(s, asked,
              <<"DeliveryRetryAttempts", "DeliveryRetryIntervalSeconds", "ServiceEnabled">>)

PatchSubscription(s, asked) == AllOrNone(s, asked, <<"Context", "DeliveryRetryPolicy">>)

\* Filters that will do are stored one by one, until an error (here or before) stops it.
PatchLogService(s, asked) ==
    LET r == Through(s, asked, <<Step("ServiceEnabled", "never"),
                                 Step("DateTimeLocalOffset", "fail")>>)
        filters == "SyslogFilters"
    IN IF r.ok THEN Through(r, asked, <<Step(filters, "half")>>) ELSE r

(***************************************************************************)
(* By class.                                                               *)
(***************************************************************************)
\* The members the handler of a class looks at, and those with values that will not do.
Patchable == [
    AccountService |-> ({MinLength, MaxLength, "ServiceEnabled"} \cup Lockout
        \cup DOMAIN DirectoryMembers)
        \ {"LDAP.Port", "LDAP.AccountProviderType", "ActiveDirectory.AccountProviderType",
           "LDAP.SearchSettings"},
    SessionService |-> {"SessionTimeout", "ServiceEnabled"},
    Manager |-> {"Description", "DateTime", "DateTimeLocalOffset"},
    NetworkProtocol |->
        ({"Description"} \cup DOMAIN NtpMembers \cup DOMAIN SnmpMembers \cup ToSet(Ports))
        \ {"NTP.Port", "NTP.NTPServers", "SNMP.EngineId"},
    SyslogService |-> {"EnableSyslog", "SyslogPortNumber", "SyslogServer"},
    Systems |-> {"IndicatorLED", "Description", "HostName", "AssetTag", "Boot"},
    Chassis |-> {"IndicatorLED", "AssetTag", "Location"},
    PowerControl |-> {"PowerLimit"},
    Drive |-> {"AssetTag"},
    EventService |-> {"DeliveryRetryAttempts", "DeliveryRetryIntervalSeconds", "ServiceEnabled"},
    EventDestination |-> {"Context", "DeliveryRetryPolicy"},
    LogService |-> {"ServiceEnabled", "DateTimeLocalOffset", "SyslogFilters"}]
Checked ==
    {MinLength, MaxLength, "LDAP.ServiceAddresses", "LDAP.BaseDistinguishedNames",
     "ActiveDirectory.Port", "ActiveDirectory.ServiceAddresses", "NTP.TimeZone", "NTP.Date",
     "NTP.Time", "SyslogPortNumber", "SyslogServer", "IndicatorLED", "DeliveryRetryAttempts",
     "DeliveryRetryIntervalSeconds", "DeliveryRetryPolicy", "SyslogFilters"}

\* The time-zone offset of a log is checked, that of a manager is not.
CanBeBad(k, m) == m \in Checked \/ (k = "LogService" /\ m = "DateTimeLocalOffset")

Patched(k, mem, asked) ==
    LET s == Started(mem) IN
    CASE k = "AccountService" -> PatchAccountServiceMembers(s, asked)
      [] k = "SessionService" -> PatchSessionServiceMembers(s, asked)
      [] k = "Manager" -> PatchManager(s, asked)
      [] k = "NetworkProtocol" -> PatchNetworkProtocol(s, asked)
      [] k = "SyslogService" -> PatchSyslog(s, asked)
      [] k = "Systems" -> PatchSystem(s, asked)
      [] k = "Chassis" -> PatchChassis(s, asked)
      [] k = "PowerControl" -> PatchPowerControl(s, asked)
      [] k = "Drive" -> PatchDrive(s, asked)
      [] k = "EventService" -> PatchEventService(s, asked)
      [] k = "EventDestination" -> PatchSubscription(s, asked)
      [] k = "LogService" -> PatchLogService(s, asked)
=============================================================================
