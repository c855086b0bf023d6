------------------------------- MODULE Names -------------------------------
(***************************************************************************)
(* The names derived from CONFIG_APP_SYSTEM_NAME: the mDNS host and        *)
(* instance names (components/mdns_service/mdns_name.c), the BLE service   *)
(* name (components/provisioning/provisioning_logic.c) and the copy the    *)
(* HTTP server keeps.  A name is a sequence of ASCII codes.                *)
(***************************************************************************)
EXTENDS Integers, SequencesExt

CONSTANTS
    DefaultName,    \* MDNS_ and PROVISIONING_DEFAULT_SYSTEM_NAME
    MaxLabel,       \* MDNS_MAX_LABEL_LEN
    Suffix,         \* MDNS_LOCAL_SUFFIX
    Prefix,         \* "PROV_"
    ServiceSize,    \* the caller's buffer for the BLE service name
    SystemSize      \* HTTP_SERVER_NAME_MAX

\* The default has a letter or a digit, and the prefix fits its buffer.
ASSUME NamesAssumption ==
    /\ MaxLabel \in Nat \ {0} /\ SystemSize \in Nat \ {0}
    /\ DefaultName \in Seq(Nat) /\ Suffix \in Seq(Nat) /\ Prefix \in Seq(Nat)
    /\ \E k \in DOMAIN DefaultName : DefaultName[k] \in (65 .. 90) \cup (97 .. 122) \cup (48 .. 57)
    /\ ServiceSize \in Nat /\ Len(Prefix) < ServiceSize

Upper == 65 .. 90
Lower == 97 .. 122
Digit == 48 .. 57
Dash  == 45

HostnameSize == MaxLabel + Len(Suffix) + 1      \* MDNS_MAX_HOSTNAME_LEN

\* mdns_normalize_char.
Normalized(c) == IF c \in Upper THEN c + 32
                 ELSE IF c \in Lower \cup Digit \cup {Dash} THEN c ELSE Dash

\* A string cut to what a buffer holds beside its NUL.
Cut(s, size) == SubSeq(s, 1, IF Len(s) < size THEN Len(s) ELSE size - 1)

Untrailed(s) == SubSeq(s, 1, Max({0} \cup {k \in DOMAIN s : s[k] # Dash}))

\* Leading dashes are skipped, the rest is kept as long as there is room.
Extended(label, c) ==
    IF Len(label) = MaxLabel \/ (Normalized(c) = Dash /\ label = <<>>)
    THEN label ELSE Append(label, Normalized(c))

\* The loop of mdns_sanitize.
Mapped(src) ==
    LET label[n \in 0 .. Len(src)] ==
            IF n = 0 THEN <<>> ELSE Extended(label[n - 1], src[n])
    IN  label[Len(src)]

\* Mutant of Sanitized: the trailing dashes go before the label is cut.
SanitizedEarly(src) == Mapped(Untrailed(src))

\* mdns_sanitize.
Sanitized(src) == Untrailed(Mapped(src))

\* An empty name stands for the default.
Source(system) == IF system = <<>> THEN DefaultName ELSE system

\* mdns_build_hostname, whose buffer always has room; and its label.
Label(system) == IF Sanitized(Source(system)) # <<>> THEN Sanitized(Source(system))
                 ELSE Sanitized(DefaultName)

Hostname(system) == Label(system) \o Suffix

\* mdns_build_instance_name refuses what does not fit.
InstanceFits(system) == Len(Source(system)) < HostnameSize

\* provisioning_build_name, and the strncpy of http_server_start.
ServiceName(system) == Cut(Prefix \o Source(system), ServiceSize)
ServerName(system)  == Cut(system, SystemSize)
=============================================================================
