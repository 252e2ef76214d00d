----------------------------- MODULE Identities -----------------------------
(***************************************************************************)
(* Who is asking: config.py reads the configuration, http/auth.py makes    *)
(* identities of it and compares credentials, and http/forwarded.py says   *)
(* what to believe of a proxy (http/headers.py follows the scheme).        *)
(*                                                                         *)
(* A configuration is what a variable or a secret file holds: None, Blank, *)
(* Junk (no JSON object), or a function from names to secrets.  An         *)
(* Authorization header is a scheme and the pair it decodes to, or Junk.   *)
(* A network is a set of addresses.                                        *)
(***************************************************************************)

CONSTANTS
  None, Junk, Unreadable,
  UsersInFile,     \* QUERYPILOT_USERS_FILE is set
  UsersVariable,   \* QUERYPILOT_USERS
  Blank,           \* empty, or only spaces: a name, a secret, a variable
  TrustedProxies,  \* QUERYPILOT_TRUSTED_PROXIES: None, Junk or networks
  DefaultProxies,  \* DEFAULT_TRUSTED_PROXIES
  Addresses        \* what ipaddress.ip_address accepts

\* read_secret_file: a file that is missing, not permitted or not text.
ReadSecretFile(file) == IF file = Unreadable THEN None ELSE file

\* get_secret: a file that cannot be read does not fall back to the variable.
GetSecret(file) == IF UsersInFile THEN ReadSecretFile(file) ELSE UsersVariable

SecretStatus(file) ==
  IF UsersInFile
  THEN [source |-> "file", readable |-> ReadSecretFile(file) # None]
  ELSE [source |-> IF UsersVariable \in {None, Blank} THEN "unset" ELSE "environment",
        readable |-> UsersVariable \notin {None, Blank}]

\* load_identities: any entry that is not a name and a secret fails the whole
\* configuration (None).
LoadIdentities(raw) ==
  IF raw \in {None, Blank, Junk} THEN None
  ELSE IF DOMAIN raw = {} \/ Blank \in DOMAIN raw THEN None
  ELSE IF \E name \in DOMAIN raw : raw[name] \in {Blank, Junk} THEN None
  ELSE raw

ParseBasic(header) ==
  IF header = None THEN None
  ELSE IF header.scheme # "basic" \/ header.decoded = Junk THEN None
  ELSE header.decoded

Verify(identities, presented) ==
  IF presented.username \in DOMAIN identities
  THEN IF identities[presented.username] = presented.password
       THEN presented.username ELSE None
  ELSE None

\* Whom identities that loaded, or did not, make of a header.
Identify(identities, header) ==
  IF identities = None \/ ParseBasic(header) = None THEN None
  ELSE Verify(identities, ParseBasic(header))

OpenPaths == {"/health"}
IsOpen(path) == path \in OpenPaths

----------------------------------------------------------------------------

TrustedNetworks ==
  IF TrustedProxies = None THEN DefaultProxies ELSE TrustedProxies

IsTrusted(host) == host \in Addresses /\ \E n \in TrustedNetworks : host \in n

\* TrustConfigurationError, which only a request that would use the networks
\* meets: neither of its headers is believed then.
TrustFails(request) ==
  /\ TrustedNetworks = Junk
  /\ request.host \in Addresses
  /\ {request.proto, request.forwardedFor} # {None}

ResolveScheme(request) ==
  IF TrustFails(request) \/ request.proto = None THEN request.scheme
  ELSE IF IsTrusted(request.host) /\ request.proto \in {"http", "https"}
  THEN request.proto
  ELSE request.scheme

ResolveClient(request) ==
  IF TrustFails(request) \/ request.forwardedFor = None THEN request.host
  ELSE IF IsTrusted(request.host) /\ request.forwardedFor \in Addresses
  THEN request.forwardedFor
  ELSE request.host

\* headers.apply gives every reply the same headers, and one that came over TLS
\* Strict-Transport-Security.
OverTls(request) == ResolveScheme(request) = "https"
=============================================================================
