------------------------------- MODULE Config -------------------------------
(***************************************************************************)
(* What the two programs make of their environment: read_server_config in  *)
(* crates/outlay/src/config.rs and read_shim_config in                     *)
(* crates/outlay-shim/src/config.rs.  The crates share no code.            *)
(*                                                                         *)
(* An environment is a record of raw values, None for an unset variable.   *)
(* A number that does not parse is None too: `.parse().ok()` makes them    *)
(* alike.  A list is the sequence of its trimmed items, blanks included.   *)
(* A configuration that is refused is None.                                *)
(***************************************************************************)
EXTENDS Naturals, Sequences, FiniteSets

CONSTANTS
    Default,        \* the relay in default_cvm_relay_urls, default_relay_urls
    DefaultListen,  \* the port of the shim's default listen_addr
    Bundled,        \* whether outlay has the bundled-relay feature
    None

ASSUME ConfigAssumption == Bundled \in BOOLEAN /\ DefaultListen \in Nat \ {0}

Blank == ""

OptString(raw) == IF raw = Blank THEN None ELSE raw

\* unwrap_or
Or(value, default) == IF value = None THEN default ELSE value

\* The items that are not blank, in their order: the n-th of them is the one up
\* to which there are n.
NonBlank(list) ==
    LET kept   == {i \in DOMAIN list : list[i] # Blank}
        Nth(n) == CHOOSE i \in kept : Cardinality({j \in kept : j <= i}) = n
    IN [n \in 1..Cardinality(kept) |-> list[Nth(n)]]

\* Wrong variant: a list of blanks is taken as it is.
RelaysOf_keepsEmpty(raw) == IF raw = None THEN <<Default>> ELSE NonBlank(raw)

\* The relays to listen on or to dial: unset, or only blanks, is the default.
RelaysOf(raw) ==
    IF raw = None \/ NonBlank(raw) = <<>> THEN <<Default>> ELSE NonBlank(raw)

\* OUTLAY_SHIM_PUBLIC_URLS: unset is no URL.
PublicOf(raw) == IF raw = None THEN <<>> ELSE NonBlank(raw)

GiftWrapModes == {"ephemeral", "persistent", "optional"}

EncryptionModes == {"optional", "disabled", "required"}

\* Flags: outlay takes them as they are spelled, the shim in any case.
Truthy == {"true", "1"}

Falsy == {"false", "0"}

OptBool(raw) == OptString(raw)

OptBoolEnv(raw) == CASE raw = "TRUE" -> "true" [] raw = "FALSE" -> "false"
                     [] OTHER -> OptString(raw)

IsFlag(flag) == flag \in Truthy \cup Falsy \cup {None}

Flag(flag, default) == IF flag = None THEN default ELSE flag \in Truthy

-----------------------------------------------------------------------------

\* Wrong variant: outlay's wraps are stored by default, the shim's are not.
ServerGiftWrap_persistent(raw) == Or(OptString(raw), "persistent")

ServerGiftWrap(raw) == Or(OptString(raw), "ephemeral")

\* Wrong variant: the bundled relay is volatile unless told otherwise.
BackendOf_volatile(raw) == IF raw = "sqlite" THEN "Sqlite" ELSE "Memory"

\* Anything but "memory" is SQLite.
BackendOf(raw) == IF Or(OptString(raw), "sqlite") = "memory" THEN "Memory" ELSE "Sqlite"

ReadServerConfig(env) ==
    IF \/ OptString(env.proxy) = None /\ ~Bundled
       \/ ServerGiftWrap(env.gift) \notin GiftWrapModes
       \/ ~IsFlag(OptBool(env.announced))
    THEN None
    ELSE [proxy     |-> OptString(env.proxy),
          relays    |-> RelaysOf(env.relays),
          gift      |-> ServerGiftWrap(env.gift),
          announced |-> Flag(OptBool(env.announced), FALSE),
          backend   |-> BackendOf(env.backend),
          db        |-> Or(OptString(env.db), "outlay-relay.db"),
          port      |-> Or(env.port, 0)]

ReadShimConfig(env) ==
    LET encryption == Or(OptString(env.encryption), "optional")
        gift       == Or(OptString(env.gift), "ephemeral")
    IN IF \/ encryption \notin EncryptionModes \/ gift \notin GiftWrapModes
          \/ ~IsFlag(OptBoolEnv(env.relay))
       THEN None
       ELSE [listen     |-> Or(env.listen, DefaultListen),
             relays     |-> RelaysOf(env.relays),
             encryption |-> encryption,
             gift       |-> gift,
             cap        |-> IF env.cap = 0 THEN 1 ELSE Or(env.cap, 64),
             relay      |-> Flag(OptBoolEnv(env.relay), TRUE),
             public     |-> PublicOf(env.public)]

\* The shim's canonical public face: the first declared URL, else the first relay.
PublicUrl(cfg) == IF cfg.public # <<>> THEN Head(cfg.public) ELSE Head(cfg.relays)
=============================================================================
