------------------------------- MODULE Startup -------------------------------
(***************************************************************************)
(* The start of the authorization server: configuration is loaded and      *)
(* compiled (src/internal/authapp/config.go, runtime_config.go), compiled  *)
(* again and checked against the key material when the runtime is built    *)
(* (app.go), the signers are loaded one by one (signing.go, src/jwk/       *)
(* ed25519.go) and the server is built (src/server/config.go).  Three      *)
(* packages validate the same configuration; key files may be changed by   *)
(* others while a start is under way.                                      *)
(***************************************************************************)
EXTENDS Keys

CONSTANTS
    Configs,            \* decoded configuration files (wireConfig)
    Strings,            \* what is in their fields, also once it is trimmed
    Paths, EnvNames,    \* key files and environment variables
    Absent,             \* a field that is not in the configuration file
    DefaultKID,         \* "orionis-ed25519-1"
    DefaultTTL, DefaultLimit, DefaultWindow,
    Second,             \* time.Second
    TrimIssuer(_),      \* strings.TrimRight(strings.TrimSpace(issuer), "/")
    ParseDuration(_)    \* time.ParseDuration: its value, or Absent on an error

ASSUME DefaultsAssumption == /\ Second \in Nat \ {0}
                             /\ DefaultTTL \in Nat /\ DefaultTTL >= Second
                             /\ DefaultLimit \in Nat \ {0}
                             /\ DefaultWindow \in Nat \ {0}
                             /\ DefaultKID # ""

ASSUME StringsAssumption ==
    /\ {"", DefaultKID} \subseteq Strings
    /\ \A s \in {"", DefaultKID} : TrimSpace(s) = s
    /\ \A s \in Strings : /\ TrimSpace(s) \in Strings
                          /\ TrimSpace(TrimSpace(s)) = TrimSpace(s)
                          /\ TrimIssuer(s) \in Strings
                          /\ ParseDuration(s) \in {Absent} \cup Int

\* A configured key; its path and variable exist.  LoadConfigContext has expanded both.
KeyConfig == [kid  : Strings,
              path : {s \in Strings : TrimSpace(s) \in Paths \cup {""}},
              env  : {s \in Strings : TrimSpace(s) \in EnvNames \cup {""}}]

ASSUME ConfigsAssumption ==
    \A w \in Configs :
        /\ {w.issuer, w.ttl, w.activeKID} \subseteq Strings
        /\ w.wellFormed \in BOOLEAN
        /\ w.rateLimit.limit \in {Absent} \cup Int
        /\ w.rateLimit.window \in {Absent} \cup Strings
        /\ w.key \in {Absent} \cup KeyConfig
        /\ w.keys \in {Absent} \cup Seq(KeyConfig)

VARIABLES
    phase,      \* "load", "resolve", "signers", "build", "serving", "failed"
    wire,       \* the configuration file
    cfg,        \* the Config that LoadConfigContext returned
    files, env, \* per path and variable: "missing", "key", "garbage", "unreadable"
    signers,    \* the kids of the signers loaded so far
    active,     \* the kid of the server's active signer
    failedIn,   \* the phase a failed start failed in
    disturbed   \* history: an os call failed, or somebody changed a key file

vars == <<phase, wire, cfg, files, env, signers, active, failedIn, disturbed>>

Init ==
    /\ phase = "load"
    /\ wire \in Configs
    /\ cfg = Absent
    /\ files \in [Paths -> {"missing", "key", "garbage", "unreadable"}]
    /\ env \in [EnvNames -> {"missing", "key", "garbage"}]
    /\ signers = <<>>
    /\ active = ""
    /\ failedIn = ""
    /\ disturbed = FALSE

-----------------------------------------------------------------------------
(* Compiling the configuration *)

\* wireEndpointRateLimit.runtimeConfig and wireConfig.runtimeConfig: presence flags.
limitConfig(w) == [limit  |-> IF w.limit = Absent THEN 0 ELSE w.limit,
                   window |-> IF w.window = Absent THEN "" ELSE w.window,
                   limitSet |-> w.limit # Absent, windowSet |-> w.window # Absent]

NoKey == [kid |-> "", path |-> "", env |-> ""]

runtimeConfig(w) ==
    [issuer |-> w.issuer, ttl |-> w.ttl, activeKID |-> w.activeKID, wellFormed |-> w.wellFormed,
     rateLimit |-> limitConfig(w.rateLimit), clients |-> w.clients,
     key  |-> IF w.key = Absent THEN NoKey ELSE w.key,
     keys |-> IF w.keys = Absent THEN <<>> ELSE w.keys,
     legacyKeySet |-> w.key # Absent, keysSet |-> w.keys # Absent]

normalizeKeyConfig(k) ==
    [kid |-> TrimSpace(k.kid), path |-> TrimSpace(k.path), env |-> TrimSpace(k.env)]

normalizeRuntimeConfig(c) ==
    [c EXCEPT !.issuer = TrimIssuer(@), !.ttl = TrimSpace(@), !.activeKID = TrimSpace(@),
              !.key = normalizeKeyConfig(@),
              !.keys = [i \in DOMAIN @ |-> normalizeKeyConfig(@[i])],
              !.rateLimit.window = TrimSpace(@)]

effectiveKeyConfigs(c) == IF c.keysSet \/ c.keys # <<>> THEN c.keys ELSE <<c.key>>

orDefaultKID(kid) == IF kid = "" THEN DefaultKID ELSE kid

Distinct(kids) == \A i, j \in DOMAIN kids : kids[i] = kids[j] => i = j

\* Mutant: duplicate kids are left to the server to find.
signingAnyKids(c) ==
    /\ ~ (c.legacyKeySet /\ c.keysSet)
    /\ IF c.keysSet \/ c.keys # <<>>
       THEN /\ c.keys # <<>>
            /\ \A i \in DOMAIN c.keys : c.keys[i].kid # ""
            /\ c.activeKID # "" => \E i \in DOMAIN c.keys : c.keys[i].kid = c.activeKID
       ELSE c.activeKID \in {"", orDefaultKID(c.key.kid)}

\* validateSigningConfig
signingOK(c) ==
    /\ ~ (c.legacyKeySet /\ c.keysSet)
    /\ IF c.keysSet \/ c.keys # <<>>
       THEN /\ c.keys # <<>>
            /\ \A i \in DOMAIN c.keys : c.keys[i].kid # ""
            /\ Distinct([i \in DOMAIN c.keys |-> c.keys[i].kid])
            /\ c.activeKID # "" => \E i \in DOMAIN c.keys : c.keys[i].kid = c.activeKID
       ELSE c.activeKID \in {"", orDefaultKID(c.key.kid)}

\* validateKeySourceConfig
sourcesOK(keys) == \A i \in DOMAIN keys : keys[i].path = "" \/ keys[i].env = ""

\* validateClients; the server's validateConfig asks the same of the clients.
clientsOK(clients) ==
    /\ clients # <<>>
    /\ \A i \in DOMAIN clients : clients[i].valid
    /\ Distinct([i \in DOMAIN clients |-> clients[i].id])

\* normalizeRateLimit: an effectiveRateLimit, or Absent on an error.
normalizeRateLimit(l) ==
    LET useLimit == l.limitSet \/ l.limit # 0
        useWindow == l.windowSet \/ l.window # ""
        window == ParseDuration(l.window)
    IN  IF \/ useLimit /\ l.limit <= 0
           \/ useWindow /\ (l.window = "" \/ window = Absent)
        THEN Absent
        ELSE IF useWindow /\ window <= 0 THEN Absent
        ELSE [limit  |-> IF useLimit THEN l.limit ELSE DefaultLimit,
              window |-> IF useWindow THEN window ELSE DefaultWindow]

\* parseDurationDefault
accessTokenTTL(c) == IF c.ttl = "" THEN DefaultTTL ELSE ParseDuration(c.ttl)

\* Mutant: a token lifetime below a second is accepted.
ttlPositive(c) == accessTokenTTL(c) # Absent /\ accessTokenTTL(c) > 0

ttlOK(c) == accessTokenTTL(c) # Absent /\ accessTokenTTL(c) >= Second

\* compileConfig returns no error.
Compiles(c) ==
    LET n == normalizeRuntimeConfig(c)
    IN  /\ ttlOK(n)
        /\ n.wellFormed
        /\ normalizeRateLimit(n.rateLimit) # Absent
        /\ n.issuer # ""
        /\ clientsOK(n.clients)
        /\ signingOK(n)
        /\ sourcesOK(effectiveKeyConfigs(n))

\* Mutant: the compiled configuration says that every field was set.
compiledAllSet(c) ==
    [normalizeRuntimeConfig(c) EXCEPT !.rateLimit.limitSet = TRUE, !.rateLimit.windowSet = TRUE]

\* What compileConfig returns as raw.
compiled(c) ==
    [normalizeRuntimeConfig(c) EXCEPT !.rateLimit.limitSet = FALSE, !.rateLimit.windowSet = FALSE]

-----------------------------------------------------------------------------
(* The steps of run and New *)

Fail ==
    /\ phase' = "failed"
    /\ failedIn' = phase
    /\ UNCHANGED <<cfg, files, signers, active>>

\* LoadConfigContext
LoadConfig ==
    /\ phase = "load"
    /\ \/ /\ Compiles(runtimeConfig(wire))
          /\ cfg' = compiled(runtimeConfig(wire))
          /\ phase' = "resolve"
          /\ UNCHANGED <<files, signers, active, failedIn>>
       \/ /\ ~ Compiles(runtimeConfig(wire))
          /\ Fail
    /\ UNCHANGED <<wire, env, disturbed>>

\* validateKeyMaterials
materialsOK(keys) ==
    \A i \in DOMAIN keys :
        /\ keys[i].env # "" => env[keys[i].env] = "key"
        /\ keys[i].path # "" => files[keys[i].path] \in {"key", "missing"}

\* resolveConfig: the configuration is compiled a second time.
ResolveConfig ==
    /\ phase = "resolve"
    /\ \/ /\ Compiles(cfg) /\ materialsOK(effectiveKeyConfigs(compiled(cfg)))
          /\ cfg' = compiled(cfg)
          /\ phase' = "signers"
          /\ UNCHANGED <<files, signers, active, failedIn>>
       \/ /\ ~ (Compiles(cfg) /\ materialsOK(effectiveKeyConfigs(compiled(cfg))))
          /\ Fail
    /\ UNCHANGED <<wire, env, disturbed>>

NextKey == effectiveKeyConfigs(cfg)[Len(signers) + 1]
KeysLeft == Len(signers) < Len(effectiveKeyConfigs(cfg))

\* LoadSigner: from the variable, from the file, or a new key, which is written
\* to the file if there is a path.
LoadSigner ==
    LET k == NextKey
        kid == orDefaultKID(k.kid)
        loads == /\ k.path = "" \/ k.env = ""
                 /\ k.env # "" => env[k.env] = "key"
                 /\ (k.env = "" /\ k.path # "") => files[k.path] \in {"key", "missing"}
                 /\ \A i \in DOMAIN signers : signers[i] # kid
    IN  /\ phase = "signers" /\ KeysLeft
        /\ \/ /\ loads
              /\ signers' = Append(signers, kid)
              /\ files' = IF k.env = "" /\ k.path # "" THEN [files EXCEPT ![k.path] = "key"] ELSE files
              /\ UNCHANGED <<phase, cfg, active, failedIn>>
           \/ ~ loads /\ Fail
        /\ UNCHANGED <<wire, env, disturbed>>

\* Generating or writing a new key fails.
LoadSignerFails ==
    /\ phase = "signers" /\ KeysLeft
    /\ Fail
    /\ disturbed' = TRUE
    /\ UNCHANGED <<wire, env>>

\* The end of loadSigningKeys: active_kid names a loaded key.
SignersLoaded ==
    /\ phase = "signers" /\ ~ KeysLeft
    /\ \/ /\ cfg.activeKID = "" \/ \E i \in DOMAIN signers : signers[i] = cfg.activeKID
          /\ phase' = "build"
          /\ UNCHANGED <<cfg, files, signers, active, failedIn>>
       \/ /\ cfg.activeKID # "" /\ \A i \in DOMAIN signers : signers[i] # cfg.activeKID
          /\ Fail
    /\ UNCHANGED <<wire, env, disturbed>>

\* Mutant: the last signer is the active one when none is named.
chooseLast(activeKID, kids) == IF activeKID = "" THEN kids[Len(kids)] ELSE activeKID

\* validateConfig of the server: its active signer.
chooseActive(activeKID, kids) == IF activeKID = "" THEN kids[1] ELSE activeKID

\* The issuer of the server: the builder and normalizeConfig trim it again.
serverIssuer(c) == TrimIssuer(TrimIssuer(c.issuer))

\* The server's builder and validateConfig, with the clients once more.
BuildServer ==
    LET builds == /\ serverIssuer(cfg) # "" /\ signers # <<>>
                  /\ \A i \in DOMAIN signers : signers[i] # ""
                  /\ Distinct(signers)
                  /\ cfg.activeKID # "" => \E i \in DOMAIN signers : signers[i] = cfg.activeKID
                  /\ clientsOK(cfg.clients)
    IN  /\ phase = "build"
        /\ \/ /\ builds
              /\ active' = chooseActive(cfg.activeKID, signers)
              /\ phase' = "serving"
              /\ UNCHANGED <<cfg, files, signers, failedIn>>
           \/ ~ builds /\ Fail
        /\ UNCHANGED <<wire, env, disturbed>>

\* Another process or the operator changes a key file while the start is under way.
Disturb(p) ==
    /\ phase \in {"load", "resolve", "signers", "build"}
    /\ \E f \in {"missing", "key", "garbage"} : files' = [files EXCEPT ![p] = f]
    /\ disturbed' = TRUE
    /\ UNCHANGED <<phase, wire, cfg, env, signers, active, failedIn>>

Next == LoadConfig \/ ResolveConfig \/ LoadSigner \/ LoadSignerFails \/ SignersLoaded
        \/ BuildServer \/ \E p \in Paths : Disturb(p)

Spec == Init /\ [][Next]_vars
\* JWKSHTTP: the document that verifiers fetch.  The octets of a key do not matter here.
JWKS == [i \in DOMAIN signers |-> NewEd25519Key(signers[i], i)]

-----------------------------------------------------------------------------
(* Properties *)

\* Once is enough to trim the issuer.  It is not for an issuer with white space between
\* slashes at its end: "x /" becomes "x ", and then "x".
IssuerTrimmed == TrimIssuer(TrimIssuer(wire.issuer)) = TrimIssuer(wire.issuer)

\* What LoadConfigContext returns compiles again, to the same token lifetime,
\* rate limit and keys: New does not refuse or change the configuration that
\* was accepted, although the flags that tell set from defaulted fields are gone.
\* Only of the issuer there may be less, or nothing, after a second trimming.
CompilesAgain ==
    cfg # Absent =>
        LET first == normalizeRuntimeConfig(runtimeConfig(wire))
            again == normalizeRuntimeConfig(cfg)
        IN  /\ again.issuer # "" => Compiles(cfg)
            /\ IssuerTrimmed => again.issuer = first.issuer
            /\ accessTokenTTL(again) = accessTokenTTL(first)
            /\ normalizeRateLimit(again.rateLimit) = normalizeRateLimit(first.rateLimit)
            /\ effectiveKeyConfigs(again) = effectiveKeyConfigs(first)

\* docs/releases/v0.4.0.md:22: "decode, normalize, validate, load, and build phases so
\* invalid configuration is rejected before key creation".  Validation is complete: a
\* start that has passed it fails later only when an os call fails or somebody changes a
\* key file; the checks of the loader and of the server's builder find nothing that
\* validation let through, with one exception: the server's trimming leaves nothing of
\* an issuer of which the two compilations left something.
ValidatedStarts ==
    /\ failedIn = "signers" => disturbed
    /\ failedIn = "build" => /\ ~ IssuerTrimmed
                             /\ cfg.issuer # "" /\ serverIssuer(cfg) = ""

\* effectiveActiveKID, which is what the runtime reports.
reportedKID == IF cfg.activeKID # "" THEN cfg.activeKID ELSE signers[1]

\* The key the server signs with is published, is the one the configuration
\* names, and is the one that Runtime.ActiveKID reports: three packages compute it.
ActiveKeyAgreed ==
    phase = "serving" =>
        /\ \E i \in DOMAIN signers : signers[i] = active
        /\ active = reportedKID
        /\ TrimSpace(wire.activeKID) \in {"", active}

\* Verifiers can use what the server publishes: the provider rejects a document as a
\* whole if one of its keys is bad, and the signers' kids, which three packages
\* normalise, are the kids that tokens name.
PublishedKeysUsable ==
    phase = "serving" =>
        LET provider == decodeSet(JWKS)
        IN  /\ provider.ok
            /\ DOMAIN provider.keys = {signers[i] : i \in DOMAIN signers}
            /\ forAlgorithm(provider.keys[active], EdDSA)

\* What other parts rely on: tokens of at least a second, so that expires_in is
\* positive and the client accepts the response; a positive limit and window for
\* the rate limiter; a key file for each configured path.
ServesUsableConfig ==
    phase = "serving" =>
        /\ accessTokenTTL(cfg) >= Second
        /\ normalizeRateLimit(cfg.rateLimit).limit > 0
        /\ normalizeRateLimit(cfg.rateLimit).window > 0
        /\ disturbed \/ \A i \in DOMAIN effectiveKeyConfigs(cfg) :
              LET p == effectiveKeyConfigs(cfg)[i].path IN p # "" => files[p] = "key"
=============================================================================
