---------------------------- MODULE ProcessProofs ----------------------------
(***************************************************************************)
(* Proofs about Process and the start it begins with, for every set of     *)
(* configurations and key files, and every number of requests.             *)
(***************************************************************************)
EXTENDS Process, TLAPS

-----------------------------------------------------------------------------
(* Compiling *)

\* The Config structs that the program handles.
RuntimeConfig ==
    [issuer : Strings, ttl : Strings, activeKID : Strings, wellFormed : BOOLEAN,
     rateLimit : [limit : Int, window : Strings, limitSet : BOOLEAN, windowSet : BOOLEAN],
     clients : {w.clients : w \in Configs},
     key : KeyConfig, keys : Seq(KeyConfig), legacyKeySet : BOOLEAN, keysSet : BOOLEAN]

TrimmedKey(k) ==
    TrimSpace(k.kid) = k.kid /\ TrimSpace(k.path) = k.path /\ TrimSpace(k.env) = k.env

\* Normalising c again changes at most its issuer.
Trimmed(c) ==
    /\ TrimSpace(c.ttl) = c.ttl
    /\ TrimSpace(c.activeKID) = c.activeKID
    /\ TrimSpace(c.rateLimit.window) = c.rateLimit.window
    /\ TrimmedKey(c.key)
    /\ \A i \in DOMAIN c.keys : TrimmedKey(c.keys[i])

\* c and d differ at most in their issuers and in which parts of the rate limit are set.
SameFields(c, d) ==
    /\ c.ttl = d.ttl /\ c.activeKID = d.activeKID /\ c.wellFormed = d.wellFormed
    /\ c.rateLimit.limit = d.rateLimit.limit /\ c.rateLimit.window = d.rateLimit.window
    /\ c.clients = d.clients /\ c.key = d.key /\ c.keys = d.keys
    /\ c.legacyKeySet = d.legacyKeySet /\ c.keysSet = d.keysSet

\* What compileConfig asks of a normalised configuration.
Checked(n) ==
    /\ ttlOK(n) /\ n.wellFormed /\ normalizeRateLimit(n.rateLimit) # Absent /\ n.issuer # ""
    /\ clientsOK(n.clients) /\ signingOK(n) /\ sourcesOK(effectiveKeyConfigs(n))

\* A key stays a key when it is normalised.
LEMMA KeyNormalized ==
    ASSUME NEW k \in KeyConfig
    PROVE  normalizeKeyConfig(k) \in KeyConfig /\ TrimmedKey(normalizeKeyConfig(k))
BY StringsAssumption DEF KeyConfig, normalizeKeyConfig, TrimmedKey

\* A key that is normalised stays as it is.
LEMMA KeyKept ==
    ASSUME NEW k \in KeyConfig, TrimmedKey(k)
    PROVE  normalizeKeyConfig(k) = k
BY DEF KeyConfig, normalizeKeyConfig, TrimmedKey

\* What a configuration file is decoded to.
LEMMA Decoded ==
    ASSUME NEW w \in Configs
    PROVE  /\ runtimeConfig(w) \in RuntimeConfig
           /\ runtimeConfig(w).issuer = w.issuer /\ runtimeConfig(w).activeKID = w.activeKID
<1>1. NoKey \in KeyConfig
  BY StringsAssumption DEF NoKey, KeyConfig
<1>2. limitConfig(w.rateLimit) \in
        [limit : Int, window : Strings, limitSet : BOOLEAN, windowSet : BOOLEAN]
  <2>1. (IF w.rateLimit.limit = Absent THEN 0 ELSE w.rateLimit.limit) \in Int
    BY ConfigsAssumption
  <2>2. (IF w.rateLimit.window = Absent THEN "" ELSE w.rateLimit.window) \in Strings
    BY ConfigsAssumption, StringsAssumption
  <2>3. (w.rateLimit.limit # Absent) \in BOOLEAN /\ (w.rateLimit.window # Absent) \in BOOLEAN
    OBVIOUS
  <2> QED
    BY <2>1, <2>2, <2>3, Zenon DEF limitConfig
<1>3. /\ w.issuer \in Strings /\ w.ttl \in Strings /\ w.activeKID \in Strings
      /\ w.wellFormed \in BOOLEAN
  BY ConfigsAssumption
<1>4. (IF w.key = Absent THEN NoKey ELSE w.key) \in KeyConfig
  BY <1>1, ConfigsAssumption
<1>5. (IF w.keys = Absent THEN <<>> ELSE w.keys) \in Seq(KeyConfig)
  BY ConfigsAssumption
<1> QED
  BY <1>2, <1>3, <1>4, <1>5 DEF runtimeConfig, RuntimeConfig

\* The fields of a normalised configuration.
LEMMA Normalized ==
    ASSUME NEW c \in RuntimeConfig, NEW n, n = normalizeRuntimeConfig(c)
    PROVE  /\ n \in RuntimeConfig
           /\ n.issuer = TrimIssuer(c.issuer) /\ n.activeKID = TrimSpace(c.activeKID)
           /\ Trimmed(n)
           /\ Trimmed(c) => SameFields(n, c)
           /\ n.rateLimit.limitSet = c.rateLimit.limitSet
           /\ n.rateLimit.windowSet = c.rateLimit.windowSet
<1> DEFINE ks == [i \in DOMAIN c.keys |-> normalizeKeyConfig(c.keys[i])]
<1>1. /\ c.issuer \in Strings /\ c.ttl \in Strings /\ c.activeKID \in Strings
      /\ c.wellFormed \in BOOLEAN /\ c.key \in KeyConfig /\ c.keys \in Seq(KeyConfig)
      /\ c.rateLimit \in [limit : Int, window : Strings, limitSet : BOOLEAN, windowSet : BOOLEAN]
      /\ c.clients \in {w.clients : w \in Configs}
      /\ c.legacyKeySet \in BOOLEAN /\ c.keysSet \in BOOLEAN
  BY DEF RuntimeConfig
<1>2. /\ n.issuer = TrimIssuer(c.issuer) /\ n.ttl = TrimSpace(c.ttl)
      /\ n.activeKID = TrimSpace(c.activeKID) /\ n.wellFormed = c.wellFormed
      /\ n.clients = c.clients /\ n.key = normalizeKeyConfig(c.key) /\ n.keys = ks
      /\ n.legacyKeySet = c.legacyKeySet /\ n.keysSet = c.keysSet
  BY DEF RuntimeConfig, normalizeRuntimeConfig
<1>3. n.rateLimit = [c.rateLimit EXCEPT !.window = TrimSpace(@)]
  BY DEF RuntimeConfig, normalizeRuntimeConfig
<1>4. DOMAIN n = DOMAIN c /\ n = [f \in DOMAIN c |-> n[f]]
  BY DEF RuntimeConfig, normalizeRuntimeConfig
<1>5. /\ n.rateLimit \in [limit : Int, window : Strings, limitSet : BOOLEAN, windowSet : BOOLEAN]
      /\ n.rateLimit.limit = c.rateLimit.limit /\ n.rateLimit.window = TrimSpace(c.rateLimit.window)
      /\ n.rateLimit.limitSet = c.rateLimit.limitSet /\ n.rateLimit.windowSet = c.rateLimit.windowSet
  BY <1>1, <1>3, StringsAssumption
<1>6. ks \in Seq(KeyConfig) /\ \A i \in DOMAIN ks : TrimmedKey(ks[i])
  BY <1>1, KeyNormalized
<1>7. (\A i \in DOMAIN c.keys : TrimmedKey(c.keys[i])) => ks = c.keys
  BY <1>1, KeyKept
<1>8. n.key \in KeyConfig /\ TrimmedKey(n.key) /\ (TrimmedKey(c.key) => n.key = c.key)
  BY <1>1, <1>2, KeyNormalized, KeyKept
<1>9. /\ n.issuer \in Strings /\ n.ttl \in Strings /\ n.activeKID \in Strings
      /\ TrimSpace(n.ttl) = n.ttl /\ TrimSpace(n.activeKID) = n.activeKID
      /\ TrimSpace(n.rateLimit.window) = n.rateLimit.window
  BY <1>1, <1>2, <1>5, StringsAssumption
<1> HIDE DEF ks
<1>10. n \in RuntimeConfig
  BY <1>1, <1>2, <1>4, <1>5, <1>6, <1>8, <1>9 DEF RuntimeConfig
<1>11. Trimmed(n)
  BY <1>2, <1>6, <1>8, <1>9 DEF Trimmed
<1>12. Trimmed(c) => SameFields(n, c)
  BY <1>2, <1>5, <1>7, <1>8 DEF Trimmed, SameFields
<1> QED
  BY <1>2, <1>5, <1>10, <1>11, <1>12
\* What compileConfig returns.
LEMMA Compiled ==
    ASSUME NEW c \in RuntimeConfig
    PROVE  /\ compiled(c) \in RuntimeConfig
           /\ SameFields(compiled(c), normalizeRuntimeConfig(c))
           /\ compiled(c).issuer = TrimIssuer(c.issuer)
           /\ Trimmed(compiled(c))
           /\ ~ compiled(c).rateLimit.limitSet /\ ~ compiled(c).rateLimit.windowSet
<1>1. PICK n : n = normalizeRuntimeConfig(c)
  OBVIOUS
<1>2. n \in RuntimeConfig /\ n.issuer = TrimIssuer(c.issuer) /\ Trimmed(n)
  BY <1>1, Normalized
<1>3. PICK r : r = [n EXCEPT !.rateLimit.limitSet = FALSE, !.rateLimit.windowSet = FALSE]
  OBVIOUS
<1>4. r = compiled(c)
  BY <1>1, <1>3 DEF compiled
<1>5. r.rateLimit = [n.rateLimit EXCEPT !.limitSet = FALSE, !.windowSet = FALSE]
  BY <1>2, <1>3 DEF RuntimeConfig
<1>6. /\ n.rateLimit \in [limit : Int, window : Strings, limitSet : BOOLEAN, windowSet : BOOLEAN]
      /\ r = [n EXCEPT !.rateLimit = r.rateLimit]
  BY <1>2, <1>3 DEF RuntimeConfig
<1>7. /\ r.rateLimit \in [limit : Int, window : Strings, limitSet : BOOLEAN, windowSet : BOOLEAN]
      /\ r.rateLimit.limit = n.rateLimit.limit /\ r.rateLimit.window = n.rateLimit.window
      /\ ~ r.rateLimit.limitSet /\ ~ r.rateLimit.windowSet
  BY <1>5, <1>6
<1>8. /\ r \in RuntimeConfig /\ r.issuer = n.issuer /\ r.ttl = n.ttl /\ r.activeKID = n.activeKID
      /\ r.wellFormed = n.wellFormed /\ r.clients = n.clients /\ r.key = n.key
      /\ r.keys = n.keys /\ r.legacyKeySet = n.legacyKeySet /\ r.keysSet = n.keysSet
  BY <1>2, <1>6, <1>7 DEF RuntimeConfig
<1>9. SameFields(r, n) /\ Trimmed(r)
  BY <1>2, <1>7, <1>8 DEF SameFields, Trimmed
<1> QED
  BY <1>1, <1>2, <1>4, <1>7, <1>8, <1>9

\* The defaults are found again when the flags that tell them from set values are gone.
LEMMA SameRateLimit ==
    ASSUME NEW n \in RuntimeConfig, NEW m \in RuntimeConfig, SameFields(m, n),
           ~ m.rateLimit.limitSet, ~ m.rateLimit.windowSet,
           normalizeRateLimit(n.rateLimit) # Absent
    PROVE  normalizeRateLimit(m.rateLimit) = normalizeRateLimit(n.rateLimit)
<1>1. PICK l, k : l = n.rateLimit /\ k = m.rateLimit
  OBVIOUS
<1>2. /\ l \in [limit : Int, window : Strings, limitSet : BOOLEAN, windowSet : BOOLEAN]
      /\ k \in [limit : Int, window : Strings, limitSet : BOOLEAN, windowSet : BOOLEAN]
      /\ k.limit = l.limit /\ k.window = l.window /\ ~ k.limitSet /\ ~ k.windowSet
      /\ normalizeRateLimit(l) # Absent
  BY <1>1 DEF RuntimeConfig, SameFields
<1>3. /\ l.limitSet \/ l.limit # 0 => ~ (l.limit <= 0)
      /\ l.windowSet \/ l.window # "" => l.window # ""
  BY <1>2 DEF normalizeRateLimit
<1>4. (l.limitSet \/ l.limit # 0) = (k.limitSet \/ k.limit # 0)
  <2>1. 0 <= 0
    OBVIOUS
  <2>2. l.limitSet => l.limit # 0
    BY <1>3, <2>1, Zenon
  <2> QED
    BY <1>2, <2>2, Zenon
<1>5. (l.windowSet \/ l.window # "") = (k.windowSet \/ k.window # "")
  BY <1>2, <1>3
<1>6. normalizeRateLimit(k) = normalizeRateLimit(l)
  BY <1>2, <1>4, <1>5, Zenon DEF normalizeRateLimit
<1> QED
  BY <1>1, <1>6

\* Two configurations that differ at most in their issuers and in those flags are checked alike.
LEMMA CheckedAgain ==
    ASSUME NEW n \in RuntimeConfig, NEW m \in RuntimeConfig, SameFields(m, n),
           ~ m.rateLimit.limitSet, ~ m.rateLimit.windowSet, Checked(n)
    PROVE  /\ m.issuer # "" => Checked(m)
           /\ accessTokenTTL(m) = accessTokenTTL(n)
           /\ normalizeRateLimit(m.rateLimit) = normalizeRateLimit(n.rateLimit)
           /\ effectiveKeyConfigs(m) = effectiveKeyConfigs(n)
<1>1. normalizeRateLimit(m.rateLimit) = normalizeRateLimit(n.rateLimit)
  BY SameRateLimit DEF Checked
<1>2. accessTokenTTL(m) = accessTokenTTL(n)
  BY Zenon DEF SameFields, accessTokenTTL
<1>3. effectiveKeyConfigs(m) = effectiveKeyConfigs(n)
  BY Zenon DEF SameFields, effectiveKeyConfigs
<1>4. signingOK(m) = signingOK(n)
  BY Zenon DEF SameFields, signingOK
<1>5. m.wellFormed = n.wellFormed /\ m.clients = n.clients
  BY DEF SameFields
<1> QED
  BY <1>1, <1>2, <1>3, <1>4, <1>5 DEF Checked, ttlOK

\* Compiles normalises and checks.
LEMMA CompilesChecks == \A c : Compiles(c) = Checked(normalizeRuntimeConfig(c))
BY Zenon DEF Compiles, Checked
-----------------------------------------------------------------------------
(* The start *)

\* What compileConfig made of the configuration file, before it dropped the flags.
Validated == normalizeRuntimeConfig(runtimeConfig(wire))
SigningKeys == effectiveKeyConfigs(cfg)
Started == phase \in {"signers", "build", "serving"}

\* The configuration that LoadConfigContext or resolveConfig returned.
Accepted ==
    /\ cfg \in RuntimeConfig /\ Trimmed(cfg) /\ SameFields(cfg, Validated) /\ Checked(Validated)
    /\ ~ cfg.rateLimit.limitSet /\ ~ cfg.rateLimit.windowSet
    /\ IssuerTrimmed => cfg.issuer = TrimIssuer(wire.issuer)

\* What validateKeyMaterials found, and what has become of it.
Materials ==
    /\ \A i \in DOMAIN SigningKeys :
          SigningKeys[i].env # "" => env[SigningKeys[i].env] = "key"
    /\ disturbed \/ \A i \in DOMAIN SigningKeys :
          LET p == SigningKeys[i].path
          IN  p # "" => files[p] = "key" \/ (files[p] = "missing" /\ Len(signers) < i)

\* The signers are those of the first keys.
Loaded ==
    /\ Len(signers) <= Len(SigningKeys)
    /\ \A i \in DOMAIN signers : signers[i] = orDefaultKID(SigningKeys[i].kid)

StartInv ==
    /\ wire \in Configs
    /\ phase \in {"load", "resolve", "signers", "build", "serving", "failed"}
    /\ files \in [Paths -> {"missing", "key", "garbage", "unreadable"}]
    /\ signers \in Seq(Strings)
    /\ phase \in {"load", "resolve"} => signers = <<>>
    /\ cfg = Absent \/ Accepted
    /\ phase = "resolve" \/ Started => Accepted
    /\ Started => cfg.issuer # "" /\ Materials /\ Loaded
    /\ phase \in {"build", "serving"} => Len(signers) = Len(SigningKeys)
    /\ phase = "serving" => active = chooseActive(cfg.activeKID, signers)
    /\ phase # "failed" => failedIn = ""
    /\ ValidatedStarts

\* Of the issuer of the configuration in use the server's builder leaves nothing.
IssuerVanishes == ~ IssuerTrimmed /\ cfg.issuer # "" /\ serverIssuer(cfg) = ""

\* The keys of a configuration that was accepted: each has one source, no two have
\* the same kid, and the active one is among them.
LEMMA KeysChecked ==
    ASSUME NEW c \in RuntimeConfig, Trimmed(c), signingOK(c),
           NEW ks, ks = effectiveKeyConfigs(c), sourcesOK(ks)
    PROVE  /\ ks \in Seq(KeyConfig) /\ ks # <<>>
           /\ \A i \in DOMAIN ks : /\ TrimmedKey(ks[i])
                                   /\ ks[i].path \in Paths \cup {""}
                                   /\ ks[i].path = "" \/ ks[i].env = ""
                                   /\ orDefaultKID(ks[i].kid) \in Strings \ {""}
                                   /\ TrimSpace(orDefaultKID(ks[i].kid)) = orDefaultKID(ks[i].kid)
           /\ \A i, j \in DOMAIN ks : orDefaultKID(ks[i].kid) = orDefaultKID(ks[j].kid) => i = j
           /\ c.activeKID # "" => \E i \in DOMAIN ks : orDefaultKID(ks[i].kid) = c.activeKID
<1>1. c.key \in KeyConfig /\ c.keys \in Seq(KeyConfig)
  BY DEF RuntimeConfig
<1>2. ks \in Seq(KeyConfig) /\ ks # <<>> /\ \A i \in DOMAIN ks : TrimmedKey(ks[i])
  <2>1. CASE c.keysSet \/ c.keys # <<>>
    BY <1>1, <2>1 DEF effectiveKeyConfigs, signingOK, Trimmed
  <2>2. CASE ~ (c.keysSet \/ c.keys # <<>>)
    BY <1>1, <2>2 DEF effectiveKeyConfigs, Trimmed
  <2> QED
    BY <2>1, <2>2
<1>3. ASSUME NEW i \in DOMAIN ks
      PROVE  /\ ks[i].path \in Paths \cup {""}
             /\ ks[i].path = "" \/ ks[i].env = ""
             /\ orDefaultKID(ks[i].kid) \in Strings \ {""}
             /\ TrimSpace(orDefaultKID(ks[i].kid)) = orDefaultKID(ks[i].kid)
  <2>1. ks[i] \in KeyConfig /\ TrimmedKey(ks[i])
    BY <1>2
  <2> QED
    BY <2>1, StringsAssumption, DefaultsAssumption
    DEF KeyConfig, TrimmedKey, sourcesOK, orDefaultKID
<1>4. /\ \A i, j \in DOMAIN ks : orDefaultKID(ks[i].kid) = orDefaultKID(ks[j].kid) => i = j
      /\ c.activeKID # "" => \E i \in DOMAIN ks : orDefaultKID(ks[i].kid) = c.activeKID
  <2>1. CASE c.keysSet \/ c.keys # <<>>
    <3>1. ks = c.keys /\ \A i \in DOMAIN ks : ks[i].kid # ""
      BY <2>1 DEF effectiveKeyConfigs, signingOK
    <3>2. \A i \in DOMAIN ks : orDefaultKID(ks[i].kid) = ks[i].kid
      BY <3>1 DEF orDefaultKID
    <3>3. /\ Distinct([i \in DOMAIN ks |-> ks[i].kid])
          /\ c.activeKID # "" => \E i \in DOMAIN ks : ks[i].kid = c.activeKID
      BY <2>1, <3>1, Zenon DEF signingOK
    <3>4. \A i, j \in DOMAIN ks : ks[i].kid = ks[j].kid => i = j
      BY <3>3 DEF Distinct
    <3>5. \A i, j \in DOMAIN ks : orDefaultKID(ks[i].kid) = orDefaultKID(ks[j].kid) => i = j
      <4> TAKE i, j \in DOMAIN ks
      <4>1. orDefaultKID(ks[i].kid) = ks[i].kid /\ orDefaultKID(ks[j].kid) = ks[j].kid
        BY <3>2
      <4> QED
        BY <3>4, <4>1
    <3>6. c.activeKID # "" => \E i \in DOMAIN ks : orDefaultKID(ks[i].kid) = c.activeKID
      BY <3>2, <3>3, Zenon
    <3> QED
      BY <3>5, <3>6
  <2>2. CASE ~ (c.keysSet \/ c.keys # <<>>)
    <3>1. ks = <<c.key>>
      BY <2>2 DEF effectiveKeyConfigs
    <3>2. c.activeKID \in {"", orDefaultKID(c.key.kid)}
      BY <2>2, Zenon DEF signingOK
    <3>3. DOMAIN ks = {1} /\ ks[1] = c.key
      BY <3>1
    <3> QED
      BY <3>2, <3>3
  <2> QED
    BY <2>1, <2>2
<1> QED
  BY <1>2, <1>3, <1>4, Zenon

\* The same of the configuration that the start goes on with.
LEMMA AcceptedKeys ==
    ASSUME Accepted, NEW ks, ks = SigningKeys
    PROVE  /\ ks \in Seq(KeyConfig) /\ ks # <<>>
           /\ \A i \in DOMAIN ks : /\ TrimmedKey(ks[i])
                                   /\ ks[i].path \in Paths \cup {""}
                                   /\ ks[i].path = "" \/ ks[i].env = ""
                                   /\ orDefaultKID(ks[i].kid) \in Strings \ {""}
                                   /\ TrimSpace(orDefaultKID(ks[i].kid)) = orDefaultKID(ks[i].kid)
           /\ \A i, j \in DOMAIN ks : orDefaultKID(ks[i].kid) = orDefaultKID(ks[j].kid) => i = j
           /\ cfg.activeKID # "" => \E i \in DOMAIN ks : orDefaultKID(ks[i].kid) = cfg.activeKID
           /\ clientsOK(cfg.clients)
<1>1. PICK n, c : n = Validated /\ c = cfg
  OBVIOUS
<1>2. SameFields(c, n) /\ Checked(n) /\ c \in RuntimeConfig /\ Trimmed(c)
  BY <1>1 DEF Accepted
<1>3. effectiveKeyConfigs(c) = effectiveKeyConfigs(n) /\ signingOK(c) = signingOK(n)
  BY <1>2, Zenon DEF SameFields, effectiveKeyConfigs, signingOK
<1>4. signingOK(c) /\ sourcesOK(ks) /\ clientsOK(c.clients) /\ ks = effectiveKeyConfigs(c)
  BY <1>1, <1>2, <1>3, Zenon DEF Checked, SameFields, SigningKeys
<1> HIDE DEF SigningKeys
<1> QED
  BY <1>1, <1>2, <1>4, KeysChecked
\* A configuration that was accepted is still so when neither it nor the file changes.
LEMMA AcceptedKept ==
    ASSUME UNCHANGED <<wire, cfg>>
    PROVE  Accepted => Accepted'
BY DEF Accepted, Validated, IssuerTrimmed

\* Fail and LoadSignerFails: only a start that was disturbed fails in "signers".
LEMMA FailStart ==
    ASSUME StartInv, Fail, UNCHANGED wire, signers' = signers,
           disturbed => disturbed',
           phase = "signers" => disturbed', phase = "build" => IssuerVanishes
    PROVE  StartInv'
<1>1. /\ phase' = "failed" /\ UNCHANGED <<wire, cfg, files, signers>>
      /\ ValidatedStarts'
  BY DEF StartInv, Fail, ValidatedStarts, IssuerVanishes, IssuerTrimmed, serverIssuer
<1>2. Accepted => Accepted'
  BY <1>1, AcceptedKept
<1> QED
  BY <1>1, <1>2 DEF StartInv, Started

\* LoadConfigContext
LEMMA LoadConfigStart == ASSUME StartInv, LoadConfig PROVE StartInv'
<1>1. CASE ~ Compiles(runtimeConfig(wire)) /\ Fail
  <2>1. phase = "load" /\ UNCHANGED <<wire, disturbed>> /\ signers' = signers
    BY <1>1 DEF LoadConfig, Fail
  <2>2. (disturbed => disturbed') /\ (phase = "signers" => disturbed')
    BY <2>1
  <2>3. phase = "build" => IssuerVanishes
    BY <2>1
  <2> QED
    BY <1>1, <2>1, <2>2, <2>3, FailStart
<1>2. CASE /\ Compiles(runtimeConfig(wire)) /\ cfg' = compiled(runtimeConfig(wire))
           /\ phase' = "resolve" /\ UNCHANGED <<files, signers, active, failedIn>>
  <2>1. PICK c : c = runtimeConfig(wire)
    OBVIOUS
  <2>2. c \in RuntimeConfig /\ c.issuer = wire.issuer
    BY <2>1, Decoded DEF StartInv
  <2>3. Checked(normalizeRuntimeConfig(c)) /\ normalizeRuntimeConfig(c) = Validated
    BY <1>2, <2>1, CompilesChecks DEF Validated
  <2>4. /\ UNCHANGED <<wire, disturbed>> /\ UNCHANGED Validated
    BY DEF LoadConfig, Validated
  <2>5. Accepted'
    BY <1>2, <2>1, <2>2, <2>3, <2>4, Compiled DEF Accepted
  <2> QED
    BY <1>2, <2>4, <2>5 DEF StartInv, LoadConfig, Started, ValidatedStarts, IssuerTrimmed
<1> QED
  BY <1>1, <1>2 DEF LoadConfig

\* resolveConfig
LEMMA ResolveConfigStart == ASSUME StartInv, ResolveConfig PROVE StartInv'
<1>1. CASE Fail
  <2>1. phase = "resolve" /\ UNCHANGED <<wire, disturbed>> /\ signers' = signers
    BY <1>1 DEF ResolveConfig, Fail
  <2>2. (disturbed => disturbed') /\ (phase = "signers" => disturbed')
    BY <2>1
  <2>3. phase = "build" => IssuerVanishes
    BY <2>1
  <2> QED
    BY <1>1, <2>1, <2>2, <2>3, FailStart
<1>2. CASE /\ Compiles(cfg) /\ materialsOK(effectiveKeyConfigs(compiled(cfg)))
           /\ cfg' = compiled(cfg)
           /\ phase' = "signers" /\ UNCHANGED <<files, signers, active, failedIn>>
  <2>1. Accepted /\ signers = <<>> /\ UNCHANGED <<wire, disturbed, env>> /\ UNCHANGED Validated
    BY DEF StartInv, ResolveConfig, Validated
  <2>2. PICK c, n, m, v : /\ c = cfg /\ n = normalizeRuntimeConfig(c) /\ m = compiled(c)
                          /\ v = Validated
    OBVIOUS
  <2>3. c \in RuntimeConfig /\ Trimmed(c) /\ SameFields(c, v) /\ Checked(v)
    BY <2>1, <2>2 DEF Accepted
  <2>4. SameFields(n, c) /\ n.issuer = TrimIssuer(c.issuer)
    BY <2>2, <2>3, Normalized
  <2>5. /\ m \in RuntimeConfig /\ SameFields(m, n) /\ m.issuer = TrimIssuer(c.issuer) /\ Trimmed(m)
        /\ ~ m.rateLimit.limitSet /\ ~ m.rateLimit.windowSet
    BY <2>2, <2>3, Compiled
  <2>6. SameFields(m, v)
    BY <2>3, <2>4, <2>5 DEF SameFields
  <2>7. m.issuer # ""
    <3>1. Checked(n)
      BY <1>2, <2>2, CompilesChecks
    <3> QED
      BY <2>4, <2>5, <3>1 DEF Checked
  <2>8. IssuerTrimmed => m.issuer = TrimIssuer(wire.issuer)
    BY <2>1, <2>2, <2>5 DEF Accepted, IssuerTrimmed
  <2>9. Accepted' /\ cfg'.issuer # ""
    BY <1>2, <2>1, <2>2, <2>3, <2>5, <2>6, <2>7, <2>8 DEF Accepted, IssuerTrimmed
  <2>10. Materials' /\ Loaded'
    <3>1. PICK ks : ks = SigningKeys'
      OBVIOUS
    <3>2. /\ ks = effectiveKeyConfigs(compiled(cfg)) /\ ks \in Seq(KeyConfig)
          /\ signers' = <<>> /\ UNCHANGED <<files, env>>
      <4>1. ks = effectiveKeyConfigs(m) /\ m.key \in KeyConfig /\ m.keys \in Seq(KeyConfig)
        BY <1>2, <2>2, <2>5, <3>1 DEF SigningKeys, RuntimeConfig
      <4>2. ks \in Seq(KeyConfig)
        BY <4>1 DEF effectiveKeyConfigs
      <4> QED
        BY <1>2, <2>1, <2>2, <4>1, <4>2
    <3>3. \A i \in DOMAIN ks : /\ ks[i].env # "" => env[ks[i].env] = "key"
                               /\ ks[i].path # "" => files[ks[i].path] \in {"key", "missing"}
      BY <1>2, <3>2, Zenon DEF materialsOK
    <3>4. \A i \in DOMAIN ks : Len(signers') < i
      BY <3>2
    <3> HIDE DEF SigningKeys
    <3>5. Materials'
      BY <3>1, <3>2, <3>3, <3>4 DEF Materials
    <3>6. Loaded'
      BY <3>1, <3>2 DEF Loaded
    <3> QED
      BY <3>5, <3>6
  <2>11. failedIn' = "" /\ ValidatedStarts'
    <3>1. failedIn' = ""
      BY <1>2 DEF StartInv, ResolveConfig
    <3> QED
      BY <3>1 DEF ValidatedStarts
  <2> QED
    BY <1>2, <2>1, <2>9, <2>10, <2>11 DEF StartInv, Started
<1> QED
  BY <1>1, <1>2 DEF ResolveConfig
\* A sequence that is not empty has a first element.
LEMMA HasFirst ==
    ASSUME NEW S, NEW s \in Seq(S), s # <<>>
    PROVE  1 \in DOMAIN s
OBVIOUS

\* What append does to the signers.
LEMMA Appended ==
    ASSUME NEW S, NEW s \in Seq(S), NEW e \in S, NEW t, t = Append(s, e)
    PROVE  /\ t \in Seq(S) /\ Len(t) = Len(s) + 1 /\ DOMAIN t = 1..(Len(s) + 1)
           /\ t[Len(s) + 1] = e /\ \A i \in DOMAIN s : t[i] = s[i]
OBVIOUS

\* LoadSigner: what validation let through can be loaded, as long as nobody disturbs it.
LEMMA LoadSignerStart == ASSUME StartInv, LoadSigner PROVE StartInv'
<1>1. PICK ks, n, k, kid : /\ ks = SigningKeys /\ n = Len(signers) + 1
                           /\ k = ks[n] /\ kid = orDefaultKID(k.kid)
  OBVIOUS
<1>2. /\ phase = "signers" /\ Accepted /\ Materials /\ Loaded /\ cfg.issuer # ""
      /\ signers \in Seq(Strings) /\ UNCHANGED <<wire, env, disturbed>>
  BY DEF StartInv, Started, LoadSigner
<1>3. /\ ks \in Seq(KeyConfig)
      /\ \A i \in DOMAIN ks : /\ ks[i].path \in Paths \cup {""}
                              /\ ks[i].path = "" \/ ks[i].env = ""
                              /\ orDefaultKID(ks[i].kid) \in Strings \ {""}
      /\ \A i, j \in DOMAIN ks : orDefaultKID(ks[i].kid) = orDefaultKID(ks[j].kid) => i = j
  BY <1>1, <1>2, AcceptedKeys
<1>4. Len(signers) < Len(ks) /\ NextKey = k /\ orDefaultKID(NextKey.kid) = kid
  BY <1>1 DEF LoadSigner, KeysLeft, NextKey, SigningKeys
<1>5. /\ n \in DOMAIN ks /\ n \in Nat /\ Len(signers) = n - 1
      /\ DOMAIN signers = 1..(n - 1) /\ DOMAIN signers \subseteq DOMAIN ks
  <2>1. ks \in Seq(KeyConfig) /\ signers \in Seq(Strings) /\ n = Len(signers) + 1
        /\ Len(signers) < Len(ks)
    BY <1>1, <1>2, <1>3, <1>4
  <2> QED
    BY <2>1
<1>6. /\ k.path \in Paths \cup {""} /\ kid \in Strings \ {""}
      /\ k.path = "" \/ k.env = ""
  BY <1>1, <1>3, <1>5
<1>7. /\ k.env # "" => env[k.env] = "key"
      /\ disturbed \/ (k.path # "" => files[k.path] \in {"key", "missing"})
      /\ \A i \in DOMAIN signers : signers[i] # kid
  <2>1. \A i \in DOMAIN signers : signers[i] # kid
    <3> TAKE i \in DOMAIN signers
    <3>1. i # n /\ i \in DOMAIN ks
      BY <1>5
    <3>2. signers[i] = orDefaultKID(ks[i].kid)
      BY <1>1, <1>2 DEF Loaded
    <3>3. orDefaultKID(ks[i].kid) = orDefaultKID(ks[n].kid) => i = n
      BY <1>3, <1>5, <3>1
    <3> QED
      BY <1>1, <3>1, <3>2, <3>3
  <2>2. k.env # "" => env[k.env] = "key"
    BY <1>1, <1>2, <1>5 DEF Materials
  <2>3. disturbed \/ (k.path # "" => files[k.path] \in {"key", "missing"})
    BY <1>1, <1>2, <1>5 DEF Materials
  <2> QED
    BY <2>1, <2>2, <2>3
<1>8. \/ /\ signers' = Append(signers, kid)
         /\ files' = IF k.env = "" /\ k.path # "" THEN [files EXCEPT ![k.path] = "key"] ELSE files
         /\ UNCHANGED <<phase, cfg, active, failedIn>>
      \/ /\ Fail
         /\ ~ /\ k.path = "" \/ k.env = ""
              /\ k.env # "" => env[k.env] = "key"
              /\ (k.env = "" /\ k.path # "") => files[k.path] \in {"key", "missing"}
              /\ \A i \in DOMAIN signers : signers[i] # kid
  BY <1>4, Zenon DEF LoadSigner
<1>9. CASE Fail /\ ~ /\ k.path = "" \/ k.env = ""
                     /\ k.env # "" => env[k.env] = "key"
                     /\ (k.env = "" /\ k.path # "") => files[k.path] \in {"key", "missing"}
                     /\ \A i \in DOMAIN signers : signers[i] # kid
  <2>1. disturbed
    BY <1>6, <1>7, <1>9, Zenon
  <2>2. signers' = signers
    BY <1>9 DEF Fail
  <2>3. disturbed' /\ UNCHANGED wire /\ phase # "build"
    BY <1>2, <2>1
  <2> QED
    BY <1>9, <2>1, <2>2, <2>3, FailStart
<1>10. CASE /\ signers' = Append(signers, kid)
            /\ files' = IF k.env = "" /\ k.path # "" THEN [files EXCEPT ![k.path] = "key"] ELSE files
            /\ UNCHANGED <<phase, cfg, active, failedIn>>
  <2>1. /\ signers' \in Seq(Strings) /\ Len(signers') = n /\ DOMAIN signers' = 1..n
        /\ signers'[n] = kid /\ \A i \in DOMAIN signers : signers'[i] = signers[i]
    <3>1. signers \in Seq(Strings) /\ kid \in Strings /\ signers' = Append(signers, kid)
      BY <1>2, <1>6, <1>10
    <3>2. n = Len(signers) + 1
      BY <1>1
    <3> QED
      BY <3>1, <3>2, Appended
  <2>2. SigningKeys' = ks /\ Accepted' /\ ValidatedStarts'
    BY <1>1, <1>2, <1>10, AcceptedKept DEF SigningKeys, ValidatedStarts, IssuerTrimmed, serverIssuer, StartInv
  <2>3. \A i \in DOMAIN signers' : signers'[i] = orDefaultKID(ks[i].kid)
    <3> TAKE i \in DOMAIN signers'
    <3>1. CASE i = n
      BY <1>1, <2>1, <3>1
    <3>2. CASE i # n
      <4>1. i \in DOMAIN signers
        BY <1>5, <2>1, <3>2
      <4> QED
        BY <1>1, <1>2, <2>1, <4>1 DEF Loaded
    <3> QED
      BY <3>1, <3>2
  <2>4. /\ files' \in [Paths -> {"missing", "key", "garbage", "unreadable"}]
        /\ \A p \in Paths : files'[p] = files[p] \/ files'[p] = "key"
        /\ k.path # "" => files'[k.path] = "key"
    BY <1>6, <1>10 DEF StartInv
  <2>5. \A i \in DOMAIN ks : ks[i].env # "" => env'[ks[i].env] = "key"
    BY <1>1, <1>2 DEF Materials
  <2>6. disturbed' \/ \A i \in DOMAIN ks :
            ks[i].path # "" => \/ files'[ks[i].path] = "key"
                               \/ files'[ks[i].path] = "missing" /\ Len(signers') < i
    <3>1. \A i \in DOMAIN ks : i \in Nat
      <4>1. ks \in Seq(KeyConfig)
        BY <1>3
      <4> QED
        BY <4>1
    <3>2. \A i \in Nat : n - 1 < i => i = n \/ n < i
      BY <1>5
    <3> SUFFICES ASSUME ~ disturbed, NEW i \in DOMAIN ks, ks[i].path # ""
                 PROVE  \/ files'[ks[i].path] = "key"
                        \/ files'[ks[i].path] = "missing" /\ n < i
      BY <1>2, <2>1
    <3>3. ks[i].path \in Paths /\ i \in Nat
      BY <1>3, <3>1
    <3>4. files[ks[i].path] = "key" \/ (files[ks[i].path] = "missing" /\ n - 1 < i)
      BY <1>1, <1>2, <1>5 DEF Materials
    <3>5. CASE i = n
      BY <1>1, <2>4, <3>5
    <3>6. CASE i # n
      <4>1. files'[ks[i].path] = files[ks[i].path] \/ files'[ks[i].path] = "key"
        BY <2>4, <3>3
      <4> QED
        BY <3>2, <3>3, <3>4, <3>6, <4>1
    <3> QED
      BY <3>5, <3>6
  <2> HIDE DEF SigningKeys
  <2>7. Materials'
    BY <2>2, <2>5, <2>6 DEF Materials
  <2>8. Loaded'
    <3>1. ks \in Seq(KeyConfig)
      BY <1>3
    <3>2. Len(signers') <= Len(ks)
      BY <1>5, <2>1, <3>1
    <3> QED
      BY <2>2, <2>3, <3>2 DEF Loaded
  <2> QED
    BY <1>2, <1>10, <2>1, <2>2, <2>4, <2>7, <2>8 DEF StartInv, Started
<1> QED
  BY <1>8, <1>9, <1>10

\* The end of loadSigningKeys: the active key is among those that were loaded.
LEMMA SignersLoadedStart == ASSUME StartInv, SignersLoaded PROVE StartInv'
<1>1. PICK ks : ks = SigningKeys
  OBVIOUS
<1>2. /\ phase = "signers" /\ Accepted /\ Materials /\ Loaded /\ cfg.issuer # ""
      /\ signers \in Seq(Strings) /\ UNCHANGED <<wire, env, disturbed>>
      /\ ~ (Len(signers) < Len(ks))
  BY <1>1 DEF StartInv, Started, SignersLoaded, KeysLeft, SigningKeys
<1>3. /\ ks \in Seq(KeyConfig)
      /\ cfg.activeKID # "" => \E i \in DOMAIN ks : orDefaultKID(ks[i].kid) = cfg.activeKID
  BY <1>1, <1>2, AcceptedKeys
<1>4. /\ Len(signers) = Len(ks) /\ DOMAIN signers = DOMAIN ks
      /\ \A i \in DOMAIN signers : signers[i] = orDefaultKID(ks[i].kid)
  <2>1. Len(signers) <= Len(ks) /\ \A i \in DOMAIN signers : signers[i] = orDefaultKID(ks[i].kid)
    BY <1>1, <1>2 DEF Loaded
  <2>2. ks \in Seq(KeyConfig) /\ signers \in Seq(Strings) /\ ~ (Len(signers) < Len(ks))
    BY <1>2, <1>3
  <2>3. Len(signers) = Len(ks) /\ DOMAIN signers = DOMAIN ks
    BY <2>1, <2>2
  <2> QED
    BY <2>1, <2>3
<1>5. cfg.activeKID = "" \/ \E i \in DOMAIN signers : signers[i] = cfg.activeKID
  BY <1>3, <1>4
<1>6. phase' = "build" /\ UNCHANGED <<cfg, files, signers, active, failedIn>>
  BY <1>5 DEF SignersLoaded
<1>7. SigningKeys' = ks /\ Accepted' /\ ValidatedStarts'
  BY <1>1, <1>2, <1>6, AcceptedKept DEF SigningKeys, ValidatedStarts, IssuerTrimmed, serverIssuer, StartInv
<1> HIDE DEF SigningKeys
<1>8. Materials' /\ Loaded'
  BY <1>1, <1>2, <1>6, <1>7 DEF Materials, Loaded
<1> QED
  BY <1>2, <1>4, <1>6, <1>7, <1>8 DEF StartInv, Started

\* The signers of a start whose keys are loaded are what the server's builder asks for.
LEMMA SignersBuild ==
    ASSUME StartInv, phase \in {"build", "serving"}
    PROVE  /\ signers # <<>> /\ \A i \in DOMAIN signers : signers[i] # ""
           /\ Distinct(signers)
           /\ cfg.activeKID # "" => \E i \in DOMAIN signers : signers[i] = cfg.activeKID
           /\ \A i \in DOMAIN signers : TrimSpace(signers[i]) = signers[i]
           /\ clientsOK(cfg.clients)
<1>1. PICK ks : ks = SigningKeys
  OBVIOUS
<1>2. Accepted /\ Loaded /\ signers \in Seq(Strings) /\ Len(signers) = Len(ks)
  BY <1>1 DEF StartInv, Started
<1>3. /\ ks \in Seq(KeyConfig) /\ ks # <<>>
      /\ \A i \in DOMAIN ks : /\ orDefaultKID(ks[i].kid) \in Strings \ {""}
                              /\ TrimSpace(orDefaultKID(ks[i].kid)) = orDefaultKID(ks[i].kid)
      /\ \A i, j \in DOMAIN ks : orDefaultKID(ks[i].kid) = orDefaultKID(ks[j].kid) => i = j
      /\ cfg.activeKID # "" => \E i \in DOMAIN ks : orDefaultKID(ks[i].kid) = cfg.activeKID
      /\ clientsOK(cfg.clients)
  BY <1>1, <1>2, AcceptedKeys
<1>4. /\ DOMAIN signers = DOMAIN ks /\ signers # <<>>
      /\ \A i \in DOMAIN signers : signers[i] = orDefaultKID(ks[i].kid)
  <2>1. \A i \in DOMAIN signers : signers[i] = orDefaultKID(ks[i].kid)
    BY <1>1, <1>2 DEF Loaded
  <2>2. ks \in Seq(KeyConfig) /\ ks # <<>> /\ signers \in Seq(Strings) /\ Len(signers) = Len(ks)
    BY <1>2, <1>3
  <2>3. DOMAIN signers = DOMAIN ks /\ signers # <<>>
    BY <2>2
  <2> QED
    BY <2>1, <2>3
<1>5. Distinct(signers)
  <2> SUFFICES ASSUME NEW i \in DOMAIN signers, NEW j \in DOMAIN signers, signers[i] = signers[j]
               PROVE  i = j
    BY DEF Distinct
  <2> QED
    BY <1>3, <1>4
<1> QED
  BY <1>3, <1>4, <1>5
\* The server's builder: it refuses what validation let through only for its issuer.
LEMMA BuildServerStart == ASSUME StartInv, BuildServer PROVE StartInv'
<1>1. /\ phase = "build" /\ Accepted /\ Materials /\ Loaded /\ cfg.issuer # ""
      /\ UNCHANGED <<wire, env, disturbed>> /\ Len(signers) = Len(SigningKeys)
  BY DEF StartInv, Started, BuildServer
<1>2. CASE serverIssuer(cfg) = "" /\ Fail
  <2>1. signers' = signers
    BY <1>2 DEF Fail
  <2>2. IssuerVanishes
    BY <1>1, <1>2 DEF Accepted, IssuerTrimmed, IssuerVanishes, serverIssuer
  <2>3. (disturbed => disturbed') /\ phase # "signers"
    BY <1>1
  <2> QED
    BY <1>1, <1>2, <2>1, <2>2, <2>3, FailStart
<1>3. CASE /\ active' = chooseActive(cfg.activeKID, signers) /\ phase' = "serving"
           /\ UNCHANGED <<cfg, files, signers, failedIn>>
  <2>1. SigningKeys' = SigningKeys /\ Accepted' /\ ValidatedStarts'
    BY <1>1, <1>3, AcceptedKept DEF SigningKeys, ValidatedStarts, IssuerTrimmed, serverIssuer, StartInv
  <2>2. Materials' /\ Loaded'
    BY <1>1, <1>3, <2>1 DEF Materials, Loaded
  <2> QED
    BY <1>1, <1>3, <2>1, <2>2 DEF StartInv, Started
<1> QED
  BY <1>1, <1>2, <1>3, SignersBuild, Zenon DEF BuildServer

\* Other processes and operators that change key files.
LEMMA DisturbStart == ASSUME StartInv, NEW p \in Paths, Disturb(p) PROVE StartInv'
<1>1. /\ UNCHANGED <<phase, wire, cfg, env, signers, active, failedIn>> /\ disturbed'
      /\ files' \in [Paths -> {"missing", "key", "garbage", "unreadable"}]
  BY DEF Disturb, StartInv
<1>2. SigningKeys' = SigningKeys /\ (Accepted => Accepted') /\ ValidatedStarts'
  BY <1>1, AcceptedKept DEF SigningKeys, ValidatedStarts, IssuerTrimmed, serverIssuer, StartInv
<1>3. (Materials => Materials') /\ (Loaded => Loaded')
  BY <1>1, <1>2 DEF Materials, Loaded
<1> QED
  BY <1>1, <1>2, <1>3 DEF StartInv, Started

\* Every step of a start, and of the process it is part of.
LEMMA NextStart == ASSUME StartInv, [Next]_vars PROVE StartInv'
<1>1. CASE LoadConfig
  BY <1>1, LoadConfigStart
<1>2. CASE ResolveConfig
  BY <1>2, ResolveConfigStart
<1>3. CASE LoadSigner
  BY <1>3, LoadSignerStart
<1>4. CASE LoadSignerFails
  <2>1. /\ Fail /\ UNCHANGED wire /\ disturbed' /\ phase = "signers" /\ signers' = signers
    BY <1>4 DEF LoadSignerFails, Fail
  <2>2. (disturbed => disturbed') /\ phase # "build"
    BY <2>1
  <2> QED
    BY <2>1, <2>2, FailStart
<1>5. CASE SignersLoaded
  BY <1>5, SignersLoadedStart
<1>6. CASE BuildServer
  BY <1>6, BuildServerStart
<1>7. CASE \E p \in Paths : Disturb(p)
  BY <1>7, DisturbStart
<1>8. CASE UNCHANGED vars
  <2>1. UNCHANGED <<phase, wire, cfg, files, env, signers, active, failedIn, disturbed>>
    BY <1>8 DEF vars
  <2>2. SigningKeys' = SigningKeys /\ (Accepted => Accepted') /\ ValidatedStarts'
    BY <2>1, AcceptedKept DEF SigningKeys, ValidatedStarts, IssuerTrimmed, serverIssuer, StartInv
  <2>3. (Materials => Materials') /\ (Loaded => Loaded')
    BY <2>1, <2>2 DEF Materials, Loaded
  <2> QED
    BY <2>1, <2>2, <2>3 DEF StartInv, Started
<1> QED
  BY <1>1, <1>2, <1>3, <1>4, <1>5, <1>6, <1>7, <1>8 DEF Next

\* The start goes through the states of StartInv, whatever else the process does.
LEMMA StartInvariant == ProcessSpec => []StartInv
<1>1. ProcessInit => StartInv
  <2> SUFFICES ASSUME Init PROVE StartInv
    BY DEF ProcessInit
  <2>1. phase = "load" /\ wire \in Configs /\ cfg = Absent /\ signers = <<>> /\ failedIn = ""
    BY DEF Init
  <2>2. files \in [Paths -> {"missing", "key", "garbage", "unreadable"}]
    BY DEF Init
  <2>3. <<>> \in Seq(Strings)
    OBVIOUS
  <2> QED
    BY <2>1, <2>2, <2>3 DEF StartInv, Started, ValidatedStarts
<1>2. StartInv /\ [ProcessNext]_processVars => StartInv'
  <2> SUFFICES ASSUME StartInv, [ProcessNext]_processVars PROVE [Next]_vars
    BY NextStart
  <2> QED
    BY DEF ProcessNext, ParseFlags, Starts, Notify, SignalKills, Serves, processVars
<1> QED
  BY <1>1, <1>2, PTL DEF ProcessSpec
-----------------------------------------------------------------------------
(* What a start promises *)

\* The configuration that was accepted, compiled once more.
LEMMA AcceptedAgain ==
    ASSUME StartInv, Accepted
    PROVE  /\ Validated \in RuntimeConfig /\ Validated.issuer = TrimIssuer(wire.issuer)
           /\ Validated.activeKID = TrimSpace(wire.activeKID)
           /\ normalizeRuntimeConfig(cfg) \in RuntimeConfig
           /\ normalizeRuntimeConfig(cfg).issuer = TrimIssuer(cfg.issuer)
           /\ SameFields(normalizeRuntimeConfig(cfg), Validated)
           /\ ~ normalizeRuntimeConfig(cfg).rateLimit.limitSet
           /\ ~ normalizeRuntimeConfig(cfg).rateLimit.windowSet
<1>1. PICK w, v, c, n : /\ w = runtimeConfig(wire) /\ v = normalizeRuntimeConfig(w)
                        /\ c = cfg /\ n = normalizeRuntimeConfig(c)
  OBVIOUS
<1>2. w \in RuntimeConfig /\ w.issuer = wire.issuer /\ w.activeKID = wire.activeKID
  BY <1>1, Decoded DEF StartInv
<1>3. /\ v = Validated /\ v \in RuntimeConfig /\ v.issuer = TrimIssuer(wire.issuer)
      /\ v.activeKID = TrimSpace(wire.activeKID)
  BY <1>1, <1>2, Normalized DEF Validated
<1>4. /\ c \in RuntimeConfig /\ Trimmed(c) /\ SameFields(c, v)
      /\ ~ c.rateLimit.limitSet /\ ~ c.rateLimit.windowSet
  BY <1>1, <1>3 DEF Accepted
<1>5. /\ n \in RuntimeConfig /\ n.issuer = TrimIssuer(c.issuer) /\ SameFields(n, c)
      /\ ~ n.rateLimit.limitSet /\ ~ n.rateLimit.windowSet
  BY <1>1, <1>4, Normalized
<1>6. SameFields(n, v)
  BY <1>4, <1>5 DEF SameFields
<1> QED
  BY <1>1, <1>3, <1>5, <1>6

\* compileConfig and resolveConfig: compiling the compiled configuration changes at most
\* its issuer, and refuses it only when nothing is left of that.
THEOREM CompilingIsStable == ProcessSpec => []CompilesAgain
<1>1. ASSUME StartInv PROVE CompilesAgain
  <2> SUFFICES ASSUME cfg # Absent
               PROVE  LET f == normalizeRuntimeConfig(runtimeConfig(wire))
                          again == normalizeRuntimeConfig(cfg)
                      IN  /\ again.issuer # "" => Compiles(cfg)
                          /\ IssuerTrimmed => again.issuer = f.issuer
                          /\ accessTokenTTL(again) = accessTokenTTL(f)
                          /\ normalizeRateLimit(again.rateLimit) = normalizeRateLimit(f.rateLimit)
                          /\ effectiveKeyConfigs(again) = effectiveKeyConfigs(f)
    BY DEF CompilesAgain
  <2>1. Accepted
    BY <1>1 DEF StartInv
  <2>2. PICK v, n : v = Validated /\ n = normalizeRuntimeConfig(cfg)
    OBVIOUS
  <2>3. /\ v \in RuntimeConfig /\ v.issuer = TrimIssuer(wire.issuer)
        /\ n \in RuntimeConfig /\ n.issuer = TrimIssuer(cfg.issuer)
        /\ SameFields(n, v) /\ ~ n.rateLimit.limitSet /\ ~ n.rateLimit.windowSet /\ Checked(v)
    <3>1. Checked(v)
      BY <2>1, <2>2 DEF Accepted
    <3> QED
      BY <1>1, <2>1, <2>2, <3>1, AcceptedAgain
  <2>4. /\ n.issuer # "" => Checked(n)
        /\ accessTokenTTL(n) = accessTokenTTL(v)
        /\ normalizeRateLimit(n.rateLimit) = normalizeRateLimit(v.rateLimit)
        /\ effectiveKeyConfigs(n) = effectiveKeyConfigs(v)
    BY <2>3, CheckedAgain
  <2>5. IssuerTrimmed => n.issuer = v.issuer
    BY <2>1, <2>3 DEF Accepted, IssuerTrimmed
  <2>6. Compiles(cfg) = Checked(n)
    BY <2>2, CompilesChecks
  <2> QED
    BY <2>2, <2>4, <2>5, <2>6 DEF Validated
<1> QED
  BY <1>1, StartInvariant, PTL

\* validateSigningConfig, validateKeyMaterials and what they leave to LoadSigner and the
\* server's builder: validation is complete, but for the issuer.
THEOREM ValidationIsComplete == ProcessSpec => []ValidatedStarts
<1>1. StartInv => ValidatedStarts
  BY DEF StartInv
<1> QED
  BY <1>1, StartInvariant, PTL

\* effectiveActiveKID, validateConfig and loadSigningKeys agree on the active key.
THEOREM OneActiveKey == ProcessSpec => []ActiveKeyAgreed
<1>1. ASSUME StartInv PROVE ActiveKeyAgreed
  <2> SUFFICES ASSUME phase = "serving"
               PROVE  /\ \E i \in DOMAIN signers : signers[i] = active
                      /\ active = reportedKID
                      /\ TrimSpace(wire.activeKID) \in {"", active}
    BY DEF ActiveKeyAgreed
  <2>1. Accepted /\ active = chooseActive(cfg.activeKID, signers) /\ signers \in Seq(Strings)
    BY <1>1 DEF StartInv, Started
  <2>2. signers # <<>> /\ (cfg.activeKID # "" => \E i \in DOMAIN signers : signers[i] = cfg.activeKID)
    BY <1>1, SignersBuild
  <2>3. 1 \in DOMAIN signers
    BY <2>1, <2>2, HasFirst
  <2>4. cfg.activeKID = TrimSpace(wire.activeKID)
    BY <1>1, <2>1, AcceptedAgain DEF Accepted, SameFields
  <2> QED
    BY <2>1, <2>2, <2>3, <2>4 DEF chooseActive, reportedKID
<1> QED
  BY <1>1, StartInvariant, PTL

\* JWKSHTTP and decodeSet: every kid of the server is in a document that decodes.
THEOREM PublishedKeysDecode == ProcessSpec => []PublishedKeysUsable
<1>1. ASSUME StartInv, phase = "serving"
      PROVE  /\ decodeSet(JWKS).ok
             /\ DOMAIN decodeSet(JWKS).keys = {signers[i] : i \in DOMAIN signers}
             /\ forAlgorithm(decodeSet(JWKS).keys[active], EdDSA)
  <2>1. /\ signers # <<>> /\ \A i \in DOMAIN signers : signers[i] # ""
        /\ Distinct(signers)
        /\ \A i \in DOMAIN signers : TrimSpace(signers[i]) = signers[i]
    BY <1>1, SignersBuild
  <2>2. PICK set : set = JWKS
    OBVIOUS
  <2>3. /\ DOMAIN set = DOMAIN signers
        /\ \A i \in DOMAIN signers : set[i] = NewEd25519Key(signers[i], i)
    BY <2>2 DEF JWKS
  <2>4. \A i \in DOMAIN signers :
            /\ set[i].kid = signers[i] /\ set[i].use = "sig" /\ set[i].alg = EdDSA
            /\ set[i].kty = "OKP" /\ set[i].crv = "Ed25519" /\ set[i].x.size = 32
    <3> TAKE i \in DOMAIN signers
    <3>1. set[i] = NewEd25519Key(signers[i], i)
      BY <2>3
    <3>2. TrimSpace(signers[i]) = signers[i]
      BY <2>1
    <3>3. NewEd25519Key(signers[i], i).x.size = 32
      BY DEF NewEd25519Key, Octets
    <3> QED
      BY <3>1, <3>2, <3>3 DEF NewEd25519Key
  <2>5. signers \in Seq(Strings) /\ 1 \in DOMAIN signers
    <3>1. signers \in Seq(Strings)
      BY <1>1 DEF StartInv
    <3> QED
      BY <2>1, <3>1, HasFirst
  <2>6. set # <<>>
    BY <2>3, <2>5
  <2>7. \A i \in DOMAIN set : /\ TrimSpace(set[i].kid) # "" /\ set[i].use \in {"", "sig"}
                              /\ validateDeclaredAlgorithm(set[i]) /\ Decodes(set[i])
    <3> TAKE i \in DOMAIN set
    <3>1. /\ set[i].kid = signers[i] /\ set[i].use = "sig" /\ set[i].alg = EdDSA
          /\ set[i].kty = "OKP" /\ set[i].crv = "Ed25519" /\ set[i].x.size = 32
      BY <2>3, <2>4
    <3>2. TrimSpace(signers[i]) # ""
      BY <2>1, <2>3
    <3>3. Decodes(set[i])
      BY <3>1 DEF Decodes, decodesEd25519
    <3>4. validateDeclaredAlgorithm(set[i])
      BY <3>1 DEF validateDeclaredAlgorithm
    <3> QED
      BY <3>1, <3>2, <3>3, <3>4
  <2>8. \A i, j \in DOMAIN set : set[i].kid = set[j].kid => i = j
    <3> TAKE i, j \in DOMAIN set
    <3>1. set[i].kid = signers[i] /\ set[j].kid = signers[j]
      BY <2>3, <2>4
    <3>2. signers[i] = signers[j] => i = j
      BY <2>1, <2>3 DEF Distinct
    <3> QED
      BY <3>1, <3>2
  <2>9. decodeSet(set).ok
    BY <2>6, <2>7, <2>8 DEF decodeSet
  <2>10. {set[i].kid : i \in DOMAIN set} = {signers[i] : i \in DOMAIN signers}
    BY <2>3, <2>4
  <2>11. \E i \in DOMAIN set : set[i].kid = active
    <3>1. active = chooseActive(cfg.activeKID, signers)
      BY <1>1 DEF StartInv
    <3>2. cfg.activeKID # "" => \E i \in DOMAIN signers : signers[i] = cfg.activeKID
      BY <1>1, SignersBuild
    <3>3. \E i \in DOMAIN signers : signers[i] = active
      BY <2>5, <3>1, <3>2 DEF chooseActive
    <3> QED
      BY <2>3, <2>4, <3>3
  <2>12. DOMAIN decodeSet(set).keys = {set[i].kid : i \in DOMAIN set}
    BY DEF decodeSet
  <2>13. decodeSet(set).keys[active].declaredAlg = EdDSA
    <3>1. PICK k : /\ k \in DOMAIN set /\ set[k].kid = active
                   /\ decodeSet(set).keys[active].declaredAlg = set[k].alg
      BY <2>11 DEF decodeSet
    <3> QED
      BY <2>3, <2>4, <3>1
  <2> QED
    BY <2>2, <2>9, <2>10, <2>12, <2>13 DEF forAlgorithm
<1>2. StartInv => PublishedKeysUsable
  BY <1>1 DEF PublishedKeysUsable
<1> QED
  BY <1>2, StartInvariant, PTL
\* The defaults of a rate limit.
LEMMA DefaultsPositive == DefaultLimit > 0 /\ DefaultWindow > 0
<1>1. DefaultLimit \in Nat \ {0} /\ DefaultWindow \in Nat \ {0}
  BY DefaultsAssumption
<1>2. \A n \in Nat \ {0} : n > 0
  OBVIOUS
<1> QED
  BY <1>1, <1>2, Zenon

\* A number that is not refused is positive.
LEMMA NotRefused == \A n \in Int : ~ (n <= 0) => n > 0
OBVIOUS

\* The fields of an effectiveRateLimit.
LEMMA LimitFields ==
    ASSUME NEW a, NEW b, NEW r, r = [limit |-> a, window |-> b]
    PROVE  r.limit = a /\ r.window = b
OBVIOUS

\* normalizeRateLimit: what it accepts is positive.
LEMMA LimitsPositive ==
    ASSUME NEW l \in [limit : Int, window : Strings, limitSet : BOOLEAN, windowSet : BOOLEAN],
           normalizeRateLimit(l) # Absent
    PROVE  normalizeRateLimit(l).limit > 0 /\ normalizeRateLimit(l).window > 0
<1> DEFINE useLimit  == l.limitSet \/ l.limit # 0
           useWindow == l.windowSet \/ l.window # ""
           limit  == IF useLimit THEN l.limit ELSE DefaultLimit
           window == IF useWindow THEN ParseDuration(l.window) ELSE DefaultWindow
<1>1. /\ useLimit => ~ (l.limit <= 0)
      /\ useWindow => ParseDuration(l.window) # Absent /\ ~ (ParseDuration(l.window) <= 0)
      /\ normalizeRateLimit(l) = [limit |-> limit, window |-> window]
  BY Zenon DEF normalizeRateLimit
<1>2. l.limit \in Int /\ ParseDuration(l.window) \in {Absent} \cup Int
  BY StringsAssumption
<1>3. useLimit => l.limit > 0
  BY <1>1, <1>2, NotRefused, Zenon
<1>4. useWindow => ParseDuration(l.window) > 0
  <2>1. useWindow => ParseDuration(l.window) \in Int
    BY <1>1, <1>2
  <2> QED
    BY <1>1, <2>1, NotRefused, Zenon
<1>5. limit > 0
  BY <1>3, DefaultsPositive, Zenon
<1>6. window > 0
  BY <1>4, DefaultsPositive, Zenon
<1>7. PICK a, b, r : a = limit /\ b = window /\ r = normalizeRateLimit(l)
  OBVIOUS
<1>8. r = [limit |-> a, window |-> b]
  BY <1>1, <1>7, Zenon
<1>9. a > 0 /\ b > 0
  BY <1>5, <1>6, <1>7, Zenon
<1> HIDE DEF limit, window, useLimit, useWindow
<1>10. r.limit = a /\ r.window = b
  BY <1>8, LimitFields
<1> QED
  BY <1>7, <1>9, <1>10, Zenon

\* compileConfig, LoadSigner: what the rate limiter, the tokens' clients and the next
\* start rely on.
THEOREM UsableConfig == ProcessSpec => []ServesUsableConfig
<1>1. ASSUME StartInv, phase = "serving"
      PROVE  /\ accessTokenTTL(cfg) >= Second
             /\ normalizeRateLimit(cfg.rateLimit).limit > 0
             /\ normalizeRateLimit(cfg.rateLimit).window > 0
             /\ disturbed \/ \A i \in DOMAIN effectiveKeyConfigs(cfg) :
                   LET p == effectiveKeyConfigs(cfg)[i].path IN p # "" => files[p] = "key"
  <2>1. Accepted /\ Materials /\ Len(signers) = Len(SigningKeys)
    BY <1>1 DEF StartInv, Started
  <2>2. PICK v, c : v = Validated /\ c = cfg
    OBVIOUS
  <2>3. /\ v \in RuntimeConfig /\ c \in RuntimeConfig /\ SameFields(c, v) /\ Checked(v)
        /\ ~ c.rateLimit.limitSet /\ ~ c.rateLimit.windowSet
    <3>1. v \in RuntimeConfig
      BY <1>1, <2>1, <2>2, AcceptedAgain
    <3> QED
      BY <2>1, <2>2, <3>1 DEF Accepted
  <2>4. /\ accessTokenTTL(c) = accessTokenTTL(v)
        /\ normalizeRateLimit(c.rateLimit) = normalizeRateLimit(v.rateLimit)
    BY <2>3, CheckedAgain
  <2>5. accessTokenTTL(v) >= Second /\ normalizeRateLimit(v.rateLimit) # Absent
    BY <2>3 DEF Checked, ttlOK
  <2>6. c.rateLimit \in [limit : Int, window : Strings, limitSet : BOOLEAN, windowSet : BOOLEAN]
    BY <2>3 DEF RuntimeConfig
  <2>7. normalizeRateLimit(c.rateLimit).limit > 0 /\ normalizeRateLimit(c.rateLimit).window > 0
    BY <2>4, <2>5, <2>6, LimitsPositive
  <2>8. ASSUME ~ disturbed, NEW i \in DOMAIN SigningKeys, SigningKeys[i].path # ""
        PROVE  files[SigningKeys[i].path] = "key"
    <3>1. PICK ks : ks = SigningKeys
      OBVIOUS
    <3>2. ks \in Seq(KeyConfig)
      BY <2>1, <3>1, AcceptedKeys
    <3>3. \A j \in DOMAIN ks : ~ (Len(ks) < j)
      BY <3>2
    <3>4. files[ks[i].path] = "key" \/ (files[ks[i].path] = "missing" /\ Len(ks) < i)
      BY <2>1, <2>8, <3>1 DEF Materials
    <3> QED
      BY <2>8, <3>1, <3>3, <3>4
  <2> QED
    BY <2>2, <2>4, <2>5, <2>7, <2>8 DEF SigningKeys
<1>2. StartInv => ServesUsableConfig
  BY <1>1 DEF ServesUsableConfig
<1> QED
  BY <1>2, StartInvariant, PTL

-----------------------------------------------------------------------------
(* The end of the process *)

\* Nothing begins before the command line is parsed; the two goroutines of serveHTTPServer, the channel between them, and net/http.
ExitInv ==
    /\ inFlight \in Nat
    /\ flags # "parsed" => phase = "load" /\ cfg = Absent /\ signers = <<>>
    /\ ~ notified => result = "" /\ serve = "start"
    /\ notified => phase = "serving"
    /\ main = "select" => ~ closing
    /\ closing => signalled
    /\ serveErr = "closed" => closing
    /\ errCh # <<>> => errCh = <<serveErr>> /\ serve = "ended"
    /\ serve \in {"start", "serving"} => serveErr = "" /\ errCh = <<>>
    /\ main \in {"shutdown", "receive"} => closing
    /\ main = "receive" => inFlight = 0
    /\ serveErr \in {"", "closed", "failed"}
    /\ result = "nil" => inFlight = 0 /\ closing /\ serveErr = "closed" /\ serve = "ended"
\* The channel holds at most one error, the one that the serving goroutine sent.
LEMMA OneError ==
    ASSUME NEW e, NEW c, c = <<e>>
    PROVE  c # <<>> /\ Len(c) = 1 /\ Head(c) = e /\ Tail(c) = <<>> /\ Append(<<>>, e) = c
OBVIOUS

\* One step of serveHTTPServer, of the serving goroutine, of net/http or of the signal.
LEMMA ServesExit ==
    ASSUME ExitInv, Serves
    PROVE  ExitInv'
<1>1. /\ phase = "serving" /\ notified /\ phase' = phase /\ notified' = notified
      /\ flags = "parsed" /\ flags' = flags
      /\ Server!Next
  BY DEF Serves, vars, ExitInv
<1>2. CASE Server!Listen
  BY <1>1, <1>2 DEF ExitInv, Server!Listen
<1>3. CASE Server!ServeFails
  BY <1>1, <1>3 DEF ExitInv, Server!ServeFails, Server!ServeReturns
<1>4. CASE Server!ServeCloses
  BY <1>1, <1>4 DEF ExitInv, Server!ServeCloses, Server!ServeReturns
<1>5. CASE Server!Send
  <2>1. errCh = <<>> /\ errCh' = <<serveErr>>
    <3>1. errCh = <<>> \/ errCh = <<serveErr>>
      BY DEF ExitInv
    <3>2. Len(errCh) < 1 /\ errCh' = Append(errCh, serveErr)
      BY <1>5 DEF Server!Send
    <3>3. ASSUME errCh = <<serveErr>> PROVE FALSE
      <4>1. Len(errCh) = 1
        BY <3>3, OneError
      <4> QED
        BY <3>2, <4>1
    <3>4. errCh = <<>>
      BY <3>1, <3>3
    <3> QED
      BY <3>2, <3>4, OneError
  <2> QED
    BY <1>1, <1>5, <2>1 DEF ExitInv, Server!Send
<1>6. CASE Server!SelectDone
  BY <1>1, <1>6 DEF ExitInv, Server!SelectDone
<1>7. CASE Server!SelectErr
  <2>1. /\ errCh = <<serveErr>> /\ serve = "ended" /\ ~ closing /\ serveErr # "closed"
        /\ main' = "returned" /\ errCh' = Tail(errCh) /\ result' = Server!Reported(Head(errCh))
        /\ UNCHANGED <<signalled, serve, serveErr, closing, inFlight>>
    BY <1>7 DEF ExitInv, Server!SelectErr, Server!Returns
  <2>2. errCh' = <<>> /\ result' = serveErr
    BY <2>1 DEF Server!Reported
  <2>3. serveErr # "nil"
    BY DEF ExitInv
  <2> QED
    BY <1>1, <2>1, <2>2, <2>3 DEF ExitInv
<1>8. CASE Server!ShutdownIdle
  <2>1. /\ main = "shutdown" /\ inFlight = 0 /\ main' = "receive"
        /\ UNCHANGED <<signalled, serve, serveErr, errCh, closing, inFlight, result>>
    BY <1>8 DEF Server!ShutdownIdle
  <2> QED
    BY <1>1, <2>1 DEF ExitInv
<1>9. CASE Server!ShutdownDeadline
  BY <1>1, <1>9 DEF ExitInv, Server!ShutdownDeadline, Server!Returns
<1>10. CASE Server!ReceiveErr
  <2>1. /\ errCh = <<serveErr>> /\ serve = "ended" /\ closing /\ inFlight = 0
        /\ main' = "returned" /\ errCh' = Tail(errCh) /\ result' = Server!Reported(Head(errCh))
        /\ UNCHANGED <<signalled, serve, serveErr, closing, inFlight>>
    BY <1>10 DEF ExitInv, Server!ReceiveErr, Server!Returns
  <2>2. errCh' = <<>> /\ (result' = "nil" => serveErr = "closed")
    <3>1. Head(errCh) = serveErr /\ errCh' = <<>>
      BY <2>1, OneError
    <3>2. serveErr # "nil"
      BY DEF ExitInv
    <3> QED
      BY <2>1, <3>1, <3>2 DEF Server!Reported
  <2> QED
    BY <1>1, <2>1, <2>2 DEF ExitInv
<1>11. CASE Server!Request
  <2>1. /\ UNCHANGED <<signalled, main, serve, serveErr, errCh, closing, result>>
        /\ inFlight' = inFlight + 1 /\ ~ closing
    BY <1>11 DEF Server!Request
  <2>2. inFlight \in Nat
    BY DEF ExitInv
  <2>3. inFlight' \in Nat
    BY <2>1, <2>2
  <2> QED
    BY <1>1, <2>1, <2>3, Zenon DEF ExitInv
<1>12. CASE Server!Answer
  <2>1. /\ UNCHANGED <<signalled, main, serve, serveErr, errCh, closing, result>>
        /\ inFlight' = inFlight - 1 /\ inFlight > 0
    BY <1>12 DEF Server!Answer
  <2>2. inFlight \in Nat
    BY DEF ExitInv
  <2>3. inFlight' \in Nat /\ inFlight # 0
    BY <2>1, <2>2
  <2> QED
    BY <1>1, <2>1, <2>3, Zenon DEF ExitInv
<1>13. CASE Server!Signal
  BY <1>1, <1>13 DEF ExitInv, Server!Signal
<1> QED
  BY <1>1, <1>2, <1>3, <1>4, <1>5, <1>6, <1>7, <1>8, <1>9, <1>10, <1>11, <1>12, <1>13
  DEF Server!Next, Server!Serving, Server!Main

\* Until it serves, nothing of serveHTTPServer moves; a start never leaves "serving".
LEMMA OutsideExit ==
    ASSUME ExitInv, ParseFlags \/ Starts \/ Notify \/ SignalKills \/ UNCHANGED processVars
    PROVE  ExitInv'
<1>1. UNCHANGED server
  BY DEF ParseFlags, Starts, Notify, SignalKills, processVars
<1>2. UNCHANGED <<signalled, main, serve, serveErr, errCh, closing, inFlight, result>>
  BY <1>1 DEF server
<1>3. notified' = notified \/ (notified' /\ phase = "serving")
  BY DEF ParseFlags, Starts, Notify, SignalKills, processVars
<1>4. phase = "serving" => phase' = "serving"
  BY DEF ParseFlags, Starts, Notify, SignalKills, processVars, vars, Next, LoadConfig,
         ResolveConfig, LoadSigner, LoadSignerFails, SignersLoaded, BuildServer, Disturb
<1>5. notified => notified'
  BY DEF ParseFlags, Starts, Notify, SignalKills, processVars
<1>6. \/ flags = "parsed" /\ flags' = flags
      \/ UNCHANGED <<phase, cfg, signers>> /\ (flags' # "parsed" => flags # "parsed")
  <2>1. CASE Starts
    BY <2>1 DEF Starts
  <2>2. CASE ParseFlags \/ Notify \/ SignalKills \/ UNCHANGED processVars
    BY <2>2 DEF ParseFlags, Notify, SignalKills, processVars, vars
  <2> QED
    BY <2>1, <2>2
<1> QED
  <2>1. ~ notified' => result' = "" /\ serve' = "start"
    BY <1>2, <1>5, Zenon DEF ExitInv
  <2>2. notified' => phase' = "serving"
    BY <1>3, <1>4, Zenon DEF ExitInv
  <2>3. flags' # "parsed" => phase' = "load" /\ cfg' = Absent /\ signers' = <<>>
    BY <1>6, Zenon DEF ExitInv
  <2> QED
    BY <1>2, <2>1, <2>2, <2>3 DEF ExitInv

\* run and main: an exit code of zero means that help was asked for and nothing was
\* done, or that the server served, was told to stop, answered every request and closed.
THEOREM SuccessIsClean == ProcessSpec => []CleanExit
<1>1. ProcessInit => ExitInv
  <2> SUFFICES ASSUME Server!Init, notified = FALSE,
                      phase = "load" /\ cfg = Absent /\ signers = <<>>
               PROVE  ExitInv
    BY DEF ProcessInit, Init
  <2>1. inFlight \in Nat
    BY DEF Server!Init
  <2>2. /\ main = "select" /\ serve = "start" /\ serveErr = "" /\ errCh = <<>> /\ ~ closing
        /\ result = "" /\ ~ notified
    BY DEF Server!Init
  <2> QED
    BY <2>1, <2>2 DEF ExitInv
<1>2. ExitInv /\ [ProcessNext]_processVars => ExitInv'
  BY ServesExit, OutsideExit DEF ProcessNext
<1>3. ExitInv => CleanExit
  <2>1. ASSUME ExitInv, Over, ExitCode = 0, flags = "help"
        PROVE  cfg = Absent /\ signers = <<>> /\ serve = "start"
    <3>1. phase = "load" /\ cfg = Absent /\ signers = <<>>
      BY <2>1 DEF ExitInv
    <3>2. ~ notified
      BY <2>1, <3>1 DEF ExitInv
    <3> QED
      BY <2>1, <3>1, <3>2 DEF ExitInv
  <2>2. ASSUME ExitInv, ExitCode = 0, flags # "help"
        PROVE  phase = "serving" /\ signalled /\ inFlight = 0 /\ serveErr = "closed"
    <3>1. result = "nil" /\ "nil" # ""
      BY <2>2 DEF ExitCode
    <3>2. notified
      BY <2>2, <3>1, Zenon DEF ExitInv
    <3> QED
      BY <2>2, <3>1, <3>2, Zenon DEF ExitInv
  <2> QED
    BY <2>1, <2>2 DEF CleanExit
<1> QED
  BY <1>1, <1>2, <1>3, PTL DEF ProcessSpec
=============================================================================
