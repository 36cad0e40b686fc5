----------------------- MODULE ConfigAdmissionProofs -----------------------
(***************************************************************************)
(* Admission and loading of any configuration.                             *)
(***************************************************************************)
EXTENDS ConfigAdmission, TLAPS

\* Of the configured providers those before "at" are registered, with their own settings,
\* and no two of them share a name.
Loaded ==
    Providers # Nil =>
        /\ at <= Len(Providers) + 1
        /\ DOMAIN registered = {Providers[i].name : i \in 1..(at - 1)}
        /\ \A i \in 1..(at - 1) : registered[Providers[i].name] = Providers[i]

\* Why loading ended.
Cause ==
    /\ loading = "killed" => Providers # Nil /\ ~DistinctNames
    /\ loading = "failed" =>
           \/ error \in {"directory", "binary"}
           \/ Providers # Nil /\ \E i \in 1..Len(Providers) : Providers[i].apiVersion \notin APIVersions
    /\ loading = "loaded" /\ Providers # Nil => at = Len(Providers) + 1

ConfigInv ==
    /\ TypeOK
    /\ config \in Configs
    /\ Providers = Nil => registered = << >>
    /\ admission = "admitted" => Providers # Nil /\ Valid(config)
    /\ Loaded
    /\ Cause

\* What the assumption says of the configuration at hand.
LEMMA ProvidersType ==
    ASSUME ConfigInv, Providers # Nil
    PROVE  /\ Providers \in Seq(Provider)
           /\ Len(Providers) \in Nat
  BY AdmissionAssumption DEF ConfigInv, Providers

LEMMA InitConfigInv == Init => ConfigInv
<1> SUFFICES ASSUME Init PROVE ConfigInv
  OBVIOUS
<1>1. DOMAIN registered = {}
  BY DEF Init
<1>2. Providers # Nil => Len(Providers) \in Nat
  BY AdmissionAssumption DEF Init, Providers
<1> QED
  BY <1>1, <1>2, AdmissionAssumption DEF Init, ConfigInv, TypeOK, Loaded, Cause

\* A step that neither loads nor changes the configuration.
LEMMA OutsideKeeps ==
    ASSUME ConfigInv,
           \/ Panic \/ Validate \/ MakeDirectory
           \/ \E name \in Installable : Install(name)
           \/ UNCHANGED vars
    PROVE  ConfigInv'
<1>1. config' = config /\ UNCHANGED loadVars
  BY DEF Panic, Validate, MakeDirectory, Install, vars, loadVars, Default
<1>2. /\ admission' \in {"none", "admitted", "rejected", "panicked"}
      /\ installed' \subseteq Installable \cup {"."}
      /\ admission' = "admitted" => Providers # Nil /\ Valid(config)
  <2>1. CASE Panic
    BY <2>1 DEF Panic, ConfigInv, TypeOK
  <2>2. CASE Validate
    BY <2>2 DEF Validate, Default, ConfigInv, TypeOK
  <2>3. CASE MakeDirectory
    BY <2>3 DEF MakeDirectory, ConfigInv, TypeOK
  <2>4. ASSUME NEW name \in Installable, Install(name)
        PROVE  /\ installed' \subseteq Installable \cup {"."}
               /\ admission' = admission
    BY <2>4 DEF Install, ConfigInv, TypeOK
  <2>5. CASE UNCHANGED vars
    BY <2>5 DEF vars, ConfigInv, TypeOK
  <2> QED
    BY <2>1, <2>2, <2>3, <2>4, <2>5 DEF ConfigInv, TypeOK
<1>3. Providers' = Providers /\ Names' = Names /\ Valid(config)' = Valid(config)
  BY <1>1 DEF Providers, Names, Valid, ValidProvider
<1>4. Loaded' /\ (DistinctNames' <=> DistinctNames)
  BY <1>1, <1>3 DEF ConfigInv, Loaded, DistinctNames, loadVars
<1>5. Cause'
  BY <1>1, <1>3, <1>4 DEF ConfigInv, Cause, loadVars
<1> QED
  BY <1>1, <1>2, <1>3, <1>4, <1>5 DEF ConfigInv, TypeOK, loadVars

\* The providers before "at" stay registered when the next one joins them.
LEMMA RegisterKeeps ==
    ASSUME ConfigInv, NEW i \in 1..Len(Providers), Providers # Nil, Register(Providers[i])
    PROVE  /\ Loaded'
           /\ DOMAIN registered' \subseteq Names
           /\ at' \in Nat \ {0}
<1> DEFINE p == Providers[at]
<1>1. /\ Len(Providers) \in Nat /\ at \in Nat \ {0} /\ at <= Len(Providers)
      /\ Providers[i] = p /\ Providers' = Providers
  BY ProvidersType DEF ConfigInv, TypeOK, Register, Reaches, Providers
<1>2. /\ p.name \notin DOMAIN registered
      /\ at' = at + 1
      /\ registered' = [n \in DOMAIN registered \cup {p.name} |->
                            IF n = p.name THEN p ELSE registered[n]]
  BY <1>1 DEF Register, With
<1>3. /\ DOMAIN registered = {Providers[j].name : j \in 1..(at - 1)}
      /\ \A j \in 1..(at - 1) : registered[Providers[j].name] = Providers[j]
  BY DEF ConfigInv, Loaded
<1>4. DOMAIN registered' = {Providers[j].name : j \in 1..at}
  BY <1>1, <1>2, <1>3
<1>5. \A j \in 1..at : registered'[Providers[j].name] = Providers[j]
  <2>1. ASSUME NEW j \in 1..(at - 1) PROVE registered'[Providers[j].name] = Providers[j]
    BY <1>2, <1>3, <2>1
  <2>2. registered'[p.name] = p
    BY <1>2
  <2> QED
    BY <1>1, <2>1, <2>2
<1>6. at' - 1 = at
  BY <1>1, <1>2
<1>7. Loaded'
  <2>1. at' <= Len(Providers') + 1
    BY <1>1, <1>2
  <2>2. DOMAIN registered' = {Providers'[j].name : j \in 1..(at' - 1)}
    BY <1>1, <1>4, <1>6
  <2>3. \A j \in 1..(at' - 1) : registered'[Providers'[j].name] = Providers'[j]
    BY <1>1, <1>5, <1>6
  <2> QED
    BY <2>1, <2>2, <2>3 DEF Loaded
<1>8. DOMAIN registered' \subseteq Names
  BY <1>1, <1>4 DEF Names
<1> QED
  BY <1>1, <1>2, <1>7, <1>8

\* Why a step of the range fails.
LEMMA FailureHasCause ==
    ASSUME ConfigInv, NEW i \in 1..Len(Providers), Providers # Nil,
           LET p == Providers[i]
           IN  InspectBinary(p) \/ NewPluginProvider(p) \/ RegisteredTwice(p)
    PROVE  Cause'
<1>1. Providers' = Providers /\ (DistinctNames' <=> DistinctNames)
  BY DEF InspectBinary, NewPluginProvider, RegisteredTwice, Fail, Providers, DistinctNames
<1>2. CASE InspectBinary(Providers[i])
  BY <1>2 DEF InspectBinary, Fail, Cause
<1>3. CASE NewPluginProvider(Providers[i])
  BY <1>1, <1>3 DEF NewPluginProvider, Fail, Cause
<1>4. CASE RegisteredTwice(Providers[i])
  <2>1. PICK j \in 1..(at - 1) : Providers[j].name = Providers[at].name
    BY <1>4 DEF RegisteredTwice, Reaches, ConfigInv, Loaded
  <2>2. at \in 1..Len(Providers) /\ j \in 1..Len(Providers) /\ j # at
    BY <1>4, <2>1, ProvidersType DEF RegisteredTwice, Reaches, ConfigInv, TypeOK
  <2>3. ~DistinctNames
    BY <2>1, <2>2 DEF DistinctNames
  <2> QED
    BY <1>1, <1>4, <2>3 DEF RegisteredTwice, Fail, Cause
<1> QED
  BY <1>2, <1>3, <1>4

LEMMA LoadingKeeps ==
    ASSUME ConfigInv, StartLoading \/ LoadStep
    PROVE  ConfigInv'
<1>1. config' = config /\ admission' = admission /\ installed' = installed
  BY DEF StartLoading, LoadStep, InspectDirectory, FinishLoading, InspectBinary,
         NewPluginProvider, RegisteredTwice, Register, Fail
<1>2. Providers' = Providers /\ Names' = Names /\ Valid(config)' = Valid(config)
  BY <1>1 DEF Providers, Names, Valid, ValidProvider
<1>3. CASE StartLoading
  <2>1. DOMAIN registered' = {} /\ at' = 1 /\ loading' = "registering" /\ error' = Nil
    BY <1>3 DEF StartLoading
  <2>2. Loaded'
    BY <1>2, <2>1, ProvidersType DEF Loaded
  <2> QED
    BY <1>1, <1>2, <1>3, <2>1, <2>2 DEF StartLoading, ConfigInv, TypeOK, Cause
<1>4. ASSUME UNCHANGED <<at, registered>>, Cause',
             loading' \in {"loaded", "failed", "killed"},
             error' \in {Nil, "directory", "binary", "apiVersion", "duplicate"}
      PROVE  ConfigInv'
  <2>1. Loaded'
    BY <1>2, <1>4 DEF ConfigInv, Loaded
  <2> QED
    BY <1>1, <1>2, <1>4, <2>1 DEF ConfigInv, TypeOK
<1>5. CASE InspectDirectory
  BY <1>4, <1>5 DEF InspectDirectory, Fail, Cause
<1>6. CASE FinishLoading
  <2>1. Providers # Nil => at = Len(Providers) + 1
    BY <1>6, ProvidersType DEF FinishLoading, ConfigInv, TypeOK, Loaded
  <2> QED
    BY <1>2, <1>4, <1>6, <2>1 DEF FinishLoading, Cause, ConfigInv, TypeOK
<1>7. ASSUME Providers # Nil, NEW i \in 1..Len(Providers),
             LET p == Providers[i]
             IN  InspectBinary(p) \/ NewPluginProvider(p) \/ RegisteredTwice(p)
      PROVE  ConfigInv'
  BY <1>4, <1>7, FailureHasCause
  DEF InspectBinary, NewPluginProvider, RegisteredTwice, Fail
<1>8. ASSUME Providers # Nil, NEW i \in 1..Len(Providers), Register(Providers[i])
      PROVE  ConfigInv'
  <2>1. loading' = "registering" /\ error' = error
    BY <1>8 DEF Register, Reaches
  <2> QED
    BY <1>1, <1>2, <1>8, <2>1, RegisterKeeps DEF ConfigInv, TypeOK, Cause
<1> QED
  BY <1>3, <1>5, <1>6, <1>7, <1>8 DEF LoadStep

LEMMA NextConfigInv == ConfigInv /\ [Next]_vars => ConfigInv'
  BY OutsideKeeps, LoadingKeeps DEF Next

\* The state has its type, for any configurations, binaries and versions
\* (dynamic.go:78-116).
THEOREM AdmissionTypeCorrect == Spec => []TypeOK
<1>1. ConfigInv => TypeOK
  BY DEF ConfigInv
<1> QED
  BY <1>1, InitConfigInv, NextConfigInv, PTL DEF Spec

\* A lookup sees the configured providers, each with its own settings, whatever was
\* installed when (dynamic.go:78-116).
THEOREM AlwaysRegisteredAsConfigured == Spec => []RegisteredAsConfigured
<1>1. ConfigInv => RegisteredAsConfigured
  <2> SUFFICES ASSUME ConfigInv, loading = "loaded", Providers # Nil
               PROVE  /\ DOMAIN registered = Names
                      /\ \A i \in 1..Len(Providers) : registered[Providers[i].name] = Providers[i]
    BY DEF RegisteredAsConfigured
  <2>1. at - 1 = Len(Providers)
    BY ProvidersType DEF ConfigInv, Cause
  <2> QED
    BY <2>1 DEF ConfigInv, Loaded, Names
<1> QED
  BY <1>1, InitConfigInv, NextConfigInv, PTL DEF Spec

\* What the webhook admits fails to load only for what is on the node or for two providers
\* of one name (credentialproviderconfig_validation.go:31-161, dynamic.go:78-116).
THEOREM AdmittedAlwaysLoads == Spec => []AdmittedLoads
<1>1. ConfigInv => AdmittedLoads
  BY DEF ConfigInv, AdmittedLoads, Cause, Valid, ValidProvider, Providers
<1> QED
  BY <1>1, InitConfigInv, NextConfigInv, PTL DEF Spec
=============================================================================
