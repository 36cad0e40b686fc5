----------------------- MODULE CredentialLookupProofs -----------------------
(***************************************************************************)
(* Type correctness and the safety of the lookup, and that it implements   *)
(* the policy, for every configuration, every image and whatever the       *)
(* plugins answer.                                                         *)
(***************************************************************************)
EXTENDS CredentialLookup, FiniteSetTheorems, TLAPS

Looking == phase \in {"mirror", "origin"}

\* While keys remain, the answer they belong to is one that was heard in this lookup.
AnswerHeard ==
    keys # {} =>
        /\ Looking
        /\ keys \subseteq DOMAIN answer.auth
        /\ \E a \in Answers :
               /\ answer = [provider |-> answer.provider, duration |-> a.duration, auth |-> a.auth]
               /\ [lookup |-> phase, provider |-> answer.provider, answer |-> a] \in heard

LEMMA DurationIsNat ==
    ASSUME cfg \in Configs, NEW p \in DOMAIN cfg.providers,
           NEW d, d.duration \in Nat \cup {Nil}
    PROVE  AnswerDuration(p, d) \in Nat
<1>1. cfg.providers[p].defaultCacheDuration \in Nat \cup {Nil}
  BY ConfigAssumption
<1> QED
  BY <1>1 DEF AnswerDuration, DefaultCacheDuration

LEMMA KeysOfAnswers == \A a \in Answers : DOMAIN a.auth \subseteq Keys
  BY DEF Keys

TypeInv == TypeOK /\ AnswerHeard

LEMMA InitTypeInv == Init => TypeInv
  BY DEF Init, TypeInv, TypeOK, AnswerHeard, NoMatch, NotFound, NoResponse

LEMMA NextTypeInv == TypeInv /\ [Next]_vars => TypeInv'
<1> SUFFICES ASSUME TypeInv, [Next]_vars PROVE TypeInv'
  OBVIOUS
<1> USE DEF TypeInv
<1>1. CASE SkipMirrorLookup
  BY <1>1 DEF SkipMirrorLookup, BeginLookup, TypeOK, AnswerHeard, Looking, NoMatch
<1>2. CASE StartMirrorLookup
  BY <1>2 DEF StartMirrorLookup, BeginLookup, TypeOK, AnswerHeard, Looking, NoMatch
<1>3. CASE RejectEndpoint
  BY <1>3 DEF RejectEndpoint, lookupVars, TypeOK, AnswerHeard, Looking
<1>4. ASSUME NEW p \in pending, ProviderNotConcerned(p) PROVE TypeInv'
  BY <1>4 DEF ProviderNotConcerned, Reaches, TypeOK, AnswerHeard, Looking
<1>5. ASSUME NEW p \in pending, ProviderFails(p) PROVE TypeInv'
  BY <1>5 DEF ProviderFails, Reaches, lookupVars, TypeOK, AnswerHeard, Looking
<1>6. ASSUME NEW p \in pending, NEW a \in Answers, ProviderAnswers(p, a) PROVE TypeInv'
  <2>1. TypeOK'
    BY <1>6, KeysOfAnswers DEF ProviderAnswers, Reaches, TypeOK
  <2>2. AnswerHeard'
    BY <1>6 DEF ProviderAnswers, Reaches, AnswerHeard, Looking
  <2> QED
    BY <2>1, <2>2
<1>7. ASSUME NEW key \in keys, ConsiderKey(key) PROVE TypeInv'
  <2>1. PICK a \in Answers :
            /\ answer = [provider |-> answer.provider, duration |-> a.duration, auth |-> a.auth]
            /\ [lookup |-> phase, provider |-> answer.provider, answer |-> a] \in heard
    BY <1>7 DEF AnswerHeard
  <2>2. answer.provider \in DOMAIN cfg.providers
    BY <2>1 DEF TypeOK
  <2>3. answer.duration \in Nat \cup {Nil}
    BY <2>1, AnswerAssumption
  <2>4. AnswerDuration(answer.provider, answer) \in Nat
    BY <2>2, <2>3, DurationIsNat DEF TypeOK
  <2>5. TypeOK'
    BY <1>7, <2>4 DEF ConsiderKey, TypeOK
  <2>6. AnswerHeard'
    BY <1>7, <2>1 DEF ConsiderKey, AnswerHeard, Looking
  <2> QED
    BY <2>5, <2>6
<1>8. CASE EndMirrorLookup
  BY <1>8 DEF EndMirrorLookup, BeginLookup, Result, lookupVars, TypeOK, AnswerHeard, Looking, NoMatch
<1>9. CASE EndOriginLookup
  BY <1>9 DEF EndOriginLookup, Result, lookupVars, TypeOK, AnswerHeard, Looking
<1>10. CASE Respond
  <2>1. CacheDuration \in Nat
    BY DEF CacheDuration, TypeOK
  <2>2. response'.duration \in Nat
    BY <1>10, <2>1 DEF Respond
  <2>3. keys = {}
    BY <1>10 DEF Respond, AnswerHeard, Looking
  <2> QED
    BY <1>10, <2>2, <2>3 DEF Respond, lookupVars, TypeOK, AnswerHeard
<1>11. CASE RejectMerge
  BY <1>11 DEF RejectMerge, lookupVars, TypeOK, AnswerHeard, Looking
<1>12. CASE UNCHANGED vars
  BY <1>12 DEF vars, TypeOK, AnswerHeard, Looking
<1> QED
  BY <1>1, <1>2, <1>3, <1>4, <1>5, <1>6, <1>7, <1>8, <1>9, <1>10, <1>11, <1>12 DEF Next, CallStep, PluginEnds

\* Types are respected in every state of every call (the code's Go types, and that a cache
\* duration is always one: dynamic.go:296-299).
THEOREM TypeCorrect == Spec => []TypeOK
<1>1. Spec => []TypeInv
  BY InitTypeInv, NextTypeInv, PTL DEF Spec
<1> QED
  BY <1>1, PTL DEF TypeInv

\* Every step of a call, whoever is asked and whatever they answer, leaves less to do, so that
\* a call makes finitely many and runs no provider twice in a lookup (dynamic.go:258-305).
THEOREM CallAlwaysAdvances == Spec => CallAdvances
<1> DEFINE Advance ==
      \/ LookupsLeft[phase'] < LookupsLeft[phase]
      \/ phase' = phase /\ pending' \subseteq pending /\ pending' # pending
      \/ phase' = phase /\ pending' = pending /\ keys' \subseteq keys /\ keys' # keys
<1>1. [Next]_vars => [Advance]_vars
  <2> SUFFICES ASSUME Next PROVE Advance
    OBVIOUS
  <2>1. CASE SkipMirrorLookup \/ StartMirrorLookup \/ RejectEndpoint
    BY <2>1 DEF SkipMirrorLookup, StartMirrorLookup, RejectEndpoint, BeginLookup, LookupsLeft
  <2>2. ASSUME NEW p \in pending, ProviderNotConcerned(p) PROVE Advance
    BY <2>2 DEF ProviderNotConcerned
  <2>3. ASSUME NEW p \in pending, ProviderFails(p) PROVE Advance
    BY <2>3 DEF ProviderFails, Reaches, LookupsLeft
  <2>4. ASSUME NEW p \in pending, NEW a \in Answers, ProviderAnswers(p, a) PROVE Advance
    BY <2>4 DEF ProviderAnswers
  <2>5. ASSUME NEW key \in keys, ConsiderKey(key) PROVE Advance
    BY <2>5 DEF ConsiderKey
  <2>6. CASE EndMirrorLookup \/ EndOriginLookup
    BY <2>6 DEF EndMirrorLookup, EndOriginLookup, BeginLookup, LookupsLeft
  <2>7. CASE Respond \/ RejectMerge
    BY <2>7 DEF Respond, RejectMerge, LookupsLeft
  <2> QED
    BY <2>1, <2>2, <2>3, <2>4, <2>5, <2>6, <2>7 DEF Next, CallStep, PluginEnds
<1> QED
  BY <1>1, PTL DEF Spec, CallAdvances

---------------------------------------------------------------------------
(* Entitlement: from the plugin that is asked to the entry of the response.*)

\* Only concerned providers are heard, and the mirror before the origin.
HeardInTurn ==
    /\ \A h \in heard : IsImageAllowed(h.provider, NameLookedUp(h.lookup))
    /\ phase = "start" => heard = {}
    /\ phase = "mirror" => \A h \in heard : h.lookup = "mirror"

TargetNamed == Looking => target = NameLookedUp(phase)

Granted(lookup, auth, duration) ==
    \E key \in Offered(lookup) : Grants(lookup, key, auth, duration)

BestGranted ==
    Looking =>
        /\ best.url = NoKey => best.auth = NoAuth
        /\ best.url # NoKey =>
               /\ best.url \in Offered(phase)
               /\ Grants(phase, best.url, best.auth, best.duration)

ResultGranted(lookup) ==
    IF ResultOf(lookup).found
    THEN Granted(lookup, ResultOf(lookup).auth, ResultOf(lookup).duration)
    ELSE ResultOf(lookup).auth = NoAuth

ResultsGranted == ResultGranted("mirror") /\ ResultGranted("origin")

GrantInv ==
    /\ TypeInv
    /\ HeardInTurn
    /\ TargetNamed
    /\ BestGranted
    /\ ResultsGranted
    /\ EntriesAreGranted

\* What was granted stays granted while more answers are heard.
LEMMA GrantsStay ==
    ASSUME UNCHANGED <<cfg, img>>, heard \subseteq heard', NEW lookup
    PROVE  /\ Offered(lookup) \subseteq Offered(lookup)'
           /\ \A key, auth, duration :
                  Grants(lookup, key, auth, duration) => Grants(lookup, key, auth, duration)'
           /\ \A auth, duration :
                  Granted(lookup, auth, duration) => Granted(lookup, auth, duration)'
<1>1. NameLookedUp(lookup)' = NameLookedUp(lookup)
  BY DEF NameLookedUp
<1>2. Offered(lookup) \subseteq Offered(lookup)'
  BY <1>1 DEF Offered
<1>3. ASSUME NEW key, NEW auth, NEW duration, Grants(lookup, key, auth, duration)
      PROVE  Grants(lookup, key, auth, duration)'
  BY <1>1, <1>3 DEF Grants, AnswerDuration, DefaultCacheDuration, IsImageAllowed
<1> QED
  BY <1>2, <1>3 DEF Granted

\* A credential granted for some time is granted for a shorter one.
LEMMA GrantsShorter ==
    ASSUME TypeOK, NEW lookup, NEW auth, NEW d \in Nat, NEW e \in Nat, d <= e,
           Granted(lookup, auth, e)
    PROVE  Granted(lookup, auth, d)
<1>1. PICK key \in Offered(lookup) : Grants(lookup, key, auth, e)
  BY DEF Granted
<1>2. PICK h \in heard :
          /\ h.lookup = lookup
          /\ key \in DOMAIN h.answer.auth
          /\ h.answer.auth[key] = auth
          /\ e <= AnswerDuration(h.provider, h.answer)
          /\ IsImageAllowed(h.provider, NameLookedUp(lookup))
  BY <1>1 DEF Grants
<1>3. h.provider \in DOMAIN cfg.providers /\ h.answer \in Answers
  BY DEF TypeOK
<1>4. AnswerDuration(h.provider, h.answer) \in Nat
  BY <1>3, DurationIsNat, AnswerAssumption DEF TypeOK
<1>5. d <= AnswerDuration(h.provider, h.answer)
  BY <1>2, <1>4
<1>6. Grants(lookup, key, auth, d)
  BY <1>2, <1>5 DEF Grants
<1> QED
  BY <1>6 DEF Granted

LEMMA InitGrantInv == Init => GrantInv
<1> SUFFICES ASSUME Init PROVE GrantInv
  OBVIOUS
<1>1. TypeInv
  BY InitTypeInv
<1>2. ~Looking /\ phase # "done"
  BY DEF Init, Looking
<1>3. ResultsGranted
  BY DEF Init, ResultsGranted, ResultGranted, ResultOf, NotFound
<1> QED
  BY <1>1, <1>2, <1>3 DEF GrantInv, Init, HeardInTurn, TargetNamed, BestGranted, EntriesAreGranted

\* The results of the lookups stay granted when they stay the same.
LEMMA ResultsStay ==
    ASSUME ResultsGranted, UNCHANGED <<cfg, img, mirror, origin>>, heard \subseteq heard'
    PROVE  ResultsGranted'
<1>1. \A lookup : ResultOf(lookup)' = ResultOf(lookup)
  BY DEF ResultOf
<1>2. \A lookup : ResultGranted(lookup) => ResultGranted(lookup)'
  BY <1>1, GrantsStay DEF ResultGranted
<1> QED
  BY <1>2 DEF ResultsGranted

\* A lookup that begins has heard nobody and kept no key.
LEMMA BeginKeepsGrants ==
    ASSUME GrantInv, NEW lookup \in {"mirror", "origin"}, BeginLookup(lookup, NameLookedUp(lookup)),
           UNCHANGED <<cfg, img, heard>>,
           lookup = "mirror" => phase = "start"
    PROVE  HeardInTurn' /\ TargetNamed' /\ BestGranted' /\ EntriesAreGranted'
<1>1. phase' = lookup /\ target' = NameLookedUp(lookup) /\ best' = NoMatch
  BY DEF BeginLookup
<1>2. \A l : NameLookedUp(l)' = NameLookedUp(l)
  BY DEF NameLookedUp
<1>3. HeardInTurn'
  BY <1>1, <1>2 DEF GrantInv, HeardInTurn, IsImageAllowed
<1>4. TargetNamed'
  BY <1>1, <1>2 DEF TargetNamed
<1>5. BestGranted'
  BY <1>1 DEF BestGranted, NoMatch
<1>6. EntriesAreGranted'
  BY <1>1 DEF EntriesAreGranted
<1> QED
  BY <1>3, <1>4, <1>5, <1>6

\* A step that leaves the lookup keeps the rest as it is.
LEMMA LeavingKeepsGrants ==
    ASSUME GrantInv, UNCHANGED <<cfg, img, heard>>, phase' \in {"merge", "failed"}
    PROVE  HeardInTurn' /\ TargetNamed' /\ BestGranted' /\ EntriesAreGranted'
<1>1. \A l : NameLookedUp(l)' = NameLookedUp(l)
  BY DEF NameLookedUp
<1>2. HeardInTurn'
  BY <1>1 DEF GrantInv, HeardInTurn, IsImageAllowed
<1> QED
  BY <1>2 DEF TargetNamed, BestGranted, EntriesAreGranted, Looking

\* A result is what the range kept.
LEMMA ResultKeepsGrants ==
    ASSUME GrantInv, NEW lookup, lookup = phase, Looking
    PROVE  IF Result.found THEN Granted(lookup, Result.auth, Result.duration)
                           ELSE Result.auth = NoAuth
  BY DEF GrantInv, BestGranted, Result, Granted

\* The response's entries are the results' credentials, cached for the shorter of their times.
LEMMA RespondKeepsGrants ==
    ASSUME GrantInv, Respond
    PROVE  EntriesAreGranted'
<1> SUFFICES ASSUME NEW k \in DOMAIN response'.auth, response'.auth[k] # NoAuth
             PROVE  \E lookup \in {"mirror", "origin"} :
                        Granted(lookup, response.auth[k], response.duration)'
  BY DEF EntriesAreGranted, Granted
<1>1. \A lookup, auth, duration :
          Granted(lookup, auth, duration) => Granted(lookup, auth, duration)'
  BY GrantsStay DEF Respond
<1>2. CacheDuration \in Nat /\ response'.duration = CacheDuration
  BY DEF Respond, CacheDuration, GrantInv, TypeInv, TypeOK
<1>3. \/ response'.auth[k] = origin.auth
      \/ mirror.found /\ response'.auth[k] = mirror.auth
  <2>1. ASSUME NEW x \in DOMAIN OriginAuthMap PROVE OriginAuthMap[x] = origin.auth
    BY <2>1 DEF OriginAuthMap, Put
  <2>2. CASE ~mirror.found
    BY <2>1, <2>2 DEF Respond
  <2>3. CASE mirror.found
    BY <2>1, <2>3 DEF Respond, WithMirror, Put
  <2> QED
    BY <2>2, <2>3
<1>4. CASE mirror.found /\ response'.auth[k] = mirror.auth
  <2>1. Granted("mirror", mirror.auth, mirror.duration)
    BY <1>4 DEF GrantInv, ResultsGranted, ResultGranted, ResultOf
  <2>2. CacheDuration <= mirror.duration
    BY <1>4 DEF CacheDuration, GrantInv, TypeInv, TypeOK
  <2>3. Granted("mirror", mirror.auth, CacheDuration)
    BY <1>2, <2>1, <2>2, GrantsShorter DEF GrantInv, TypeInv, TypeOK
  <2> QED
    BY <1>1, <1>2, <1>4, <2>3
<1>5. CASE response'.auth[k] = origin.auth
  <2>1. origin.found
    BY <1>5 DEF GrantInv, ResultsGranted, ResultGranted, ResultOf
  <2>2. Granted("origin", origin.auth, origin.duration)
    BY <2>1 DEF GrantInv, ResultsGranted, ResultGranted, ResultOf
  <2>3. CacheDuration <= origin.duration
    BY <2>1 DEF CacheDuration, GrantInv, TypeInv, TypeOK
  <2>4. Granted("origin", origin.auth, CacheDuration)
    BY <1>2, <2>2, <2>3, GrantsShorter DEF GrantInv, TypeInv, TypeOK
  <2> QED
    BY <1>1, <1>2, <1>5, <2>4
<1> QED
  BY <1>3, <1>4, <1>5

LEMMA NextGrantInv == GrantInv /\ [Next]_vars => GrantInv'
<1> SUFFICES ASSUME GrantInv, [Next]_vars PROVE GrantInv'
  OBVIOUS
<1>0. TypeInv'
  BY NextTypeInv DEF GrantInv
<1>1. CASE SkipMirrorLookup
  <2>1. NameLookedUp("origin") = img
    BY DEF NameLookedUp
  <2>2. HeardInTurn' /\ TargetNamed' /\ BestGranted' /\ EntriesAreGranted'
    BY <1>1, <2>1, BeginKeepsGrants DEF SkipMirrorLookup
  <2>3. ResultsGranted'
    BY <1>1, ResultsStay DEF SkipMirrorLookup, GrantInv
  <2> QED
    BY <1>0, <2>2, <2>3 DEF GrantInv
<1>2. CASE StartMirrorLookup
  <2>1. NameLookedUp("mirror") = MirrorTarget(cfg.mirror.endpoint, img)
    BY DEF NameLookedUp
  <2>2. HeardInTurn' /\ TargetNamed' /\ BestGranted' /\ EntriesAreGranted'
    BY <1>2, <2>1, BeginKeepsGrants DEF StartMirrorLookup
  <2>3. ResultsGranted'
    BY <1>2, ResultsStay DEF StartMirrorLookup, GrantInv
  <2> QED
    BY <1>0, <2>2, <2>3 DEF GrantInv
<1>3. CASE RejectEndpoint
  BY <1>0, <1>3, LeavingKeepsGrants, ResultsStay DEF RejectEndpoint, GrantInv
<1>4. ASSUME NEW p \in pending, ProviderNotConcerned(p) PROVE GrantInv'
  <2>1. ResultsGranted'
    BY <1>4, ResultsStay DEF ProviderNotConcerned, GrantInv
  <2>2. HeardInTurn' /\ TargetNamed'
    BY <1>4 DEF ProviderNotConcerned, GrantInv, HeardInTurn, TargetNamed, Looking,
                NameLookedUp, IsImageAllowed
  <2>3. BestGranted'
    BY <1>4, GrantsStay DEF ProviderNotConcerned, GrantInv, BestGranted, Looking
  <2>4. EntriesAreGranted'
    BY <1>4 DEF ProviderNotConcerned, Reaches, EntriesAreGranted
  <2> QED
    BY <1>0, <2>1, <2>2, <2>3, <2>4 DEF GrantInv
<1>5. ASSUME NEW p \in pending, ProviderFails(p) PROVE GrantInv'
  BY <1>0, <1>5, LeavingKeepsGrants, ResultsStay DEF ProviderFails, GrantInv
<1>6. ASSUME NEW p \in pending, NEW a \in Answers, ProviderAnswers(p, a) PROVE GrantInv'
  <2>1. heard \subseteq heard'
    BY <1>6 DEF ProviderAnswers
  <2>2. ResultsGranted'
    BY <1>6, <2>1, ResultsStay DEF ProviderAnswers, GrantInv
  <2>3. TargetNamed'
    BY <1>6 DEF ProviderAnswers, GrantInv, TargetNamed, Looking, NameLookedUp
  <2>4. HeardInTurn'
    <3>1. IsImageAllowed(p, NameLookedUp(phase))
      BY <1>6 DEF ProviderAnswers, Reaches, GrantInv, TargetNamed, Looking
    <3>2. \A q, url : IsImageAllowed(q, url)' <=> IsImageAllowed(q, url)
      BY <1>6 DEF ProviderAnswers, IsImageAllowed
    <3>3. \A l : NameLookedUp(l)' = NameLookedUp(l)
      BY <1>6 DEF ProviderAnswers, NameLookedUp
    <3> QED
      BY <1>6, <3>1, <3>2, <3>3 DEF ProviderAnswers, Reaches, GrantInv, HeardInTurn
  <2>5. BestGranted'
    BY <1>6, <2>1, GrantsStay DEF ProviderAnswers, GrantInv, BestGranted, Looking
  <2>6. EntriesAreGranted'
    BY <1>6 DEF ProviderAnswers, Reaches, EntriesAreGranted
  <2> QED
    BY <1>0, <2>2, <2>3, <2>4, <2>5, <2>6 DEF GrantInv
<1>7. ASSUME NEW key \in keys, ConsiderKey(key) PROVE GrantInv'
  <2>1. Looking
    BY <1>7 DEF GrantInv, TypeInv, AnswerHeard
  <2>2. ResultsGranted'
    BY <1>7, ResultsStay DEF ConsiderKey, GrantInv
  <2>3. HeardInTurn' /\ TargetNamed'
    BY <1>7 DEF ConsiderKey, GrantInv, HeardInTurn, TargetNamed, Looking,
                NameLookedUp, IsImageAllowed
  <2>4. EntriesAreGranted'
    BY <1>7, <2>1 DEF ConsiderKey, Looking, EntriesAreGranted
  <2>5. BestGranted'
    <3>1. CASE best' = best
      BY <1>7, <3>1, GrantsStay DEF ConsiderKey, GrantInv, BestGranted, Looking
    <3>2. CASE best' # best
      <4>1. /\ URLsMatchStr(key, target)
            /\ best' = [url      |-> key,
                        auth     |-> answer.auth[key],
                        duration |-> AnswerDuration(answer.provider, answer)]
        BY <1>7, <3>2 DEF ConsiderKey
      <4>2. PICK a \in Answers :
                /\ answer = [provider |-> answer.provider, duration |-> a.duration, auth |-> a.auth]
                /\ [lookup |-> phase, provider |-> answer.provider, answer |-> a] \in heard
        BY <1>7 DEF GrantInv, TypeInv, AnswerHeard
      <4> DEFINE h == [lookup |-> phase, provider |-> answer.provider, answer |-> a]
      <4>3. key \in DOMAIN a.auth /\ a.auth[key] = answer.auth[key]
        BY <1>7, <4>2 DEF GrantInv, TypeInv, AnswerHeard
      <4>4. target = NameLookedUp(phase)
        BY <2>1 DEF GrantInv, TargetNamed
      <4>5. key \in Offered(phase)
        BY <4>1, <4>2, <4>3, <4>4 DEF Offered
      <4>6. AnswerDuration(h.provider, h.answer) = AnswerDuration(answer.provider, answer)
        BY <4>2 DEF AnswerDuration
      <4>7. AnswerDuration(answer.provider, answer) \in Nat
        BY <1>0, <4>1 DEF TypeInv, TypeOK
      <4>8. IsImageAllowed(h.provider, NameLookedUp(phase))
        BY <4>2 DEF GrantInv, HeardInTurn
      <4>9. Grants(phase, key, answer.auth[key], AnswerDuration(answer.provider, answer))
        BY <4>2, <4>3, <4>6, <4>7, <4>8 DEF Grants
      <4>10. key # NoKey
        BY <1>7, OrderAssumption DEF GrantInv, TypeInv, TypeOK
      <4> QED
        BY <1>7, <4>1, <4>5, <4>9, <4>10, GrantsStay DEF ConsiderKey, BestGranted
    <3> QED
      BY <3>1, <3>2
  <2> QED
    BY <1>0, <2>2, <2>3, <2>4, <2>5 DEF GrantInv
<1>8. CASE EndMirrorLookup
  <2>1. HeardInTurn' /\ TargetNamed' /\ BestGranted' /\ EntriesAreGranted'
    <3>1. CASE Only
      BY <1>8, <3>1, LeavingKeepsGrants DEF EndMirrorLookup
    <3>2. CASE ~Only
      <4>1. NameLookedUp("origin") = img
        BY DEF NameLookedUp
      <4> QED
        BY <1>8, <3>2, <4>1, BeginKeepsGrants DEF EndMirrorLookup
    <3> QED
      BY <3>1, <3>2
  <2>2. ResultsGranted'
    <3>1. IF Result.found THEN Granted("mirror", Result.auth, Result.duration)
                          ELSE Result.auth = NoAuth
      BY <1>8, ResultKeepsGrants DEF EndMirrorLookup, Looking
    <3>2. mirror' = Result /\ UNCHANGED <<cfg, img, heard, origin>>
      BY <1>8 DEF EndMirrorLookup
    <3>3. ResultGranted("mirror")'
      BY <3>1, <3>2, GrantsStay DEF ResultGranted, ResultOf
    <3>4. ResultGranted("origin")'
      BY <3>2, GrantsStay DEF GrantInv, ResultsGranted, ResultGranted, ResultOf
    <3> QED
      BY <3>3, <3>4 DEF ResultsGranted
  <2> QED
    BY <1>0, <2>1, <2>2 DEF GrantInv
<1>9. CASE EndOriginLookup
  <2>1. HeardInTurn' /\ TargetNamed' /\ BestGranted' /\ EntriesAreGranted'
    BY <1>9, LeavingKeepsGrants DEF EndOriginLookup
  <2>2. ResultsGranted'
    <3>1. IF Result.found THEN Granted("origin", Result.auth, Result.duration)
                          ELSE Result.auth = NoAuth
      BY <1>9, ResultKeepsGrants DEF EndOriginLookup, Looking
    <3>2. origin' = Result /\ UNCHANGED <<cfg, img, heard, mirror>>
      BY <1>9 DEF EndOriginLookup
    <3>3. ResultGranted("origin")'
      BY <3>1, <3>2, GrantsStay DEF ResultGranted, ResultOf
    <3>4. ResultGranted("mirror")'
      BY <3>2, GrantsStay DEF GrantInv, ResultsGranted, ResultGranted, ResultOf
    <3> QED
      BY <3>3, <3>4 DEF ResultsGranted
  <2> QED
    BY <1>0, <2>1, <2>2 DEF GrantInv
<1>10. CASE Respond
  <2>1. HeardInTurn' /\ TargetNamed' /\ BestGranted'
    BY <1>10 DEF Respond, GrantInv, HeardInTurn, TargetNamed, BestGranted, Looking,
                 NameLookedUp, IsImageAllowed
  <2>2. ResultsGranted'
    BY <1>10, ResultsStay DEF Respond, GrantInv
  <2> QED
    BY <1>0, <1>10, <2>1, <2>2, RespondKeepsGrants DEF GrantInv
<1>11. CASE RejectMerge
  BY <1>0, <1>11, LeavingKeepsGrants, ResultsStay DEF RejectMerge, GrantInv
<1>12. CASE UNCHANGED vars
  BY <1>0, <1>12 DEF vars, GrantInv, HeardInTurn, TargetNamed, BestGranted, ResultsGranted,
                     ResultGranted, ResultOf, Granted, Grants, Offered, EntriesAreGranted,
                     Looking, NameLookedUp, IsImageAllowed, AnswerDuration, DefaultCacheDuration
<1> QED
  BY <1>1, <1>2, <1>3, <1>4, <1>5, <1>6, <1>7, <1>8, <1>9, <1>10, <1>11, <1>12 DEF Next, CallStep, PluginEnds

\* No entry of a response reaches beyond what a concerned plugin granted for the name looked
\* up, in credential or in time (dynamic.go:118-168 and 257-305), whatever the plugins answer
\* and in whatever order they and their keys are reached.
THEOREM ResponsesAreGranted == Spec => []EntriesAreGranted
<1>1. Spec => []GrantInv
  BY InitGrantInv, NextGrantInv, PTL DEF Spec
<1> QED
  BY <1>1, PTL DEF GrantInv

---------------------------------------------------------------------------
(* The key that wins: once the range has reached a key that is both the    *)
(* longest and the last of those offered, best holds it.                   *)

\* The matching keys of this lookup that the range has reached.
Considered ==
    {k \in Offered(phase) :
        \E h \in heard :
            /\ h.lookup = phase
            /\ k \in DOMAIN h.answer.auth
            /\ k \notin keys \/ h.provider # answer.provider}

BestLeads ==
    Looking =>
        /\ best.url = NoKey => Considered = {}
        /\ best.url # NoKey => TakenFrom(phase, best.url, best)
        /\ \A k \in Considered : Leads(k, Offered(phase)) => best.url = k

\* What BestKeyWins says of one lookup.
Decided(lookup) ==
    Finished(lookup) =>
        /\ ResultOf(lookup).found <=> Offered(lookup) # {}
        /\ \A k \in Offered(lookup) :
               Leads(k, Offered(lookup)) => TakenFrom(lookup, k, ResultOf(lookup))

KeyInv ==
    /\ GrantInv
    /\ BestLeads
    /\ phase = "start" => ~mirror.found
    /\ phase \in {"start", "mirror"} => ~origin.found
    /\ Decided("mirror")
    /\ Decided("origin")

LEMMA DecidedIsBestKeyWins == Decided("mirror") /\ Decided("origin") <=> BestKeyWins
  BY DEF Decided, BestKeyWins

LEMMA OfferedAreKeys == ASSUME TypeOK, NEW lookup PROVE Offered(lookup) \subseteq Keys
<1> SUFFICES ASSUME NEW k \in Offered(lookup) PROVE k \in Keys
  OBVIOUS
<1>1. PICK h \in heard : k \in DOMAIN h.answer.auth
  BY DEF Offered
<1> QED
  BY <1>1, KeysOfAnswers DEF TypeOK

LEMMA AllConsidered == ASSUME keys = {} PROVE Considered = Offered(phase)
  BY DEF Considered, Offered

\* Before restricted to the keys, as facts to cite.
LEMMA KeyOrder ==
    /\ \A j, k \in Keys : j = k \/ Before(j, k) \/ Before(k, j)
    /\ \A j, k \in Keys : ~(Before(j, k) /\ Before(k, j))
    /\ \A j, k, l \in Keys : Before(j, k) /\ Before(k, l) => Before(j, l)
  BY OrderAssumption

LEMMA InitKeyInv == Init => KeyInv
<1> SUFFICES ASSUME Init PROVE KeyInv
  OBVIOUS
<1>1. GrantInv
  BY InitGrantInv
<1> QED
  BY <1>1 DEF KeyInv, Init, BestLeads, Looking, Decided, Finished, NotFound

\* The result of a lookup that ends is decided.
LEMMA EndDecides ==
    ASSUME KeyInv, Looking, keys = {}
    PROVE  /\ Result.found <=> Offered(phase) # {}
           /\ \A k \in Offered(phase) :
                  Leads(k, Offered(phase)) => TakenFrom(phase, k, Result)
<1>1. Considered = Offered(phase)
  BY AllConsidered
<1>2. best.url # NoKey => best.url \in Offered(phase)
  BY DEF KeyInv, GrantInv, BestGranted
<1>3. Result.found <=> Offered(phase) # {}
  BY <1>1, <1>2 DEF KeyInv, BestLeads, Result
<1>4. ASSUME NEW k \in Offered(phase), Leads(k, Offered(phase))
      PROVE  TakenFrom(phase, k, Result)
  <2>1. best.url = k /\ best.url # NoKey
    BY <1>1, <1>4 DEF KeyInv, BestLeads
  <2>2. TakenFrom(phase, k, best)
    BY <2>1 DEF KeyInv, BestLeads
  <2> QED
    BY <2>2 DEF TakenFrom, Result
<1> QED
  BY <1>3, <1>4

\* What an answer said, it has said for good.
LEMMA TakenStays ==
    ASSUME UNCHANGED cfg, heard \subseteq heard', NEW lookup, NEW k, NEW result,
           TakenFrom(lookup, k, result)
    PROVE  TakenFrom(lookup, k, result)'
  BY DEF TakenFrom, AnswerDuration, DefaultCacheDuration

\* What is decided stays so as long as nothing more is heard in the lookup.
LEMMA DecidedStays ==
    ASSUME NEW lookup, Decided(lookup), UNCHANGED <<cfg, img, heard>>,
           Finished(lookup)' => Finished(lookup),
           ResultOf(lookup)' = ResultOf(lookup)
    PROVE  Decided(lookup)'
<1>1. Offered(lookup)' = Offered(lookup)
  BY DEF Offered, NameLookedUp
<1>2. \A k, r : TakenFrom(lookup, k, r)' <=> TakenFrom(lookup, k, r)
  BY DEF TakenFrom, AnswerDuration, DefaultCacheDuration
<1> QED
  BY <1>1, <1>2 DEF Decided, Leads

\* A lookup that begins has considered nothing.
LEMMA BeginKeepsLead ==
    ASSUME KeyInv, NEW lookup \in {"mirror", "origin"}, BeginLookup(lookup, NameLookedUp(lookup)),
           UNCHANGED <<cfg, img, heard>>,
           phase \in {"start", "mirror"},
           lookup = "mirror" => phase = "start"
    PROVE  BestLeads'
<1>1. \A h \in heard' : h.lookup # phase'
  BY DEF BeginLookup, KeyInv, GrantInv, HeardInTurn
<1>2. Considered' = {}
  BY <1>1 DEF Considered
<1>3. best'.url = NoKey
  BY DEF BeginLookup, NoMatch
<1> QED
  BY <1>2, <1>3 DEF BestLeads

LEMMA NextKeyInv == KeyInv /\ [Next]_vars => KeyInv'
<1> SUFFICES ASSUME KeyInv, [Next]_vars PROVE KeyInv'
  OBVIOUS
<1>0. GrantInv'
  BY NextGrantInv DEF KeyInv
<1>1. CASE SkipMirrorLookup
  <2>1. phase = "start" /\ phase' = "origin" /\ UNCHANGED <<cfg, img, mirror, origin, heard>>
    BY <1>1 DEF SkipMirrorLookup, BeginLookup
  <2>2. BestLeads'
    BY <1>1, <2>1, BeginKeepsLead DEF SkipMirrorLookup, NameLookedUp
  <2>3. heard' = {} /\ ~mirror'.found
    BY <2>1 DEF KeyInv, GrantInv, HeardInTurn
  <2>4. Offered("mirror")' = {}
    BY <2>3 DEF Offered
  <2>5. Decided("mirror")'
    BY <2>3, <2>4 DEF Decided, ResultOf
  <2>6. Decided("origin")'
    BY <2>1 DEF Decided, Finished
  <2> QED
    BY <1>0, <2>1, <2>2, <2>5, <2>6 DEF KeyInv
<1>2. CASE StartMirrorLookup
  <2>1. phase = "start" /\ phase' = "mirror" /\ UNCHANGED <<cfg, img, mirror, origin, heard>>
    BY <1>2 DEF StartMirrorLookup, BeginLookup
  <2>2. BestLeads'
    BY <1>2, <2>1, BeginKeepsLead DEF StartMirrorLookup, NameLookedUp
  <2> QED
    BY <1>0, <2>1, <2>2 DEF KeyInv, Decided, Finished
<1>3. CASE RejectEndpoint
  BY <1>0, <1>3 DEF RejectEndpoint, KeyInv, BestLeads, Looking, Decided, Finished
<1>4. ASSUME NEW p \in pending, ProviderNotConcerned(p) PROVE KeyInv'
  <2>1. UNCHANGED <<cfg, img, phase, answer, keys, best, mirror, origin, heard>>
    BY <1>4 DEF ProviderNotConcerned
  <2>2. BestLeads'
    BY <2>1, TakenStays
    DEF KeyInv, BestLeads, Looking, Considered, Offered, NameLookedUp, Leads
  <2>3. Decided("mirror")' /\ Decided("origin")'
    BY <2>1, DecidedStays DEF KeyInv, Finished, ResultOf
  <2> QED
    BY <1>0, <2>1, <2>2, <2>3 DEF KeyInv
<1>5. ASSUME NEW p \in pending, ProviderFails(p) PROVE KeyInv'
  BY <1>0, <1>5 DEF ProviderFails, KeyInv, BestLeads, Looking, Decided, Finished
<1>6. ASSUME NEW p \in pending, NEW a \in Answers, ProviderAnswers(p, a) PROVE KeyInv'
  <2> DEFINE new == [lookup |-> phase, provider |-> p, answer |-> a]
  <2>1. /\ Looking /\ keys = {} /\ UNCHANGED <<cfg, img, phase, best, mirror, origin>>
        /\ heard' = heard \cup {new}
        /\ keys' = DOMAIN a.auth /\ answer'.provider = p
    BY <1>6 DEF ProviderAnswers, Reaches, Looking
  <2>2. \A l : NameLookedUp(l)' = NameLookedUp(l)
    BY <2>1 DEF NameLookedUp
  <2>3. Considered' \subseteq Considered
    <3>1. SUFFICES ASSUME NEW k \in Considered' PROVE k \in Offered(phase)
      BY <2>1, AllConsidered
    <3>2. PICK h \in heard' :
              /\ h.lookup = phase
              /\ k \in DOMAIN h.answer.auth
              /\ k \notin keys' \/ h.provider # answer'.provider
      BY <2>1 DEF Considered
    <3>3. h \in heard
      BY <2>1, <3>2
    <3>4. URLsMatchStr(k, NameLookedUp(phase))
      BY <2>1, <2>2 DEF Considered, Offered
    <3> QED
      BY <3>2, <3>3, <3>4 DEF Offered
  <2>4. Offered(phase) \subseteq Offered(phase)'
    BY <2>1, <2>2 DEF Offered
  <2>5. \A k : Leads(k, Offered(phase)') => Leads(k, Offered(phase))
    BY <2>4 DEF Leads
  <2>6. BestLeads'
    <3>1. best.url # NoKey => TakenFrom(phase, best.url, best)'
      BY <2>1, TakenStays DEF KeyInv, BestLeads
    <3>2. \A k : Leads(k, Offered(phase))' <=> Leads(k, Offered(phase)')
      BY <2>1 DEF Leads
    <3> QED
      BY <2>1, <2>3, <2>5, <3>1, <3>2 DEF KeyInv, BestLeads
  <2>7. Decided("mirror")'
    <3>1. CASE phase = "mirror"
      BY <2>1, <3>1 DEF Decided, Finished
    <3>2. CASE phase = "origin"
      <4>1. Offered("mirror")' = Offered("mirror")
        BY <2>1, <2>2, <3>2 DEF Offered
      <4>2. \A k, r : TakenFrom("mirror", k, r) => TakenFrom("mirror", k, r)'
        BY <2>1, TakenStays
      <4> QED
        BY <2>1, <4>1, <4>2 DEF KeyInv, Decided, Finished, ResultOf, Leads
    <3> QED
      BY <2>1, <3>1, <3>2 DEF Looking
  <2>8. Decided("origin")'
    BY <2>1 DEF Looking, Decided, Finished
  <2>9. phase' # "start"
    BY <2>1 DEF Looking
  <2> QED
    BY <1>0, <2>1, <2>6, <2>7, <2>8, <2>9 DEF KeyInv
<1>7. ASSUME NEW key \in keys, ConsiderKey(key) PROVE KeyInv'
  <2>1. /\ Looking /\ keys' = keys \ {key}
        /\ UNCHANGED <<cfg, img, phase, target, answer, mirror, origin, heard>>
    BY <1>7 DEF ConsiderKey, KeyInv, GrantInv, TypeInv, AnswerHeard
  <2>2. Offered(phase)' = Offered(phase)
    BY <2>1 DEF Offered, NameLookedUp
  <2>3. Considered' \subseteq Considered \cup {key}
    BY <2>1, <2>2 DEF Considered
  <2>4. URLsMatchStr(key, target) <=> URLsMatchStr(key, NameLookedUp(phase))
    BY <2>1 DEF KeyInv, GrantInv, TargetNamed
  <2>5. Considered \subseteq Keys /\ key \in Keys
    BY OfferedAreKeys DEF Considered, KeyInv, GrantInv, TypeInv, TypeOK
  <2>6. best.url = NoKey \/ best.url \in Keys
    BY DEF KeyInv, GrantInv, TypeInv, TypeOK
  <2>7. NoKey \notin Keys
    BY OrderAssumption
  <2>8. \A k, b : TakenFrom(phase, k, b)' <=> TakenFrom(phase, k, b)
    BY <2>1 DEF TakenFrom, AnswerDuration, DefaultCacheDuration
  <2>9. \A k : Leads(k, Offered(phase))' <=> Leads(k, Offered(phase))
    BY <2>2 DEF Leads
  <2>10. CASE ~URLsMatchStr(key, target)
    <3>1. best' = best
      BY <1>7, <2>10 DEF ConsiderKey
    <3>2. Considered' \subseteq Considered
      BY <2>2, <2>3, <2>4, <2>10 DEF Considered, Offered
    <3>3. BestLeads'
      BY <2>1, <2>8, <2>9, <3>1, <3>2 DEF KeyInv, BestLeads
    <3> QED
      BY <1>0, <2>1, <3>3, DecidedStays DEF KeyInv, Looking, Finished, ResultOf
  <2>11. CASE URLsMatchStr(key, target) /\ ReplacesBest(key)
    <3>1. /\ best'.url = key /\ best'.auth = answer.auth[key]
          /\ best'.duration = AnswerDuration(answer.provider, answer)
      BY <1>7, <2>11 DEF ConsiderKey
    <3>2. PICK a \in Answers :
              /\ answer = [provider |-> answer.provider, duration |-> a.duration, auth |-> a.auth]
              /\ [lookup |-> phase, provider |-> answer.provider, answer |-> a] \in heard
      BY DEF KeyInv, GrantInv, TypeInv, AnswerHeard
    <3>3. key \in DOMAIN a.auth /\ answer.auth = a.auth
      BY <3>2 DEF KeyInv, GrantInv, TypeInv, AnswerHeard
    <3>4. TakenFrom(phase, key, best')
      <4>1. AnswerDuration(answer.provider, answer) = AnswerDuration(answer.provider, a)
        BY <3>2 DEF AnswerDuration
      <4> QED
        BY <3>1, <3>2, <3>3, <4>1 DEF TakenFrom
    <3>5. key \in Offered(phase)
      BY <2>4, <2>11, <3>2, <3>3 DEF Offered
    <3>6. ASSUME NEW k \in Considered', Leads(k, Offered(phase)) PROVE k = key
      <4>1. CASE k # key
        <5>1. k \in Considered /\ best.url = k /\ best.url # NoKey
          BY <2>3, <2>5, <2>7, <3>6, <4>1, <2>1 DEF KeyInv, BestLeads
        <5>2. Length(key) <= Length(best.url) /\ Before(key, best.url)
          BY <3>5, <3>6, <4>1, <5>1 DEF Leads
        <5>3. Length(key) \in Nat /\ Length(best.url) \in Nat
          BY <2>5, <5>1, OrderAssumption
        <5>4. ~Before(best.url, key)
          BY <2>5, <5>1, <5>2, KeyOrder
        <5> QED
          BY <2>11, <5>1, <5>2, <5>3, <5>4 DEF ReplacesBest
      <4> QED
        BY <4>1
    <3>7. BestLeads'
      BY <2>1, <2>5, <2>7, <2>8, <2>9, <3>1, <3>4, <3>6 DEF BestLeads
    <3> QED
      BY <1>0, <2>1, <3>7, DecidedStays DEF KeyInv, Looking, Finished, ResultOf
  <2>12. CASE URLsMatchStr(key, target) /\ ~ReplacesBest(key)
    <3>1. best' = best /\ best.url # NoKey /\ ~Before(best.url, key)
      BY <1>7, <2>12 DEF ConsiderKey, ReplacesBest
    <3>2. best.url \in Offered(phase)
      BY <2>1, <3>1 DEF KeyInv, GrantInv, BestGranted
    <3>3. Leads(key, Offered(phase)) => best.url = key
      BY <3>1, <3>2 DEF Leads
    <3>4. BestLeads'
      BY <2>1, <2>3, <2>8, <2>9, <3>1, <3>3 DEF KeyInv, BestLeads
    <3> QED
      BY <1>0, <2>1, <3>4, DecidedStays DEF KeyInv, Looking, Finished, ResultOf
  <2> QED
    BY <2>10, <2>11, <2>12
<1>8. CASE EndMirrorLookup
  <2>1. /\ phase = "mirror" /\ keys = {} /\ mirror' = Result
        /\ phase' \in {"origin", "merge"} /\ UNCHANGED <<cfg, img, heard>>
    BY <1>8 DEF EndMirrorLookup, BeginLookup
  <2>2. BestLeads'
    <3>1. CASE Only
      BY <1>8, <3>1 DEF EndMirrorLookup, BestLeads, Looking
    <3>2. CASE ~Only
      BY <1>8, <2>1, <3>2, BeginKeepsLead DEF EndMirrorLookup, NameLookedUp
    <3> QED
      BY <3>1, <3>2
  <2>3. Offered("mirror")' = Offered("mirror")
    BY <2>1 DEF Offered, NameLookedUp
  <2>4. \A k, r : TakenFrom("mirror", k, r)' <=> TakenFrom("mirror", k, r)
    BY <2>1 DEF TakenFrom, AnswerDuration, DefaultCacheDuration
  <2>5. Decided("mirror")'
    BY <2>1, <2>3, <2>4, EndDecides DEF Decided, ResultOf, Looking, Leads
  <2>6. Decided("origin")'
    <3>1. CASE Only
      <4>1. Offered("origin")' = {}
        BY <2>1 DEF Offered, KeyInv, GrantInv, HeardInTurn
      <4>2. ~origin'.found
        BY <1>8 DEF EndMirrorLookup, KeyInv
      <4> QED
        BY <4>1, <4>2 DEF Decided, ResultOf
    <3>2. CASE ~Only
      BY <1>8, <3>2 DEF EndMirrorLookup, BeginLookup, Decided, Finished
    <3> QED
      BY <3>1, <3>2
  <2> QED
    BY <1>0, <2>1, <2>2, <2>5, <2>6 DEF KeyInv
<1>9. CASE EndOriginLookup
  <2>1. /\ phase = "origin" /\ keys = {} /\ origin' = Result /\ phase' = "merge"
        /\ UNCHANGED <<cfg, img, heard, mirror>>
    BY <1>9 DEF EndOriginLookup
  <2>2. Offered("origin")' = Offered("origin")
    BY <2>1 DEF Offered, NameLookedUp
  <2>3. \A k, r : TakenFrom("origin", k, r)' <=> TakenFrom("origin", k, r)
    BY <2>1 DEF TakenFrom, AnswerDuration, DefaultCacheDuration
  <2>4. Decided("origin")'
    BY <2>1, <2>2, <2>3, EndDecides DEF Decided, ResultOf, Looking, Leads
  <2>5. Decided("mirror")'
    BY <2>1, DecidedStays DEF KeyInv, Finished, ResultOf
  <2> QED
    BY <1>0, <2>1, <2>4, <2>5 DEF KeyInv, BestLeads, Looking
<1>10. CASE Respond
  BY <1>0, <1>10, DecidedStays DEF Respond, KeyInv, BestLeads, Looking, Finished, ResultOf
<1>11. CASE RejectMerge
  BY <1>0, <1>11 DEF RejectMerge, KeyInv, BestLeads, Looking, Decided, Finished
<1>12. CASE UNCHANGED vars
  <2>1. BestLeads'
    BY <1>12, TakenStays
    DEF vars, KeyInv, BestLeads, Looking, Considered, Offered, NameLookedUp, Leads
  <2> QED
    BY <1>0, <1>12, <2>1, DecidedStays DEF vars, KeyInv, Finished, ResultOf
<1> QED
  BY <1>1, <1>2, <1>3, <1>4, <1>5, <1>6, <1>7, <1>8, <1>9, <1>10, <1>11, <1>12 DEF Next, CallStep, PluginEnds

\* The key that wins a lookup does not depend on the order in which Go ranges over the
\* providers and over the keys of their answers, if one of those offered is both the longest
\* and the last; its credential and its duration are of one answer; and a credential is found
\* exactly when one was offered (dynamic.go:288-301).
THEOREM BestKeyAlwaysWins == Spec => []BestKeyWins
<1>1. Spec => []KeyInv
  BY InitKeyInv, NextKeyInv, PTL DEF Spec
<1>2. KeyInv => BestKeyWins
  BY DecidedIsBestKeyWins DEF KeyInv
<1> QED
  BY <1>1, <1>2, PTL

---------------------------------------------------------------------------
(* The policy: the call answers with what CredentialPolicy allows.         *)

\* The policy's operators are those of the call.
LEMMA SameOperators ==
    /\ \A k, u : Policy!URLsMatchStr(k, u) <=> URLsMatchStr(k, u)
    /\ \A e, i : Policy!MirrorTarget(e, i) = MirrorTarget(e, i)
    /\ \A u : Policy!Parses(u) <=> Parses(u)
    /\ Policy!Only <=> Only
    /\ Policy!Strategies = Strategies
  BY DEF Policy!URLsMatchStr, URLsMatchStr, Policy!URLsMatch, URLsMatch, Policy!Parses, Parses,
         Policy!PathCovers, PathCovers, Policy!PartMatches, PartMatches,
         Policy!ParsePotentiallySchemelessURL, ParsePotentiallySchemelessURL,
         Policy!MirrorTarget, MirrorTarget, Policy!WithoutTrailingSlash, WithoutTrailingSlash,
         Policy!Only, Only, Policy!Strategies, Strategies

\* The policy's names, concerned providers and durations are those of the call.
LEMMA SameNames ==
    /\ \A lookup : Policy!NameIn(lookup) = NameLookedUp(lookup)
    /\ \A lookup : Policy!Concerned(lookup)
                       = {p \in DOMAIN cfg.providers : IsImageAllowed(p, NameLookedUp(lookup))}
    /\ \A h : Policy!DurationOf(h) = AnswerDuration(h.provider, h.answer)
<1>1. \A lookup : Policy!NameIn(lookup) = NameLookedUp(lookup)
  BY SameOperators DEF Policy!NameIn, NameLookedUp
<1>2. \A lookup : Policy!Concerned(lookup)
                      = {p \in DOMAIN cfg.providers : IsImageAllowed(p, NameLookedUp(lookup))}
  BY <1>1, SameOperators DEF Policy!Concerned, IsImageAllowed
<1>3. \A h : Policy!DurationOf(h) = AnswerDuration(h.provider, h.answer)
  BY DEF Policy!DurationOf, AnswerDuration, DefaultCacheDuration
<1> QED
  BY <1>1, <1>2, <1>3

\* Somebody offered a credential if and only if somebody offered a matching key.
LEMMA OffersOfKeys ==
    ASSUME NEW lookup
    PROVE  Policy!Offers(lookup) = {} <=> Offered(lookup) = {}
<1>1. ASSUME NEW o \in Policy!Offers(lookup) PROVE Offered(lookup) # {}
  BY <1>1, SameNames, SameOperators DEF Policy!Offers, Offered
<1>2. ASSUME NEW k \in Offered(lookup) PROVE Policy!Offers(lookup) # {}
  <2>1. PICK h \in heard : h.lookup = lookup /\ k \in DOMAIN h.answer.auth
    BY <1>2 DEF Offered
  <2>2. URLsMatchStr(k, NameLookedUp(lookup))
    BY <1>2 DEF Offered
  <2>3. [auth |-> h.answer.auth[k], duration |-> Policy!DurationOf(h)] \in Policy!Offers(lookup)
    BY <2>1, <2>2, SameNames, SameOperators DEF Policy!Offers
  <2> QED
    BY <2>3
<1> QED
  BY <1>1, <1>2

\* A lookup that is made is one of the policy's.
LookupsMeant ==
    /\ phase \notin {"start", "failed"} /\ cfg.mirror # NoMirror => Parses(cfg.mirror.endpoint)
    /\ Looking => phase \in Policy!Lookups
    /\ \A h \in heard : h.lookup \in Policy!Lookups

\* Each concerned provider is asked once in a lookup: the pending ones are still to be asked.
EachAskedOnce ==
    /\ Looking => \A p \in pending : ~Policy!HasAnswered(phase, p)
    /\ Looking => \A p \in Policy!Concerned(phase) \ pending : Policy!HasAnswered(phase, p)
    /\ \A lookup \in Policy!Lookups :
           Finished(lookup) => \A p \in Policy!Concerned(lookup) : Policy!HasAnswered(lookup, p)

\* What is kept is an offer, credential and duration together.
BestOffered ==
    Looking =>
        IF best.url = NoKey THEN best = NoMatch
        ELSE [auth |-> best.auth, duration |-> best.duration] \in Policy!Offers(phase)

ResultOffered(lookup) ==
    LET result == ResultOf(lookup)
        offer  == [auth |-> result.auth, duration |-> result.duration]
    IN  IF result.found THEN offer \in Policy!Offers(lookup) ELSE offer = Policy!None

PolicyInv ==
    /\ KeyInv
    /\ phase # "done" => response = NoResponse
    /\ LookupsMeant
    /\ EachAskedOnce
    /\ BestOffered
    /\ ResultOffered("mirror") /\ ResultOffered("origin")

LEMMA InitPolicyInv == Init => PolicyInv
<1> SUFFICES ASSUME Init PROVE PolicyInv
  OBVIOUS
<1>1. KeyInv
  BY InitKeyInv
<1>2. ~Looking /\ \A lookup : ~Finished(lookup)
  BY DEF Init, Looking, Finished
<1>3. ResultOffered("mirror") /\ ResultOffered("origin")
  BY DEF Init, ResultOffered, ResultOf, NotFound, Policy!None
<1> QED
  BY <1>1, <1>2, <1>3 DEF Init, PolicyInv, LookupsMeant, EachAskedOnce, BestOffered

\* While more is heard, offers stay and answers stay given.
LEMMA OffersStay ==
    ASSUME UNCHANGED <<cfg, img>>, heard \subseteq heard'
    PROVE  /\ \A lookup : Policy!Offers(lookup) \subseteq Policy!Offers(lookup)'
           /\ \A lookup, p : Policy!HasAnswered(lookup, p) => Policy!HasAnswered(lookup, p)'
           /\ \A lookup : Policy!Concerned(lookup)' = Policy!Concerned(lookup)
           /\ Policy!Lookups' = Policy!Lookups
<1>1. \A h : Policy!DurationOf(h)' = Policy!DurationOf(h)
  BY DEF Policy!DurationOf
<1>2. \A lookup : Policy!NameIn(lookup)' = Policy!NameIn(lookup)
  BY DEF Policy!NameIn
<1>3. ASSUME NEW lookup, NEW o \in Policy!Offers(lookup) PROVE o \in Policy!Offers(lookup)'
  BY <1>1, <1>2 DEF Policy!Offers
<1>4. \A lookup : Policy!Concerned(lookup)' = Policy!Concerned(lookup)
  BY <1>2 DEF Policy!Concerned
<1>5. \A lookup, p : Policy!HasAnswered(lookup, p) => Policy!HasAnswered(lookup, p)'
  BY DEF Policy!HasAnswered
<1>6. Policy!Lookups' = Policy!Lookups
  BY DEF Policy!Lookups, Policy!MirrorUnreadable, Policy!Only
<1> QED
  BY <1>3, <1>4, <1>5, <1>6

LEMMA ResultsStayOffered ==
    ASSUME PolicyInv, UNCHANGED <<cfg, img, mirror, origin>>, heard \subseteq heard'
    PROVE  ResultOffered("mirror")' /\ ResultOffered("origin")'
<1>1. \A lookup : ResultOf(lookup)' = ResultOf(lookup)
  BY DEF ResultOf
<1> QED
  BY <1>1, OffersStay DEF PolicyInv, ResultOffered, Policy!None

\* The lookups of the policy, spelled out.
LEMMA LookupsSpelled ==
    ASSUME cfg.mirror # NoMirror => Parses(cfg.mirror.endpoint)
    PROVE  /\ "mirror" \in Policy!Lookups <=> cfg.mirror # NoMirror
           /\ "origin" \in Policy!Lookups <=> ~Only
           /\ Policy!Lookups \subseteq {"mirror", "origin"}
  BY SameOperators DEF Policy!Lookups, Policy!MirrorUnreadable

\* A lookup that begins has everybody to ask.
LEMMA BeginKeepsPolicy ==
    ASSUME PolicyInv, NEW lookup \in {"mirror", "origin"},
           BeginLookup(lookup, NameLookedUp(lookup)),
           UNCHANGED <<cfg, img, heard, response>>,
           phase \in {"start", "mirror"}, lookup = "mirror" => phase = "start",
           cfg.mirror # NoMirror => Parses(cfg.mirror.endpoint),
           lookup \in Policy!Lookups,
           \A l \in Policy!Lookups :
               Finished(l)' => \A p \in Policy!Concerned(l) : Policy!HasAnswered(l, p)
    PROVE  LookupsMeant' /\ EachAskedOnce' /\ BestOffered'
<1>1. phase' = lookup /\ pending' = DOMAIN cfg.providers /\ best' = NoMatch
  BY DEF BeginLookup
<1>2. \A h \in heard : h.lookup # lookup
  BY DEF PolicyInv, KeyInv, GrantInv, HeardInTurn
<1>3. \A p : ~Policy!HasAnswered(lookup, p)'
  BY <1>2 DEF Policy!HasAnswered
<1>4. Policy!Concerned(lookup)' \subseteq pending'
  BY <1>1 DEF Policy!Concerned
<1>5. LookupsMeant'
  BY <1>1, OffersStay DEF PolicyInv, LookupsMeant
<1>6. EachAskedOnce'
  BY <1>1, <1>3, <1>4, OffersStay DEF EachAskedOnce
<1>7. BestOffered'
  BY <1>1 DEF BestOffered, NoMatch
<1> QED
  BY <1>5, <1>6, <1>7

\* A step that leaves a lookup, or takes place outside of one.
LEMMA OutsideKeepsPolicy ==
    ASSUME PolicyInv, UNCHANGED <<cfg, img, heard>>,
           phase' \in {"merge", "done", "failed"},
           phase' # "failed" /\ cfg.mirror # NoMirror => Parses(cfg.mirror.endpoint),
           \A l \in Policy!Lookups :
               Finished(l)' => \A p \in Policy!Concerned(l) : Policy!HasAnswered(l, p)
    PROVE  LookupsMeant' /\ EachAskedOnce' /\ BestOffered'
<1>1. ~Looking'
  BY DEF Looking
<1>2. LookupsMeant'
  BY <1>1, OffersStay DEF PolicyInv, LookupsMeant
<1>3. EachAskedOnce'
  BY <1>1, OffersStay DEF EachAskedOnce
<1> QED
  BY <1>1, <1>2, <1>3 DEF BestOffered

\* An answer adds to the offers and is the provider's only one in this lookup.
LEMMA AnsweringKeepsPolicy ==
    ASSUME PolicyInv, NEW p \in pending, NEW a \in Answers, ProviderAnswers(p, a)
    PROVE  LookupsMeant' /\ EachAskedOnce' /\ BestOffered'
<1> DEFINE new == [lookup |-> phase, provider |-> p, answer |-> a]
<1>1. /\ Looking /\ UNCHANGED <<cfg, img, phase, best>>
      /\ heard' = heard \cup {new} /\ pending' = pending \ {p}
  BY DEF ProviderAnswers, Reaches, Looking
<1>2. LookupsMeant'
  <2>1. phase \in Policy!Lookups
    BY <1>1 DEF PolicyInv, LookupsMeant
  <2> QED
    BY <1>1, <2>1, OffersStay DEF PolicyInv, LookupsMeant, Looking
<1>3. \A q : Policy!HasAnswered(phase, q)' <=> Policy!HasAnswered(phase, q) \/ q = p
  <2>1. new.lookup = phase /\ new.provider = p
    OBVIOUS
  <2> HIDE DEF new
  <2> QED
    BY <1>1, <2>1 DEF Policy!HasAnswered
<1>4. EachAskedOnce'
  BY <1>1, <1>3, OffersStay DEF PolicyInv, EachAskedOnce, Looking, Finished
<1>5. BestOffered'
  BY <1>1, OffersStay DEF PolicyInv, BestOffered, Looking
<1> QED
  BY <1>2, <1>4, <1>5

\* The key kept is an offer of the answer being walked.
LEMMA ConsideringKeepsPolicy ==
    ASSUME PolicyInv, NEW key \in keys, ConsiderKey(key)
    PROVE  LookupsMeant' /\ EachAskedOnce' /\ BestOffered'
<1>1. /\ Looking /\ UNCHANGED <<cfg, img, phase, target, pending, answer, heard>>
  BY DEF ConsiderKey, PolicyInv, KeyInv, GrantInv, TypeInv, AnswerHeard
<1>2. LookupsMeant' /\ EachAskedOnce'
  BY <1>1, OffersStay DEF PolicyInv, LookupsMeant, EachAskedOnce, Looking, Finished,
                          Policy!HasAnswered
<1>3. CASE best' = best
  BY <1>1, <1>2, <1>3, OffersStay DEF PolicyInv, BestOffered, Looking
<1>4. CASE best' # best
  <2>1. /\ URLsMatchStr(key, NameLookedUp(phase))
        /\ best' = [url      |-> key,
                    auth     |-> answer.auth[key],
                    duration |-> AnswerDuration(answer.provider, answer)]
    BY <1>1, <1>4 DEF ConsiderKey, PolicyInv, KeyInv, GrantInv, TargetNamed
  <2>2. PICK a \in Answers :
            /\ answer = [provider |-> answer.provider, duration |-> a.duration, auth |-> a.auth]
            /\ [lookup |-> phase, provider |-> answer.provider, answer |-> a] \in heard
    BY DEF PolicyInv, KeyInv, GrantInv, TypeInv, AnswerHeard
  <2> DEFINE h == [lookup |-> phase, provider |-> answer.provider, answer |-> a]
  <2>3. key \in DOMAIN a.auth /\ a.auth[key] = answer.auth[key]
    BY <2>2 DEF PolicyInv, KeyInv, GrantInv, TypeInv, AnswerHeard
  <2>4. Policy!DurationOf(h) = AnswerDuration(answer.provider, answer)
    BY <2>2, SameNames DEF AnswerDuration
  <2>5. [auth |-> h.answer.auth[key], duration |-> Policy!DurationOf(h)] \in Policy!Offers(phase)
    BY <2>1, <2>2, <2>3, SameNames, SameOperators DEF Policy!Offers
  <2>6. [auth |-> best'.auth, duration |-> best'.duration] \in Policy!Offers(phase)
    BY <2>1, <2>3, <2>4, <2>5
  <2>7. key # NoKey
    BY OrderAssumption DEF PolicyInv, KeyInv, GrantInv, TypeInv, TypeOK
  <2> QED
    BY <1>1, <1>2, <2>1, <2>6, <2>7, OffersStay DEF BestOffered
<1> QED
  BY <1>3, <1>4

\* The lookups that are over when the mirror's ends, or the origin's.
LEMMA EndAnswered ==
    ASSUME PolicyInv, Looking, pending = {}
    PROVE  \A p \in Policy!Concerned(phase) : Policy!HasAnswered(phase, p)
  BY DEF PolicyInv, EachAskedOnce

\* The result of a lookup that ends is an offer.
LEMMA EndOffered ==
    ASSUME PolicyInv, Looking
    PROVE  LET offer == [auth |-> Result.auth, duration |-> Result.duration]
           IN  IF Result.found THEN offer \in Policy!Offers(phase) ELSE offer = Policy!None
<1>1. Result.auth = best.auth /\ Result.duration = best.duration
  BY DEF Result
<1>2. CASE best.url = NoKey
  <2>1. best = NoMatch
    BY <1>2 DEF PolicyInv, BestOffered
  <2>2. Result.auth = NoAuth /\ Result.duration = 0
    BY <1>1, <2>1 DEF NoMatch
  <2>3. ~Result.found
    BY <1>2 DEF Result
  <2> QED
    BY <2>2, <2>3 DEF Policy!None
<1>3. CASE best.url # NoKey
  <2>1. Result.found
    BY <1>3 DEF Result
  <2>2. [auth |-> best.auth, duration |-> best.duration] \in Policy!Offers(phase)
    BY <1>3 DEF PolicyInv, BestOffered
  <2> QED
    BY <1>1, <2>1, <2>2
<1> QED
  BY <1>2, <1>3

LEMMA NextPolicyInv == PolicyInv /\ [Next]_vars => PolicyInv'
<1> SUFFICES ASSUME PolicyInv, [Next]_vars PROVE PolicyInv'
  OBVIOUS
<1>0. KeyInv'
  BY NextKeyInv DEF PolicyInv
<1>1. CASE SkipMirrorLookup
  <2>1. /\ phase = "start" /\ phase' = "origin" /\ cfg.mirror = NoMirror
        /\ UNCHANGED <<cfg, img, mirror, origin, response, heard>>
        /\ BeginLookup("origin", NameLookedUp("origin"))
    BY <1>1 DEF SkipMirrorLookup, BeginLookup, NameLookedUp
  <2>2. Policy!Lookups = {"origin"}
    BY <2>1, LookupsSpelled DEF Only
  <2>3. LookupsMeant' /\ EachAskedOnce' /\ BestOffered'
    BY <2>1, <2>2, BeginKeepsPolicy DEF Finished
  <2> QED
    BY <1>0, <2>1, <2>3, ResultsStayOffered DEF PolicyInv
<1>2. CASE StartMirrorLookup
  <2>1. /\ phase = "start" /\ phase' = "mirror" /\ cfg.mirror # NoMirror
        /\ Parses(cfg.mirror.endpoint)
        /\ UNCHANGED <<cfg, img, mirror, origin, response, heard>>
        /\ BeginLookup("mirror", NameLookedUp("mirror"))
    BY <1>2 DEF StartMirrorLookup, BeginLookup, NameLookedUp
  <2>2. "mirror" \in Policy!Lookups
    BY <2>1, LookupsSpelled
  <2>3. LookupsMeant' /\ EachAskedOnce' /\ BestOffered'
    BY <2>1, <2>2, BeginKeepsPolicy DEF Finished
  <2> QED
    BY <1>0, <2>1, <2>3, ResultsStayOffered DEF PolicyInv
<1>3. CASE RejectEndpoint
  <2>1. phase' = "failed" /\ UNCHANGED <<cfg, img, mirror, origin, response, heard>>
        /\ phase = "start"
    BY <1>3 DEF RejectEndpoint
  <2> QED
    BY <1>0, <2>1, OutsideKeepsPolicy, ResultsStayOffered DEF PolicyInv, Finished
<1>4. ASSUME NEW p \in pending, ProviderNotConcerned(p) PROVE PolicyInv'
  <2>1. /\ Looking /\ UNCHANGED <<cfg, img, phase, best, mirror, origin, response, heard>>
        /\ pending' = pending \ {p} /\ ~IsImageAllowed(p, target)
    BY <1>4 DEF ProviderNotConcerned, Reaches, Looking
  <2>2. p \notin Policy!Concerned(phase)
    BY <2>1, SameNames DEF PolicyInv, KeyInv, GrantInv, TargetNamed
  <2>3. LookupsMeant' /\ BestOffered'
    BY <2>1, OffersStay DEF PolicyInv, LookupsMeant, BestOffered, Looking
  <2>4. \A l, q : Policy!HasAnswered(l, q)' <=> Policy!HasAnswered(l, q)
    BY <2>1 DEF Policy!HasAnswered
  <2>5. EachAskedOnce'
    BY <2>1, <2>2, <2>4, OffersStay DEF PolicyInv, EachAskedOnce, Looking, Finished
  <2> QED
    BY <1>0, <2>1, <2>3, <2>5, ResultsStayOffered DEF PolicyInv
<1>5. ASSUME NEW p \in pending, ProviderFails(p) PROVE PolicyInv'
  <2>1. /\ phase \in {"mirror", "origin"} /\ phase' = "failed"
        /\ UNCHANGED <<cfg, img, mirror, origin, response, heard>>
    BY <1>5 DEF ProviderFails, Reaches
  <2> QED
    BY <1>0, <2>1, OutsideKeepsPolicy, ResultsStayOffered DEF PolicyInv, Finished
<1>6. ASSUME NEW p \in pending, NEW a \in Answers, ProviderAnswers(p, a) PROVE PolicyInv'
  <2>1. /\ UNCHANGED <<cfg, img, phase, mirror, origin, response>> /\ heard \subseteq heard'
    BY <1>6 DEF ProviderAnswers
  <2> QED
    BY <1>0, <1>6, <2>1, AnsweringKeepsPolicy, ResultsStayOffered DEF PolicyInv
<1>7. ASSUME NEW key \in keys, ConsiderKey(key) PROVE PolicyInv'
  <2>1. UNCHANGED <<cfg, img, phase, mirror, origin, response, heard>>
    BY <1>7 DEF ConsiderKey
  <2> QED
    BY <1>0, <1>7, <2>1, ConsideringKeepsPolicy, ResultsStayOffered DEF PolicyInv
<1>8. CASE EndMirrorLookup
  <2>1. /\ phase = "mirror" /\ Looking /\ pending = {} /\ mirror' = Result
        /\ UNCHANGED <<cfg, img, origin, response, heard>>
    BY <1>8 DEF EndMirrorLookup, Looking
  <2>2. \A p \in Policy!Concerned("mirror") : Policy!HasAnswered("mirror", p)
    BY <2>1, EndAnswered
  <2>3. cfg.mirror # NoMirror => Parses(cfg.mirror.endpoint)
    BY <2>1 DEF PolicyInv, LookupsMeant
  <2>4. ResultOffered("mirror")'
    BY <2>1, EndOffered, OffersStay DEF ResultOffered, ResultOf, Policy!None
  <2>5. ResultOffered("origin")'
    BY <2>1, OffersStay DEF PolicyInv, ResultOffered, ResultOf, Policy!None
  <2>6. LookupsMeant' /\ EachAskedOnce' /\ BestOffered'
    <3>1. CASE Only
      <4>1. phase' = "merge" /\ Policy!Lookups \subseteq {"mirror"}
        BY <1>8, <2>3, <3>1, LookupsSpelled DEF EndMirrorLookup
      <4> QED
        BY <2>1, <2>2, <2>3, <4>1, OutsideKeepsPolicy
    <3>2. CASE ~Only
      <4>1. phase' = "origin" /\ BeginLookup("origin", NameLookedUp("origin"))
        BY <1>8, <3>2 DEF EndMirrorLookup, BeginLookup, NameLookedUp
      <4>2. "origin" \in Policy!Lookups /\ Policy!Lookups \subseteq {"mirror", "origin"}
        BY <2>3, <3>2, LookupsSpelled
      <4> QED
        BY <2>1, <2>2, <2>3, <4>1, <4>2, BeginKeepsPolicy DEF Finished
    <3> QED
      BY <3>1, <3>2
  <2>7. phase' # "done"
    BY <1>8 DEF EndMirrorLookup, BeginLookup
  <2> QED
    BY <1>0, <2>1, <2>4, <2>5, <2>6, <2>7 DEF PolicyInv
<1>9. CASE EndOriginLookup
  <2>1. /\ phase = "origin" /\ Looking /\ pending = {} /\ origin' = Result /\ phase' = "merge"
        /\ UNCHANGED <<cfg, img, mirror, response, heard>>
    BY <1>9 DEF EndOriginLookup, Looking
  <2>2. \A p \in Policy!Concerned("origin") : Policy!HasAnswered("origin", p)
    BY <2>1, EndAnswered
  <2>3. cfg.mirror # NoMirror => Parses(cfg.mirror.endpoint)
    BY <2>1 DEF PolicyInv, LookupsMeant
  <2>4. ResultOffered("origin")'
    BY <2>1, EndOffered, OffersStay DEF ResultOffered, ResultOf, Policy!None
  <2>5. ResultOffered("mirror")'
    BY <2>1, OffersStay DEF PolicyInv, ResultOffered, ResultOf, Policy!None
  <2>6. \A l \in Policy!Lookups : \A p \in Policy!Concerned(l) : Policy!HasAnswered(l, p)
    BY <2>1, <2>2, <2>3, LookupsSpelled DEF PolicyInv, EachAskedOnce, Finished
  <2>7. LookupsMeant' /\ EachAskedOnce' /\ BestOffered'
    BY <2>1, <2>3, <2>6, OutsideKeepsPolicy
  <2> QED
    BY <1>0, <2>1, <2>4, <2>5, <2>7 DEF PolicyInv
<1>10. CASE Respond
  <2>1. /\ phase = "merge" /\ phase' = "done"
        /\ UNCHANGED <<cfg, img, mirror, origin, heard>>
    BY <1>10 DEF Respond
  <2> QED
    BY <1>0, <2>1, OutsideKeepsPolicy, ResultsStayOffered
    DEF PolicyInv, LookupsMeant, EachAskedOnce, Finished
<1>11. CASE RejectMerge
  <2>1. /\ phase = "merge" /\ phase' = "failed"
        /\ UNCHANGED <<cfg, img, mirror, origin, response, heard>>
    BY <1>11 DEF RejectMerge
  <2> QED
    BY <1>0, <2>1, OutsideKeepsPolicy, ResultsStayOffered DEF PolicyInv, Finished
<1>12. CASE UNCHANGED vars
  <2>1. \A l, q : Policy!HasAnswered(l, q)' <=> Policy!HasAnswered(l, q)
    BY <1>12 DEF vars, Policy!HasAnswered
  <2>2. LookupsMeant' /\ EachAskedOnce' /\ BestOffered'
    BY <1>12, <2>1, OffersStay DEF vars, PolicyInv, LookupsMeant, EachAskedOnce, BestOffered,
                                   Looking, Finished
  <2> QED
    BY <1>0, <1>12, <2>2, ResultsStayOffered DEF vars, PolicyInv
<1> QED
  BY <1>1, <1>2, <1>3, <1>4, <1>5, <1>6, <1>7, <1>8, <1>9, <1>10, <1>11, <1>12 DEF Next, CallStep, PluginEnds

---------------------------------------------------------------------------
(* What the kubelet makes of the keys of a response.                       *)

\* A URL without its scheme has the same host, port and path.
LEMMA SchemeDropped ==
    ASSUME NEW u \in URL
    PROVE  LET v == ParsePotentiallySchemelessURL(u)
           IN  v.parts = u.parts /\ v.port = u.port /\ v.path = u.path
  BY DEF ParsePotentiallySchemelessURL, URL

\* Every image's own name is a key that matches it.
LEMMA OwnNameMatches ==
    ASSUME NEW u \in URL
    PROVE  URLsMatchStr(u, u)
<1>1. Parses(u)
  BY MalformedAssumption DEF Parses
<1>2. PathCovers(u.path, u.path)
  <2>1. Len(u.path) \in Nat
    BY DEF URL
  <2> QED
    BY <2>1 DEF PathCovers
<1> QED
  BY <1>1, <1>2, SchemeDropped DEF URLsMatchStr, URLsMatch, PartMatches

\* The key under which a response puts its second credential matches exactly the images of
\* registries with as many host parts and the same port, the image itself among them, and is
\* a key of its own: neither credential overwrites the other (dynamic.go:196-213,
\* globber.go).
THEOREM WildcardKeyMatches ==
    ASSUME NEW u \in URL, NamesRegistry(u)
    PROVE  LET glob == GlobbedDomainForImage(u)
           IN  /\ glob # u
               /\ \A v \in URL : URLsMatchStr(glob, v) <=>
                      Len(v.parts) = Len(u.parts) /\ v.port = u.port
<1> DEFINE glob == GlobbedDomainForImage(u)
           empty == ""
           star  == "*"
           stars == [i \in 1..Len(u.parts) |-> star]
<1>1. u.path # << >> /\ Domain(u) = u.parts /\ DomainPort(u) = u.port
  BY DEF NamesRegistry, Domain, DomainPort
<1>2. u.parts \in Seq(STRING) /\ u.port \in STRING /\ Len(u.parts) \in Nat
  BY DEF URL
<1>3. glob = [scheme |-> empty, parts |-> stars, port |-> u.port, path |-> << >>]
  BY <1>1 DEF GlobbedDomainForImage
<1>4. empty \in STRING /\ star \in STRING
  BY StringAssumption
<1>5. \A part : PartMatches(star, part)
  BY DEF PartMatches
<1> HIDE DEF empty, star
<1>6. /\ stars \in Seq(STRING) /\ Len(stars) = Len(u.parts)
      /\ \A i \in 1..Len(stars) : stars[i] = star
  <2>1. stars \in [1..Len(u.parts) -> STRING]
    BY <1>4
  <2> QED
    BY <1>2, <2>1
<1> HIDE DEF stars
<1>7. glob.parts = stars /\ glob.port = u.port /\ glob.path = << >>
  BY <1>3
<1>8. glob \in URL
  <2>1. << >> \in Seq(STRING)
    OBVIOUS
  <2> QED
    BY <1>2, <1>3, <1>4, <1>6, <2>1 DEF URL
<1> HIDE DEF glob
<1>9. glob # u
  BY <1>1, <1>7
<1>10. ASSUME NEW v \in URL
       PROVE  URLsMatchStr(glob, v) <=> Len(v.parts) = Len(u.parts) /\ v.port = u.port
  <2>1. Parses(v) /\ Parses(glob)
    BY <1>8, MalformedAssumption DEF Parses
  <2>2. PathCovers(glob.path, v.path)
    <3>1. Len(v.path) \in Nat
      BY DEF URL
    <3> QED
      BY <1>7, <3>1 DEF PathCovers
  <2>3. \A i \in 1..Len(glob.parts) : PartMatches(glob.parts[i], v.parts[i])
    BY <1>5, <1>6, <1>7
  <2> QED
    BY <1>6, <1>7, <1>8, <2>1, <2>2, <2>3, SchemeDropped DEF URLsMatchStr, URLsMatch
<1> QED
  BY <1>9, <1>10 DEF glob

\* The mirror's address, without a slash at its end, is a key that matches every image under
\* the name the mirror serves it with (dynamic.go:226-250).
THEOREM MirrorKeyMatches ==
    ASSUME NEW endpoint \in URL, NEW u \in URL
    PROVE  URLsMatchStr([endpoint EXCEPT !.path = WithoutTrailingSlash(@)],
                        MirrorTarget(endpoint, u))
<1> DEFINE key == [endpoint EXCEPT !.path = WithoutTrailingSlash(@)]
           base == WithoutTrailingSlash(endpoint.path)
           mirrored == MirrorTarget(endpoint, u)
<1>1. endpoint.path \in Seq(STRING) /\ u.path \in Seq(STRING) /\ endpoint.parts \in Seq(STRING)
  BY DEF URL
<1>2. base \in Seq(STRING)
  <2>1. CASE base = endpoint.path
    BY <1>1, <2>1
  <2>2. CASE base # endpoint.path
    <3>1. /\ endpoint.path # << >>
          /\ base = SubSeq(endpoint.path, 1, Len(endpoint.path) - 1)
      BY <2>2 DEF WithoutTrailingSlash
    <3> QED
      BY <1>1, <3>1
  <2> QED
    BY <2>1, <2>2
<1> HIDE DEF base
<1>3. /\ key.parts = endpoint.parts /\ key.port = endpoint.port /\ key.path = base
      /\ key \in URL
  BY <1>2 DEF URL, base
<1>4. /\ mirrored.parts = endpoint.parts /\ mirrored.port = endpoint.port
      /\ mirrored.path = base \o u.path
      /\ mirrored \in URL
  <2>1. base \o u.path \in Seq(STRING)
    BY <1>1, <1>2
  <2>2. /\ ParsePotentiallySchemelessURL(endpoint).path = endpoint.path
        /\ ParsePotentiallySchemelessURL(endpoint) = [endpoint EXCEPT !.scheme = ""]
    BY SchemeDropped DEF ParsePotentiallySchemelessURL
  <2>3. mirrored = [[endpoint EXCEPT !.scheme = ""] EXCEPT !.path = base \o u.path]
    BY <2>2 DEF MirrorTarget, base
  <2> QED
    BY <2>1, <2>3, StringAssumption DEF URL
<1> HIDE DEF key, mirrored
<1>5. PathCovers(key.path, mirrored.path)
  BY <1>1, <1>2, <1>3, <1>4 DEF PathCovers
<1>6. Parses(key) /\ Parses(mirrored)
  BY <1>3, <1>4, MalformedAssumption DEF Parses
<1>7. URLsMatchStr(key, mirrored)
  BY <1>3, <1>4, <1>5, <1>6, SchemeDropped DEF URLsMatchStr, URLsMatch, PartMatches
<1> QED
  BY <1>7 DEF key, mirrored

\* An image matches itself, and its wildcard key, another key, which sorts before it.
LEMMA GlobMatches ==
    ASSUME img \in Images
    PROVE  LET glob == GlobbedDomainForImage(img)
           IN  /\ glob # img
               /\ URLsMatchStr(img, img) /\ URLsMatchStr(glob, img)
               /\ Before(glob, img) /\ ~Before(img, glob)
               /\ ~Before(img, img) /\ ~Before(glob, glob)
<1>1. img \in URL /\ NamesRegistry(img)
  BY ImageAssumption
<1> QED
  BY <1>1, OwnNameMatches, WildcardKeyMatches, ImageAssumption

\* Of a response with no key, one or two, the kubelet tries nothing, one credential or two.
LEMMA NoAttempts == KubeletAttempts(<< >>) = << >>
<1>1. MatchingKeys(<< >>) = {}
  BY DEF MatchingKeys
<1>2. Cardinality(MatchingKeys(<< >>)) = 0
  BY <1>1, FS_EmptySet
<1> QED
  BY <1>2 DEF KubeletAttempts

LEMMA OneAttempt ==
    ASSUME img \in Images, NEW auth, DOMAIN auth = {img}
    PROVE  KubeletAttempts(auth) = <<auth[img]>>
<1> DEFINE pick(i) == CHOOSE k \in MatchingKeys(auth) :
                          Cardinality({j \in MatchingKeys(auth) : Before(k, j)}) = i - 1
<1>1. MatchingKeys(auth) = {img}
  BY GlobMatches DEF MatchingKeys
<1>2. {j \in MatchingKeys(auth) : Before(img, j)} = {}
  BY <1>1, GlobMatches
<1>3. Cardinality({j \in MatchingKeys(auth) : Before(img, j)}) = 0 /\ 1 - 1 = 0
  BY <1>2, FS_EmptySet
<1>4. pick(1) = img
  BY <1>1, <1>3
<1>5. KubeletAttempts(auth) = [i \in 1..Cardinality(MatchingKeys(auth)) |-> auth[pick(i)]]
  BY DEF KubeletAttempts
<1>6. Cardinality(MatchingKeys(auth)) = 1
  BY <1>1, FS_Singleton
<1> HIDE DEF pick
<1>7. KubeletAttempts(auth) = [i \in 1..1 |-> auth[pick(i)]]
  BY <1>5, <1>6
<1> QED
  BY <1>4, <1>7

LEMMA TwoAttempts ==
    ASSUME img \in Images, NEW auth, DOMAIN auth = {img, GlobbedDomainForImage(img)}
    PROVE  KubeletAttempts(auth) = <<auth[img], auth[GlobbedDomainForImage(img)]>>
<1> DEFINE glob == GlobbedDomainForImage(img)
           pick(i) == CHOOSE k \in MatchingKeys(auth) :
                          Cardinality({j \in MatchingKeys(auth) : Before(k, j)}) = i - 1
<1>1. MatchingKeys(auth) = {img, glob}
  BY GlobMatches DEF MatchingKeys
<1>2. /\ {j \in MatchingKeys(auth) : Before(img, j)} = {}
      /\ {j \in MatchingKeys(auth) : Before(glob, j)} = {img}
  BY <1>1, GlobMatches
<1>3. /\ Cardinality({j \in MatchingKeys(auth) : Before(img, j)}) = 0
      /\ Cardinality({j \in MatchingKeys(auth) : Before(glob, j)}) = 1
  <2>1. Cardinality({}) = 0 /\ Cardinality({img}) = 1
    BY FS_EmptySet, FS_Singleton
  <2> QED
    BY <1>2, <2>1
<1>4. pick(1) = img
  <2>1. 1 - 1 = 0
    OBVIOUS
  <2> QED
    BY <1>1, <1>3, <2>1
<1>5. pick(2) = glob
  <2>1. 2 - 1 = 1
    OBVIOUS
  <2> QED
    BY <1>1, <1>3, <2>1
<1>6. KubeletAttempts(auth) = [i \in 1..Cardinality(MatchingKeys(auth)) |-> auth[pick(i)]]
  BY DEF KubeletAttempts
<1>7. Cardinality(MatchingKeys(auth)) = 2
  <2>1. IsFiniteSet({img}) /\ Cardinality({img}) = 1
    BY FS_Singleton
  <2>2. glob \notin {img} /\ MatchingKeys(auth) = {img} \cup {glob}
    BY <1>1, GlobMatches
  <2> QED
    BY <2>1, <2>2, FS_AddElement
<1> HIDE DEF pick
<1>8. KubeletAttempts(auth) = [i \in 1..2 |-> auth[pick(i)]]
  BY <1>6, <1>7
<1> HIDE DEF glob
<1>9. KubeletAttempts(auth) = <<auth[img], auth[glob]>>
  BY <1>4, <1>5, <1>8
<1> QED
  BY <1>9 DEF glob

---------------------------------------------------------------------------
(* The steps of the call are steps of the policy.                          *)

\* What a lookup kept is one of the policy's choices, or None when it has none.
LEMMA ResultChosen ==
    ASSUME PolicyInv, NEW lookup \in {"mirror", "origin"}, phase = "merge"
    PROVE  LET result == ResultOf(lookup)
           IN  /\ [auth |-> result.auth, duration |-> result.duration] \in Policy!Choices(lookup)
               /\ result.found <=> Policy!Offers(lookup) # {}
               /\ ~result.found => result.duration = 0
               /\ result.found => lookup \in Policy!Lookups
<1> DEFINE result == ResultOf(lookup)
           offer == [auth |-> result.auth, duration |-> result.duration]
<1>1. ResultOffered(lookup)
  BY DEF PolicyInv
<1>2. Finished(lookup) /\ Decided(lookup)
  BY DEF PolicyInv, KeyInv, Finished
<1>3. result.found <=> Offered(lookup) # {}
  BY <1>2 DEF Decided
<1>4. result.found <=> Policy!Offers(lookup) # {}
  BY <1>3, OffersOfKeys
<1>5. IF result.found THEN offer \in Policy!Offers(lookup) ELSE offer = Policy!None
  BY <1>1 DEF ResultOffered
<1>6. offer \in Policy!Choices(lookup)
  BY <1>4, <1>5 DEF Policy!Choices
<1>7. ~result.found => result.duration = 0
  BY <1>5 DEF Policy!None
<1>8. result.found => lookup \in Policy!Lookups
  <2>1. Offered(lookup) # {} => \E h \in heard : h.lookup = lookup
    BY DEF Offered
  <2> QED
    BY <1>3, <2>1 DEF PolicyInv, LookupsMeant
<1> QED
  BY <1>4, <1>6, <1>7, <1>8

\* The keys of the response, and the credential under each.
LEMMA AttemptsMade ==
    ASSUME PolicyInv, phase = "merge", Mergeable, NEW auth,
           auth = IF mirror.found THEN WithMirror(OriginAuthMap, cfg.mirror.strategy) ELSE OriginAuthMap
    PROVE  KubeletAttempts(auth) =
               IF ~mirror.found
               THEN IF Only THEN << >> ELSE <<origin.auth>>
               ELSE CASE cfg.mirror.strategy = "MirrorCredentialsOnly"  -> <<mirror.auth>>
                      [] cfg.mirror.strategy = "MirrorCredentialsFirst" -> <<mirror.auth, origin.auth>>
                      [] cfg.mirror.strategy = "MirrorCredentialsLast"  -> <<origin.auth, mirror.auth>>
<1> DEFINE glob == GlobbedDomainForImage(img)
<1>1. img \in Images
  BY DEF PolicyInv, KeyInv, GrantInv, TypeInv, TypeOK
<1>2. glob # img
  BY <1>1, GlobMatches
<1>3. CASE ~mirror.found
  <2>1. CASE Only
    BY <1>3, <2>1, NoAttempts DEF OriginAuthMap
  <2>2. CASE ~Only
    <3>1. DOMAIN auth = {img} /\ auth[img] = origin.auth
      BY <1>3, <2>2 DEF OriginAuthMap, Put
    <3> QED
      BY <1>1, <1>3, <2>2, <3>1, OneAttempt
  <2> QED
    BY <2>1, <2>2
<1>4. CASE mirror.found
  <2>1. cfg.mirror # NoMirror
    <3>1. "mirror" \in Policy!Lookups
      BY <1>4, ResultChosen DEF ResultOf
    <3> QED
      BY <3>1, LookupsSpelled DEF PolicyInv, LookupsMeant
  <2>2. auth = WithMirror(OriginAuthMap, cfg.mirror.strategy)
    BY <1>4
  <2>3. CASE cfg.mirror.strategy = "MirrorCredentialsOnly"
    <3>1. DOMAIN auth = {img} /\ auth[img] = mirror.auth
      BY <2>1, <2>2, <2>3 DEF OriginAuthMap, Only, WithMirror, Put
    <3>2. KubeletAttempts(auth) = <<mirror.auth>>
      BY <1>1, <3>1, OneAttempt
    <3> QED
      BY <1>4, <2>3, <3>2
  <2>4. CASE cfg.mirror.strategy = "MirrorCredentialsFirst"
    <3>1. /\ DOMAIN OriginAuthMap = {img} /\ OriginAuthMap[img] = origin.auth
      BY <2>4 DEF OriginAuthMap, Only, Put
    <3>2. auth = Put(Put(OriginAuthMap, glob, origin.auth), img, mirror.auth)
      BY <2>2, <2>4, <3>1 DEF WithMirror
    <3> HIDE DEF glob
    <3>3. DOMAIN auth = {img, glob} /\ auth[img] = mirror.auth /\ auth[glob] = origin.auth
      BY <1>2, <3>1, <3>2 DEF Put
    <3>4. KubeletAttempts(auth) = <<mirror.auth, origin.auth>>
      BY <1>1, <3>3, TwoAttempts DEF glob
    <3> QED
      BY <1>4, <2>4, <3>4
  <2>5. CASE cfg.mirror.strategy = "MirrorCredentialsLast"
    <3>1. /\ DOMAIN OriginAuthMap = {img} /\ OriginAuthMap[img] = origin.auth
      BY <2>5 DEF OriginAuthMap, Only, Put
    <3>2. auth = Put(OriginAuthMap, glob, mirror.auth)
      BY <2>2, <2>5 DEF WithMirror
    <3> HIDE DEF glob
    <3>3. DOMAIN auth = {img, glob} /\ auth[img] = origin.auth /\ auth[glob] = mirror.auth
      BY <1>2, <3>1, <3>2 DEF Put
    <3>4. KubeletAttempts(auth) = <<origin.auth, mirror.auth>>
      BY <1>1, <3>3, TwoAttempts DEF glob
    <3> QED
      BY <1>4, <2>5, <3>4
  <2> QED
    BY <1>4, <2>3, <2>4, <2>5 DEF Mergeable, Strategies
<1> QED
  BY <1>3, <1>4

\* A response grants what the policy does.
LEMMA RespondGrants ==
    ASSUME PolicyInv, Respond
    PROVE  \E m \in Policy!Choices("mirror"), o \in Policy!Choices("origin") : Policy!Grant(m, o)
<1> DEFINE m == [auth |-> mirror.auth, duration |-> mirror.duration]
           o == [auth |-> origin.auth, duration |-> origin.duration]
           auth == IF mirror.found THEN WithMirror(OriginAuthMap, cfg.mirror.strategy) ELSE OriginAuthMap
<1>1. /\ phase = "merge" /\ Mergeable /\ phase' = "done" /\ response = NoResponse
      /\ response'.auth = auth /\ response'.duration = CacheDuration
      /\ UNCHANGED <<cfg, img, heard>>
  BY DEF Respond, PolicyInv
<1>2. /\ m \in Policy!Choices("mirror") /\ (mirror.found <=> Policy!Offers("mirror") # {})
      /\ ~mirror.found => mirror.duration = 0
  BY <1>1, ResultChosen DEF ResultOf
<1>3. /\ o \in Policy!Choices("origin") /\ (origin.found <=> Policy!Offers("origin") # {})
      /\ ~origin.found => origin.duration = 0
  BY <1>1, ResultChosen DEF ResultOf
<1>4. KubeletAttempts(response.auth)' = Policy!Attempts(m, o)
  <2>1. KubeletAttempts(auth) = Policy!Attempts(m, o)
    BY <1>1, <1>2, AttemptsMade, SameOperators DEF Policy!Attempts
  <2>2. KubeletAttempts(response.auth)' = KubeletAttempts(auth)
    BY <1>1 DEF KubeletAttempts, MatchingKeys
  <2> QED
    BY <2>1, <2>2
<1>5. CacheDuration = Policy!Shortest(m, o)
  <2>1. mirror.duration \in Nat /\ origin.duration \in Nat
    BY DEF PolicyInv, KeyInv, GrantInv, TypeInv, TypeOK
  <2> QED
    BY <1>2, <1>3, <2>1 DEF CacheDuration, Policy!Shortest
<1>6. ~Policy!MirrorUnreadable
  BY <1>1, SameOperators DEF PolicyInv, LookupsMeant, Policy!MirrorUnreadable
<1>7. Policy!Offers("mirror") # {} => cfg.mirror.strategy \in Policy!Strategies
  BY <1>1, <1>2, SameOperators DEF Mergeable
<1>8. \A lookup \in Policy!Lookups : \A p \in Policy!Concerned(lookup) : Policy!HasAnswered(lookup, p)
  <2>1. \A lookup : Finished(lookup)
    BY <1>1 DEF Finished
  <2> QED
    BY <2>1 DEF PolicyInv, EachAskedOnce
<1> HIDE DEF m, o, auth
<1>9. Policy!Grant(m, o)
  BY <1>1, <1>4, <1>5, <1>6, <1>7, <1>8, NoAttempts
  DEF Policy!Grant, Policy!Outcome, Policy!Pending, NoResponse
<1> QED
  BY <1>2, <1>3, <1>9

\* The refinement itself: initial states, and one lemma per kind of step.
LEMMA InitImplements == Init => Policy!Init
  BY NoAttempts DEF Init, NoResponse, Policy!Init, Policy!Pending, Policy!Outcome

\* Steps the policy does not tell apart: they change neither what was heard nor the outcome.
LEMMA StepUnseen ==
    ASSUME UNCHANGED <<cfg, img, heard, response>>,
           phase \notin {"done", "failed"}, phase' \notin {"done", "failed"}
    PROVE  UNCHANGED Policy!vars
<1>1. KubeletAttempts(response.auth)' = KubeletAttempts(response.auth)
  BY DEF KubeletAttempts, MatchingKeys
<1> QED
  BY <1>1 DEF Policy!vars

\* A call that fails refuses.
LEMMA FailingRefuses ==
    ASSUME PolicyInv, UNCHANGED <<cfg, img, heard, response>>,
           phase \notin {"done", "failed"}, phase' = "failed"
    PROVE  Policy!Refuse
<1>1. response = NoResponse /\ response' = NoResponse
  BY DEF PolicyInv
<1>2. KubeletAttempts(response.auth) = << >> /\ KubeletAttempts(response.auth)' = << >>
  <2>1. KubeletAttempts(response.auth)' = KubeletAttempts(response.auth)
    BY DEF KubeletAttempts, MatchingKeys
  <2> QED
    BY <1>1, <2>1, NoAttempts DEF NoResponse
<1> QED
  BY <1>1, <1>2 DEF Policy!Refuse, Policy!Refused, Policy!Pending, Policy!Outcome, NoResponse

\* A plugin that answers is heard, for the first time in its lookup.
LEMMA AnsweringHears ==
    ASSUME PolicyInv, NEW p \in pending, NEW a \in Answers, ProviderAnswers(p, a)
    PROVE  Policy!Next
<1>1. /\ Looking /\ UNCHANGED <<cfg, img, phase, response>> /\ IsImageAllowed(p, target)
      /\ heard' = heard \cup {[lookup |-> phase, provider |-> p, answer |-> a]}
      /\ response = NoResponse
  BY DEF ProviderAnswers, Reaches, PolicyInv, Looking
<1>2. phase \in Policy!Lookups /\ ~Policy!HasAnswered(phase, p)
  BY <1>1 DEF PolicyInv, LookupsMeant, EachAskedOnce
<1>3. p \in Policy!Concerned(phase)
  BY <1>1, SameNames DEF PolicyInv, KeyInv, GrantInv, TargetNamed, TypeInv, TypeOK
<1>4. KubeletAttempts(response.auth) = << >> /\ KubeletAttempts(response.auth)' = << >>
  <2>1. KubeletAttempts(response.auth)' = KubeletAttempts(response.auth)
    BY <1>1 DEF KubeletAttempts, MatchingKeys
  <2> QED
    BY <1>1, <2>1, NoAttempts DEF NoResponse
<1>5. Policy!Hear(phase, p, a)
  BY <1>1, <1>2, <1>4 DEF Policy!Hear, Policy!Pending, Policy!Outcome, Looking, NoResponse
<1> QED
  BY <1>2, <1>3, <1>5 DEF Policy!Next

LEMMA NextImplements == PolicyInv /\ [Next]_vars => [Policy!Next]_(Policy!vars)
<1> SUFFICES ASSUME PolicyInv, [Next]_vars PROVE [Policy!Next]_(Policy!vars)
  OBVIOUS
<1>1. CASE SkipMirrorLookup
  BY <1>1, StepUnseen DEF SkipMirrorLookup, BeginLookup
<1>2. CASE StartMirrorLookup
  BY <1>2, StepUnseen DEF StartMirrorLookup, BeginLookup
<1>3. CASE RejectEndpoint
  BY <1>3, FailingRefuses DEF RejectEndpoint, Policy!Next
<1>4. ASSUME NEW p \in pending, ProviderNotConcerned(p) PROVE UNCHANGED Policy!vars
  BY <1>4, StepUnseen DEF ProviderNotConcerned, Reaches
<1>5. ASSUME NEW p \in pending, ProviderFails(p) PROVE Policy!Next
  BY <1>5, FailingRefuses DEF ProviderFails, Reaches, Policy!Next
<1>6. ASSUME NEW p \in pending, NEW a \in Answers, ProviderAnswers(p, a) PROVE Policy!Next
  BY <1>6, AnsweringHears
<1>7. ASSUME NEW key \in keys, ConsiderKey(key) PROVE UNCHANGED Policy!vars
  <2>1. Looking
    BY <1>7 DEF PolicyInv, KeyInv, GrantInv, TypeInv, AnswerHeard
  <2> QED
    BY <1>7, <2>1, StepUnseen DEF ConsiderKey, Looking
<1>8. CASE EndMirrorLookup
  BY <1>8, StepUnseen DEF EndMirrorLookup, BeginLookup
<1>9. CASE EndOriginLookup
  BY <1>9, StepUnseen DEF EndOriginLookup
<1>10. CASE Respond
  BY <1>10, RespondGrants DEF Policy!Next
<1>11. CASE RejectMerge
  BY <1>11, FailingRefuses DEF RejectMerge, Policy!Next
<1>12. CASE UNCHANGED vars
  <2>1. KubeletAttempts(response.auth)' = KubeletAttempts(response.auth)
    BY <1>12 DEF vars, KubeletAttempts, MatchingKeys
  <2> QED
    BY <1>12, <2>1 DEF vars, Policy!vars
<1> QED
  BY <1>1, <1>2, <1>3, <1>4, <1>5, <1>6, <1>7, <1>8, <1>9, <1>10, <1>11, <1>12 DEF Next, CallStep, PluginEnds

\* For every configuration, image and answer and every order of the ranges, the call does
\* what the policy allows: the kubelet tries what concerned plugins offered, in the order
\* the strategy names, after all of them were heard, no longer than each allows
\* (dynamic.go:118-305).
THEOREM CallImplementsPolicy == Spec => ImplementsPolicy
<1>1. Spec => []PolicyInv
  BY InitPolicyInv, NextPolicyInv, PTL DEF Spec
<1> QED
  BY <1>1, InitImplements, NextImplements, PTL DEF Spec, ImplementsPolicy, Policy!Spec
=============================================================================
