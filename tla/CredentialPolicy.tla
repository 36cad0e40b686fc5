-------------------------- MODULE CredentialPolicy --------------------------
(***************************************************************************)
(* What the dynamic provider promises the kubelet about one image, said    *)
(* without lookups, ranges and map keys: from what the plugins answered,   *)
(* which credentials the kubelet tries, in which order, and for how long   *)
(* it may remember them. CredentialLookup implements it.                   *)
(***************************************************************************)
EXTENDS UrlGlobber

CONSTANTS Configs, Images, Answers, NoMirror, Nil, NoAuth

VARIABLES
    cfg, img,
    heard,      \* what the plugins answered, as in CredentialLookup
    outcome     \* what the kubelet can do with the response

vars == <<cfg, img, heard, outcome>>

Outcome(status, attempts, duration) ==
    [status |-> status, attempts |-> attempts, duration |-> duration]

Pending == Outcome("pending", << >>, 0)  \* the call has not returned
Refused == Outcome("refused", << >>, 0)  \* the call returned an error

---------------------------------------------------------------------------

Strategies == {"MirrorCredentialsOnly", "MirrorCredentialsFirst", "MirrorCredentialsLast"}

Only == cfg.mirror # NoMirror /\ cfg.mirror.strategy = "MirrorCredentialsOnly"

MirrorUnreadable == cfg.mirror # NoMirror /\ ~Parses(cfg.mirror.endpoint)

\* Under MirrorCredentialsOnly nobody is asked about the image's own registry.
Lookups ==
    IF MirrorUnreadable
    THEN {}
    ELSE (IF cfg.mirror = NoMirror THEN {} ELSE {"mirror"}) \cup (IF Only THEN {} ELSE {"origin"})

NameIn(lookup) ==
    IF lookup = "mirror" THEN MirrorTarget(cfg.mirror.endpoint, img) ELSE img

Concerned(lookup) ==
    {p \in DOMAIN cfg.providers :
        \E m \in cfg.providers[p].matchImages : URLsMatchStr(m, NameIn(lookup))}

HasAnswered(lookup, p) == \E h \in heard : h.lookup = lookup /\ h.provider = p

\* How long the answer h may be remembered: as it says, else as its provider is configured.
DurationOf(h) ==
    IF h.answer.duration # Nil THEN h.answer.duration
    ELSE IF cfg.providers[h.provider].defaultCacheDuration # Nil
         THEN cfg.providers[h.provider].defaultCacheDuration
         ELSE 0

Offers(lookup) ==
    UNION {{[auth |-> h.answer.auth[k], duration |-> DurationOf(h)] :
                k \in {key \in DOMAIN h.answer.auth : URLsMatchStr(key, NameIn(lookup))}} :
           h \in {g \in heard : g.lookup = lookup}}

None == [auth |-> NoAuth, duration |-> 0]

\* Any offer will do, but there must be one when somebody made one.
Choices(lookup) == IF Offers(lookup) = {} THEN {None} ELSE Offers(lookup)

\* The credentials the kubelet tries, in its order.
Attempts(m, o) ==
    IF Offers("mirror") = {}
    THEN IF Only THEN << >> ELSE <<o.auth>>
    ELSE CASE cfg.mirror.strategy = "MirrorCredentialsOnly"  -> <<m.auth>>
           [] cfg.mirror.strategy = "MirrorCredentialsFirst" -> <<m.auth, o.auth>>
           [] cfg.mirror.strategy = "MirrorCredentialsLast"  -> <<o.auth, m.auth>>

\* No credential is remembered longer than the answer it comes from allows.
Shortest(m, o) ==
    IF Offers("origin") = {} THEN m.duration
    ELSE IF Offers("mirror") = {} THEN o.duration
    ELSE IF m.duration <= o.duration THEN m.duration ELSE o.duration

---------------------------------------------------------------------------

Init ==
    /\ cfg \in Configs
    /\ img \in Images
    /\ heard = {}
    /\ outcome = Pending

Hear(lookup, p, a) ==
    /\ outcome = Pending
    /\ ~HasAnswered(lookup, p)
    /\ heard' = heard \cup {[lookup |-> lookup, provider |-> p, answer |-> a]}
    /\ UNCHANGED <<cfg, img, outcome>>

Refuse ==
    /\ outcome = Pending
    /\ outcome' = Refused
    /\ UNCHANGED <<cfg, img, heard>>

\* Everybody concerned has answered, and the mirror's place among the attempts is known
\* if it has one.
Grant(m, o) ==
    /\ outcome = Pending
    /\ ~MirrorUnreadable
    /\ Offers("mirror") # {} => cfg.mirror.strategy \in Strategies
    /\ \A lookup \in Lookups : \A p \in Concerned(lookup) : HasAnswered(lookup, p)
    /\ outcome' = Outcome("granted", Attempts(m, o), Shortest(m, o))
    /\ UNCHANGED <<cfg, img, heard>>

Next ==
    \/ \E lookup \in Lookups : \E p \in Concerned(lookup), a \in Answers : Hear(lookup, p, a)
    \/ Refuse
    \/ \E m \in Choices("mirror"), o \in Choices("origin") : Grant(m, o)

Spec == Init /\ [][Next]_vars
===========================================================================
