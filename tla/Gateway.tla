---- MODULE Gateway ----
(***************************************************************************)
(* Who is let in: core/src/auth.rs, and the two doors that ask it.  A      *)
(* native pod reads its settings once, when it boots (`run` and `auth` of  *)
(* server/src/main.rs); the Worker reads them for every request (`fetch`   *)
(* of src/src/lib.rs).  Settings change while pods go on serving.          *)
(***************************************************************************)
EXTENDS Naturals, Sequences

CONSTANTS
    Pods,
    Keys,     \* the keys a client may send
    Blank,    \* an entry, or a header, with nothing in it
    Absent,   \* a header or a setting that is not there
    FIRST,    \* the settings the history begins with
    MAX_LIST, \* bound on the entries of API_KEYS
    Down

VARIABLES
    settings, \* the environment: [list, single, complete]
    pod,      \* the keys each pod has loaded, or Down
    booted,   \* history: the settings each pod has booted with
    steady,   \* history: the keys that every environment so far has named
    given     \* history: the keys that some environment has named

gateway == <<settings, pod, booted, steady, given>>

Texts == Keys \cup {Blank}
Lists == UNION {[1 .. n -> Texts] : n \in 1 .. MAX_LIST}

\* API_KEYS (at least one entry, as a text has), API_KEY, and whether all else
\* is there: the keys of both upstream services, and the stations.
Settings == [list : Lists \cup {Absent}, single : Texts \cup {Absent}, complete : BOOLEAN]

ASSUME GatewayAssumption ==
    /\ {Blank, Absent, Down} \cap Keys = {}
    /\ MAX_LIST \in Nat \ {0}
    /\ FIRST \in Settings
----
(* core/src/auth.rs                                                        *)

\* Deviation: a blank entry stays in the list.
Parse_keeps_blank(env) ==
    IF env.list # Absent THEN env.list
    ELSE IF env.single # Absent THEN <<env.single>> ELSE <<>>

\* `ApiKeys::parse`: the keys, by their places in the list; no key at all is
\* its error.
Parse(env) ==
    LET usable == IF env.list = Absent THEN {}
                  ELSE {i \in 1 .. Len(env.list) : env.list[i] # Blank}
    IN  IF usable # {} THEN [i \in usable |-> env.list[i]]
        ELSE IF env.single \in Keys THEN <<env.single>> ELSE <<>>

Matched(keys, provided) == \E i \in DOMAIN keys : keys[i] = provided
----
(* Requests and their answers.                                             *)

Requests == [method : {"GET", "OPTIONS", "POST"}, path : {"/health", "/v1", "other"},
             header : Texts \cup {Absent}]

\* The routers of both.
Routed(r) ==
    IF r.path = "other" THEN 404 ELSE IF r.method = "POST" THEN 405 ELSE 200

\* `auth` of main.rs, with the keys of the pod.
Pod(p, r) ==
    LET provided == IF r.header = Absent THEN Blank ELSE r.header
    IN  IF r.method = "OPTIONS" THEN 204
        ELSE IF r.path # "/health" /\ ~Matched(pod[p], provided) THEN 401
        ELSE Routed(r)

\* Deviation: the Worker asks for a key before it looks at the method.
Worker_key_first(r) ==
    LET keys == Parse(settings)
    IN  IF r.path # "/health" /\ (r.header = Absent \/ ~Matched(keys, r.header)) THEN 401
        ELSE IF r.method = "OPTIONS" THEN 204
        ELSE IF ~settings.complete THEN 500
        ELSE Routed(r)

\* `fetch` of lib.rs; a setting that is missing is an error of the runtime.
Worker(r) ==
    LET keys == Parse(settings)
    IN  IF r.method = "OPTIONS" THEN 204
        ELSE IF r.path # "/health" /\ (r.header = Absent \/ ~Matched(keys, r.header)) THEN 401
        ELSE IF ~settings.complete THEN 500
        ELSE Routed(r)
----
\* The keys an environment is meant to let in: those that are listed, or the
\* legacy one if none is.
Named(env) ==
    LET listed == IF env.list = Absent THEN {}
                  ELSE {env.list[i] : i \in 1 .. Len(env.list)} \cap Keys
    IN  IF listed # {} THEN listed ELSE {env.single} \cap Keys

Loaded == UNION {[places -> Keys] : places \in SUBSET (1 .. MAX_LIST)}

GatewayTypeOK ==
    /\ settings \in Settings
    /\ pod \in [Pods -> Loaded \cup {Down}]
    /\ booted \in [Pods -> Settings \cup {Down}]
    /\ steady \subseteq Keys /\ given \subseteq Keys

GatewayInit ==
    /\ settings = FIRST
    /\ pod = [p \in Pods |-> Down]
    /\ booted = [p \in Pods |-> Down]
    /\ steady = Named(settings)
    /\ given = Named(settings)

Configure(env) ==
    /\ settings' = env
    /\ steady' = steady \cap Named(env)
    /\ given' = given \cup Named(env)
    /\ UNCHANGED <<pod, booted>>

\* `run`, if nothing is missing; otherwise the pod ends at once.
Boot(p) ==
    /\ pod[p] = Down
    /\ settings.complete /\ DOMAIN Parse(settings) # {}
    /\ pod' = [pod EXCEPT ![p] = Parse(settings)]
    /\ booted' = [booted EXCEPT ![p] = settings]
    /\ UNCHANGED <<settings, steady, given>>

Stop(p) ==
    /\ pod[p] # Down
    /\ pod' = [pod EXCEPT ![p] = Down]
    /\ booted' = [booted EXCEPT ![p] = Down]
    /\ UNCHANGED <<settings, steady, given>>

GatewayNext ==
    \/ \E env \in Settings : Configure(env)
    \/ \E p \in Pods : Boot(p) \/ Stop(p)

GatewaySpec == GatewayInit /\ [][GatewayNext]_gateway
----
Up == {p \in Pods : pod[p] # Down}

\* "One platform's key can be rotated without touching the others" (auth.rs:1-2),
\* and no server accepts the empty string (auth.rs:7-9): while settings
\* change under running pods, a key that was never taken out is refused
\* nowhere, and a key that was never given, or none at all, is let in nowhere.
RotationSafe ==
    \A r \in Requests :
        LET Answers == {Pod(p, r) : p \in Up} \cup {Worker(r)}
        IN  /\ r.header \in steady => 401 \notin Answers
            /\ r.header \notin given /\ r.path # "/health" /\ r.method # "OPTIONS" =>
                 Answers = {401}

\* The two doors are separate code for one API: a pod that has booted with the
\* present settings and the Worker answer every request alike.
SameDoor ==
    \A p \in Up : booted[p] = settings => \A r \in Requests : Pod(p, r) = Worker(r)

====
