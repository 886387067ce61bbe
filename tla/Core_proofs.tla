---- MODULE Core_proofs ----
(***************************************************************************)
(* What holds of the parts that share no state, each for every behaviour   *)
(* of its own and every value of its constants: who is let in (Gateway),   *)
(* whose answer they get (Trains), which hosts count as down (ProbeHost),  *)
(* and what a seed job leaves behind in D1 (Sync); and of all parts        *)
(* together, with what the other proof modules show.                       *)
(***************************************************************************)
EXTENDS MCCore, Blocks_proofs, Boards_proofs, Formation_proofs

----
(* Gateway.                                                                *)

\* A pod that is up holds the keys of the settings it has booted with, and
\* those it shares with every environment there was, and no others.
Keyed(env) == steady \subseteq Named(env) /\ Named(env) \subseteq given

GatewayInv ==
    /\ GatewayTypeOK
    /\ Keyed(settings)
    /\ \A p \in Pods : pod[p] # Down =>
         /\ booted[p] \in Settings /\ booted[p].complete
         /\ pod[p] = Parse(booted[p])
         /\ Keyed(booted[p])

\* What `ApiKeys::parse` makes of an environment (core/src/auth.rs:10-27) matches the keys that
\* environment is meant to let in, and nothing else.
LEMMA KeysParsed ==
    ASSUME NEW env \in Settings
    PROVE  /\ Parse(env) \in Loaded
           /\ Named(env) \subseteq Keys
           /\ \A x : Matched(Parse(env), x) <=> x \in Named(env)
  <1> DEFINE usable == IF env.list = Absent THEN {}
                       ELSE {i \in 1 .. Len(env.list) : env.list[i] # Blank}
             named  == IF env.list = Absent THEN {}
                       ELSE {env.list[i] : i \in 1 .. Len(env.list)} \cap Keys
  <1>1. /\ Parse(env) = IF usable # {} THEN [i \in usable |-> env.list[i]]
                        ELSE IF env.single \in Keys THEN <<env.single>> ELSE <<>>
        /\ Named(env) = IF named # {} THEN named ELSE {env.single} \cap Keys
    BY DEF Parse, Named
  <1>2. /\ usable \subseteq 1 .. MAX_LIST
        /\ \A i \in usable : env.list[i] \in Keys
        /\ named = {env.list[i] : i \in usable}
    <2>1. CASE env.list = Absent
      BY <2>1
    <2>2. CASE env.list # Absent
      <3>1. PICK n \in 1 .. MAX_LIST : env.list \in [1 .. n -> Texts]
        BY <2>2 DEF Settings, Lists
      <3>2. MAX_LIST \in Nat /\ Len(env.list) = n /\ 1 .. n \subseteq 1 .. MAX_LIST
        BY <3>1, GatewayAssumption
      <3>3. \A i \in 1 .. n : env.list[i] \in Texts
        BY <3>1
      <3>4. \A x \in Texts : x # Blank <=> x \in Keys
        BY GatewayAssumption DEF Texts
      <3>5. usable = {i \in 1 .. n : env.list[i] \in Keys}
            /\ named = {env.list[i] : i \in 1 .. n} \cap Keys
        BY <2>2, <3>2, <3>3, <3>4
      <3> QED
        BY <3>2, <3>5
    <2> QED
      BY <2>1, <2>2
  <1> HIDE DEF usable, named
  <1>3. CASE usable # {}
    <2>1. Parse(env) = [i \in usable |-> env.list[i]] /\ Named(env) = {env.list[i] : i \in usable}
      BY <1>1, <1>2, <1>3
    <2>2. Parse(env) \in [usable -> Keys] /\ Named(env) \subseteq Keys
      BY <1>2, <2>1
    <2>3. Parse(env) \in Loaded
      BY <1>2, <2>2 DEF Loaded
    <2> QED
      BY <2>1, <2>2, <2>3 DEF Matched
  <1>4. CASE usable = {} /\ env.single \in Keys
    <2>1. Parse(env) = <<env.single>> /\ Named(env) = {env.single}
      BY <1>1, <1>2, <1>4
    <2>2. Parse(env) \in [{1} -> Keys] /\ Parse(env)[1] = env.single
      BY <1>4, <2>1
    <2>3. {1} \in SUBSET (1 .. MAX_LIST)
      BY GatewayAssumption
    <2>4. Parse(env) \in Loaded
      BY <2>2, <2>3 DEF Loaded
    <2> QED
      BY <1>4, <2>1, <2>2, <2>4 DEF Matched
  <1>5. CASE usable = {} /\ env.single \notin Keys
    <2>1. Parse(env) = <<>> /\ Named(env) = {}
      BY <1>1, <1>2, <1>5
    <2>2. Parse(env) \in [{} -> Keys]
      BY <2>1
    <2>3. Parse(env) \in Loaded
      BY <2>2 DEF Loaded
    <2> QED
      BY <2>1, <2>2, <2>3 DEF Matched
  <1> QED
    BY <1>3, <1>4, <1>5

\* No pod is up at first, and the history begins with the first settings.
LEMMA GatewayStarts == GatewayInit => GatewayInv
  <1> SUFFICES ASSUME GatewayInit
               PROVE  GatewayInv
    OBVIOUS
  <1>1. settings \in Settings /\ steady = Named(settings) /\ given = Named(settings)
    BY GatewayAssumption DEF GatewayInit
  <1> QED
    BY <1>1, KeysParsed DEF GatewayInit, GatewayInv, GatewayTypeOK, Keyed

\* Settings change under running pods, pods boot and stop.
LEMMA GatewayGoesOn == GatewayInv /\ [GatewayNext]_gateway => GatewayInv'
  <1> SUFFICES ASSUME GatewayInv, [GatewayNext]_gateway
               PROVE  GatewayInv'
    OBVIOUS
  <1> USE DEF GatewayInv, GatewayTypeOK, Keyed
  <1>1. ASSUME NEW env \in Settings, Configure(env)
        PROVE  GatewayInv'
    <2>1. Named(env) \subseteq Keys
      BY KeysParsed
    <2> QED
      BY <1>1, <2>1 DEF Configure
  <1>2. ASSUME NEW p \in Pods, Boot(p)
        PROVE  GatewayInv'
    <2>1. Parse(settings) \in Loaded
      BY KeysParsed
    <2> QED
      BY <1>2, <2>1 DEF Boot
  <1>3. ASSUME NEW p \in Pods, Stop(p)
        PROVE  GatewayInv'
    BY <1>3 DEF Stop
  <1>4. CASE UNCHANGED gateway
    BY <1>4 DEF gateway
  <1> QED
    BY <1>1, <1>2, <1>3, <1>4 DEF GatewayNext

\* The invariant of every behaviour of the gateway.
LEMMA GatewayHolds == GatewaySpec => []GatewayInv
  BY GatewayStarts, GatewayGoesOn, PTL DEF GatewaySpec

\* While settings change under running pods (main.rs:185-208 reads them once), a key that was
\* never taken out is refused by no pod and not by the Worker; a key that was never given, or
\* none at all, is let in nowhere (auth.rs:1-9).
THEOREM KeysRotate == GatewaySpec => []RotationSafe
  <1>1. GatewayInv => RotationSafe
    <2> SUFFICES ASSUME GatewayInv, NEW r \in Requests
                 PROVE  /\ r.header \in steady => 401 \notin {Pod(p, r) : p \in Up} \cup {Worker(r)}
                        /\ r.header \notin given /\ r.path # "/health" /\ r.method # "OPTIONS"
                             => {Pod(p, r) : p \in Up} \cup {Worker(r)} = {401}
      BY DEF RotationSafe
    <2>1. Blank \notin Keys /\ Absent \notin Keys /\ Routed(r) \in {200, 404, 405}
      BY GatewayAssumption DEF Routed
    <2>2. given \subseteq Keys /\ steady \subseteq Keys
      BY DEF GatewayInv, GatewayTypeOK
    <2>3. \A x : Matched(Parse(settings), x) <=> x \in Named(settings)
      BY KeysParsed DEF GatewayInv, GatewayTypeOK
    <2>4. ASSUME NEW p \in Up
          PROVE  \A x : Matched(pod[p], x) <=> x \in Named(booted[p])
      BY KeysParsed DEF GatewayInv, Up
    <2>5. ASSUME r.header \in steady
          PROVE  /\ Worker(r) # 401
                 /\ \A p \in Up : Pod(p, r) # 401
      <3>1. r.header # Absent /\ r.header \in Named(settings)
        BY <2>1, <2>2, <2>5 DEF GatewayInv, Keyed
      <3>2. \A p \in Up : r.header \in Named(booted[p])
        BY <2>5 DEF GatewayInv, Keyed, Up
      <3>3. Worker(r) # 401
        BY <2>1, <2>3, <3>1 DEF Worker
      <3>4. \A p \in Up : Pod(p, r) # 401
        BY <2>1, <2>4, <3>1, <3>2 DEF Pod
      <3> QED
        BY <3>3, <3>4
    <2>6. ASSUME r.header \notin given, r.path # "/health", r.method # "OPTIONS"
          PROVE  /\ Worker(r) = 401
                 /\ \A p \in Up : Pod(p, r) = 401
      <3>1. r.header \notin Named(settings)
        BY <2>6 DEF GatewayInv, Keyed
      <3>2. \A p \in Up : r.header \notin Named(booted[p]) /\ Blank \notin Named(booted[p])
        <4>1. \A p \in Up : Named(booted[p]) \subseteq given
          BY DEF GatewayInv, Keyed, Up
        <4> QED
          BY <2>1, <2>2, <2>6, <4>1
      <3>3. Worker(r) = 401
        BY <2>3, <2>6, <3>1 DEF Worker
      <3>4. \A p \in Up : Pod(p, r) = 401
        BY <2>4, <2>6, <3>2 DEF Pod
      <3> QED
        BY <3>3, <3>4
    <2>7. r.header \in steady => 401 \notin {Pod(p, r) : p \in Up} \cup {Worker(r)}
      BY <2>5
    <2>8. r.header \notin given /\ r.path # "/health" /\ r.method # "OPTIONS"
            => {Pod(p, r) : p \in Up} \cup {Worker(r)} = {401}
      BY <2>6
    <2> QED
      BY <2>7, <2>8
  <1> QED
    BY <1>1, GatewayHolds, PTL

\* A pod that has booted with the present settings (server/src/main.rs:41-81) and the Worker
\* (src/lib.rs:85-188) answer every request alike.
THEOREM DoorsAgree == GatewaySpec => []SameDoor
  <1>1. GatewayInv => SameDoor
    <2> SUFFICES ASSUME GatewayInv, NEW p \in Up, booted[p] = settings, NEW r \in Requests
                 PROVE  Pod(p, r) = Worker(r)
      BY DEF SameDoor
    <2>1. pod[p] = Parse(settings) /\ settings.complete /\ settings \in Settings
      BY DEF GatewayInv, GatewayTypeOK, Up
    <2>2. Blank \notin Keys /\ Named(settings) \subseteq Keys
          /\ \A x : Matched(Parse(settings), x) <=> x \in Named(settings)
      BY <2>1, GatewayAssumption, KeysParsed
    <2>3. ~Matched(Parse(settings), Blank)
      BY <2>2
    <2> HIDE DEF Routed
    <2> QED
      BY <2>1, <2>3 DEF Pod, Worker
  <1> QED
    BY <1>1, GatewayHolds, PTL

----
(* Trains.                                                                 *)

\* A text is one text, a colon and another text.
Split(text, left, right) ==
    /\ text \in Seq(Pieces)
    /\ Len(text) = Len(left) + 1 + Len(right)
    /\ \A i \in 1 .. Len(left) : text[i] = left[i]
    /\ text[Len(left) + 1] = Colon
    /\ \A i \in 1 .. Len(right) : text[Len(left) + 1 + i] = right[i]

\* A text is four texts with colons between them, at such places.
Laid(text, a, b, c, d, m1, m2, m3) ==
    /\ m1 = Len(a) + 1 /\ m2 = m1 + Len(b) + 1 /\ m3 = m2 + Len(c) + 1
    /\ text \in Seq(Pieces) /\ Len(text) = m3 + Len(d)
    /\ text[m1] = Colon /\ text[m2] = Colon /\ text[m3] = Colon
    /\ \A i \in 1 .. Len(a) : text[i] = a[i]
    /\ \A i \in 1 .. Len(b) : text[m1 + i] = b[i]
    /\ \A i \in 1 .. Len(c) : text[m2 + i] = c[i]
    /\ \A i \in 1 .. Len(d) : text[m3 + i] = d[i]

\* A text has colons at such places only.
Colons(text, m1, m2, m3) == \A i \in 1 .. Len(text) : text[i] = Colon => i \in {m1, m2, m3}

\* Four texts without a colon.
AllPlain(a, b, c, d) == Plain(a) /\ Plain(b) /\ Plain(c) /\ Plain(d)

\* What a colon between two texts makes of them.
LEMMA DelimitedTwo ==
    ASSUME NEW left \in Seq(Pieces), NEW right \in Seq(Pieces)
    PROVE  Split(left \o <<Colon>> \o right, left, right)
  <1>1. PICK mark \in Seq(Pieces) : mark = <<Colon>> /\ Len(mark) = 1 /\ mark[1] = Colon
    <2>1. Colon \in Pieces
      BY TrainsAssumption
    <2>2. <<Colon>> \in Seq(Pieces) /\ Len(<<Colon>>) = 1 /\ <<Colon>>[1] = Colon
      BY <2>1
    <2> QED
      BY <2>2
  <1>2. Len(left) \in Nat /\ Len(right) \in Nat
    BY LenProperties
  <1>3. /\ left \o mark \in Seq(Pieces) /\ Len(left \o mark) = Len(left) + Len(mark)
        /\ \A i \in 1 .. Len(left) + Len(mark) :
             (left \o mark)[i] = IF i <= Len(left) THEN left[i] ELSE mark[i - Len(left)]
    BY ConcatProperties
  <1>4. PICK first \in Seq(Pieces) : first = left \o mark
    BY <1>3
  <1>5. /\ first \o right \in Seq(Pieces) /\ Len(first \o right) = Len(first) + Len(right)
        /\ \A i \in 1 .. Len(first) + Len(right) :
             (first \o right)[i] = IF i <= Len(first) THEN first[i] ELSE right[i - Len(first)]
    BY ConcatProperties
  <1>6. PICK both : both = first \o right
    OBVIOUS
  <1>7. Len(first) = Len(left) + 1
    BY <1>1, <1>3, <1>4
  <1>8. \A i \in 1 .. Len(left) : first[i] = left[i]
    BY <1>1, <1>2, <1>3, <1>4
  <1>9. first[Len(left) + 1] = Colon
    <2>1. Len(left) + 1 \in 1 .. Len(left) + Len(mark) /\ ~(Len(left) + 1 <= Len(left))
          /\ Len(left) + 1 - Len(left) = 1
      BY <1>1, <1>2
    <2>2. first[Len(left) + 1] = mark[Len(left) + 1 - Len(left)]
      BY <1>3, <1>4, <2>1
    <2> QED
      BY <1>1, <2>1, <2>2
  <1>10. \A i \in 1 .. Len(first) + Len(right) :
           both[i] = IF i <= Len(first) THEN first[i] ELSE right[i - Len(first)]
    BY <1>5, <1>6
  <1>11. \A i \in 1 .. Len(left) + 1 : both[i] = first[i]
    BY <1>2, <1>7, <1>10
  <1>12. \A i \in 1 .. Len(right) : both[Len(left) + 1 + i] = right[i]
    <2> SUFFICES ASSUME NEW i \in 1 .. Len(right)
                 PROVE  both[Len(left) + 1 + i] = right[i]
      OBVIOUS
    <2>1. /\ Len(left) + 1 + i \in 1 .. Len(first) + Len(right)
          /\ ~(Len(left) + 1 + i <= Len(first)) /\ Len(left) + 1 + i - Len(first) = i
      BY <1>2, <1>7
    <2>2. both[Len(left) + 1 + i] = right[Len(left) + 1 + i - Len(first)]
      BY <1>10, <2>1
    <2> QED
      BY <2>1, <2>2
  <1>13. /\ both \in Seq(Pieces) /\ Len(both) = Len(left) + 1 + Len(right)
         /\ both[Len(left) + 1] = Colon
         /\ \A i \in 1 .. Len(left) : both[i] = left[i]
    BY <1>2, <1>5, <1>6, <1>7, <1>8, <1>9, <1>11
  <1>14. both = left \o <<Colon>> \o right
    BY <1>1, <1>4, <1>6
  <1> QED
    BY <1>12, <1>13, <1>14 DEF Split

\* What a cache key is at each of its places (server/src/routes/formation.rs:69).
LEMMA DelimitedAt ==
    ASSUME NEW a \in Seq(Pieces), NEW b \in Seq(Pieces), NEW c \in Seq(Pieces), NEW d \in Seq(Pieces)
    PROVE  \E m1, m2, m3 \in Nat : Laid(Delimited(a, b, c, d), a, b, c, d, m1, m2, m3)
  <1>1. Len(a) \in Nat /\ Len(b) \in Nat /\ Len(c) \in Nat /\ Len(d) \in Nat
    BY LenProperties
  <1>2. PICK m1, m2, m3 \in Nat : m1 = Len(a) + 1 /\ m2 = m1 + Len(b) + 1 /\ m3 = m2 + Len(c) + 1
    BY <1>1
  <1>3. PICK two \in Seq(Pieces) : two = a \o <<Colon>> \o b /\ Split(two, a, b)
    <2>1. Split(a \o <<Colon>> \o b, a, b)
      BY DelimitedTwo
    <2> QED
      BY <2>1 DEF Split
  <1>4. PICK three \in Seq(Pieces) : three = two \o <<Colon>> \o c /\ Split(three, two, c)
    <2>1. Split(two \o <<Colon>> \o c, two, c)
      BY DelimitedTwo
    <2> QED
      BY <2>1 DEF Split
  <1>5. PICK four \in Seq(Pieces) : four = three \o <<Colon>> \o d /\ Split(four, three, d)
    <2>1. Split(three \o <<Colon>> \o d, three, d)
      BY DelimitedTwo
    <2> QED
      BY <2>1 DEF Split
  <1>6. four = Delimited(a, b, c, d)
    BY <1>3, <1>4, <1>5 DEF Delimited
  <1>7. Len(two) + 1 = m2 /\ Len(three) + 1 = m3 /\ Len(four) = m3 + Len(d)
    BY <1>1, <1>2, <1>3, <1>4, <1>5 DEF Split
  <1>8. /\ \A i \in 1 .. Len(three) : four[i] = three[i]
        /\ \A i \in 1 .. Len(two) : i \in 1 .. Len(three) /\ three[i] = two[i]
    <2>1. \A i \in 1 .. Len(two) : i \in 1 .. Len(three)
      BY <1>1, <1>2, <1>7
    <2> QED
      BY <1>4, <1>5, <2>1 DEF Split
  <1>9. four[m1] = Colon /\ \A i \in 1 .. Len(a) : four[i] = a[i]
    <2>1. m1 \in 1 .. Len(two) /\ \A i \in 1 .. Len(a) : i \in 1 .. Len(two)
      BY <1>1, <1>2, <1>7
    <2>2. two[m1] = Colon /\ \A i \in 1 .. Len(a) : two[i] = a[i]
      BY <1>2, <1>3 DEF Split
    <2> QED
      BY <1>8, <2>1, <2>2
  <1>10. \A i \in 1 .. Len(b) : four[m1 + i] = b[i]
    <2>1. \A i \in 1 .. Len(b) : m1 + i \in 1 .. Len(two)
      BY <1>1, <1>2, <1>7
    <2>2. \A i \in 1 .. Len(b) : two[m1 + i] = b[i]
      BY <1>2, <1>3 DEF Split
    <2> QED
      BY <1>8, <2>1, <2>2
  <1>11. four[m2] = Colon /\ \A i \in 1 .. Len(c) : four[m2 + i] = c[i]
    <2>1. m2 \in 1 .. Len(three) /\ \A i \in 1 .. Len(c) : m2 + i \in 1 .. Len(three)
      BY <1>1, <1>2, <1>7
    <2>2. three[m2] = Colon /\ \A i \in 1 .. Len(c) : three[m2 + i] = c[i]
      BY <1>4, <1>7 DEF Split
    <2> QED
      BY <1>8, <2>1, <2>2
  <1>12. four[m3] = Colon /\ \A i \in 1 .. Len(d) : four[m3 + i] = d[i]
    BY <1>5, <1>7 DEF Split
  <1>13. Laid(four, a, b, c, d, m1, m2, m3)
    BY <1>2, <1>7, <1>9, <1>10, <1>11, <1>12 DEF Laid
  <1> QED
    BY <1>6, <1>13

\* Where the colons of a key are whose parts have none.
LEMMA ColonsAt ==
    ASSUME NEW a \in Seq(Pieces), NEW b \in Seq(Pieces), NEW c \in Seq(Pieces), NEW d \in Seq(Pieces),
           AllPlain(a, b, c, d)
    PROVE  \E m1, m2, m3 \in Nat :
             /\ Laid(Delimited(a, b, c, d), a, b, c, d, m1, m2, m3)
             /\ Colons(Delimited(a, b, c, d), m1, m2, m3)
  <1>1. PICK key : key = Delimited(a, b, c, d)
    OBVIOUS
  <1>2. PICK m1, m2, m3 \in Nat : Laid(key, a, b, c, d, m1, m2, m3)
    BY <1>1, DelimitedAt
  <1>3. Len(a) \in Nat /\ Len(b) \in Nat /\ Len(c) \in Nat /\ Len(d) \in Nat
    BY LenProperties
  <1>4. /\ m1 \in Nat /\ m2 \in Nat /\ m3 \in Nat
        /\ m1 = Len(a) + 1 /\ m2 = m1 + Len(b) + 1 /\ m3 = m2 + Len(c) + 1
        /\ Len(key) = m3 + Len(d)
    BY <1>2 DEF Laid
  <1>5. ASSUME NEW i \in 1 .. Len(key), key[i] = Colon
        PROVE  i \in {m1, m2, m3}
    <2>1. /\ i \notin 1 .. Len(a)
          /\ \A j \in 1 .. Len(b) : i # m1 + j
          /\ \A j \in 1 .. Len(c) : i # m2 + j
          /\ \A j \in 1 .. Len(d) : i # m3 + j
      <3>1. /\ \A j \in 1 .. Len(a) : key[j] = a[j] /\ a[j] # Colon
            /\ \A j \in 1 .. Len(b) : key[m1 + j] = b[j] /\ b[j] # Colon
            /\ \A j \in 1 .. Len(c) : key[m2 + j] = c[j] /\ c[j] # Colon
            /\ \A j \in 1 .. Len(d) : key[m3 + j] = d[j] /\ d[j] # Colon
        BY <1>2 DEF Laid, Plain, AllPlain
      <3> QED
        BY <1>5, <3>1
    <2>2. PICK la, lb, lc, ld \in Nat : la = Len(a) /\ lb = Len(b) /\ lc = Len(c) /\ ld = Len(d)
      BY <1>3
    <2>3. /\ m1 = la + 1 /\ m2 = m1 + lb + 1 /\ m3 = m2 + lc + 1
          /\ i \in Nat /\ 1 <= i /\ i <= m3 + ld
      BY <1>5, <1>4, <2>2
    <2>4. ~ i <= la
      BY <2>1, <2>2, <2>3
    <2>5. ~ (m1 < i /\ i < m2)
      <3>1. m1 < i /\ i < m2 => i - m1 \in 1 .. lb /\ i = m1 + (i - m1)
        BY <2>3
      <3> QED
        BY <2>1, <2>2, <3>1
    <2>6. ~ (m2 < i /\ i < m3)
      <3>1. m2 < i /\ i < m3 => i - m2 \in 1 .. lc /\ i = m2 + (i - m2)
        BY <2>3
      <3> QED
        BY <2>1, <2>2, <3>1
    <2>7. ~ (m3 < i)
      <3>1. m3 < i => i - m3 \in 1 .. ld /\ i = m3 + (i - m3)
        BY <2>3
      <3> QED
        BY <2>1, <2>2, <3>1
    <2> QED
      BY <2>3, <2>4, <2>5, <2>6, <2>7
  <1> QED
    BY <1>1, <1>2, <1>5 DEF Colons

\* A key whose parts have no colon is the key of no other parts, whatever colons those have:
\* it has three, and any key has three at least.
LEMMA PartsApart ==
    ASSUME NEW a \in Seq(Pieces), NEW b \in Seq(Pieces), NEW c \in Seq(Pieces), NEW d \in Seq(Pieces),
           AllPlain(a, b, c, d)
    PROVE  \A e, f, g, h \in Seq(Pieces) :
             Delimited(a, b, c, d) = Delimited(e, f, g, h) => a = e /\ b = f /\ c = g /\ d = h
  <1> SUFFICES ASSUME NEW e \in Seq(Pieces), NEW f \in Seq(Pieces), NEW g \in Seq(Pieces),
                      NEW h \in Seq(Pieces), Delimited(a, b, c, d) = Delimited(e, f, g, h)
               PROVE  a = e /\ b = f /\ c = g /\ d = h
    OBVIOUS
  <1>1. PICK key : key = Delimited(a, b, c, d) /\ key = Delimited(e, f, g, h)
    OBVIOUS
  <1>2. PICK m1, m2, m3 \in Nat :
          /\ Laid(key, a, b, c, d, m1, m2, m3)
          /\ Colons(key, m1, m2, m3)
    <2>1. \E m1, m2, m3 \in Nat :
             /\ Laid(Delimited(a, b, c, d), a, b, c, d, m1, m2, m3)
             /\ Colons(Delimited(a, b, c, d), m1, m2, m3)
      BY ColonsAt
    <2> QED
      BY <1>1, <2>1
  <1>3. PICK n1, n2, n3 \in Nat : Laid(key, e, f, g, h, n1, n2, n3)
    <2>1. \E n1, n2, n3 \in Nat : Laid(Delimited(e, f, g, h), e, f, g, h, n1, n2, n3)
      BY DelimitedAt
    <2> QED
      BY <1>1, <2>1
  <1>4. PICK la, lb, lc, ld, le, lf, lg, lh \in Nat :
          /\ la = Len(a) /\ lb = Len(b) /\ lc = Len(c) /\ ld = Len(d)
          /\ le = Len(e) /\ lf = Len(f) /\ lg = Len(g) /\ lh = Len(h)
    BY LenProperties
  <1>5. PICK end \in Nat : end = Len(key)
    BY <1>2, LenProperties DEF Laid
  <1>6. /\ m1 = la + 1 /\ m2 = m1 + lb + 1 /\ m3 = m2 + lc + 1 /\ end = m3 + ld
        /\ n1 = le + 1 /\ n2 = n1 + lf + 1 /\ n3 = n2 + lg + 1 /\ end = n3 + lh
    BY <1>2, <1>3, <1>4, <1>5 DEF Laid
  <1>7. n1 \in {m1, m2, m3} /\ n2 \in {m1, m2, m3} /\ n3 \in {m1, m2, m3}
    <2>1. n1 \in 1 .. end /\ n2 \in 1 .. end /\ n3 \in 1 .. end
      BY <1>6
    <2> QED
      BY <1>2, <1>3, <1>5, <2>1 DEF Laid, Colons
  <1>8. n1 = m1 /\ n2 = m2 /\ n3 = m3
    BY <1>6, <1>7
  <1>9. Len(a) = Len(e) /\ Len(b) = Len(f) /\ Len(c) = Len(g) /\ Len(d) = Len(h)
    <2>1. la = le
      BY <1>6, <1>8
    <2>2. lb = lf
      BY <1>6, <1>8
    <2>3. lc = lg
      BY <1>6, <1>8
    <2>4. ld = lh
      BY <1>6, <1>8
    <2> QED
      BY <1>4, <2>1, <2>2, <2>3, <2>4
  <1>10. a = e
    <2>1. \A i \in 1 .. Len(a) : a[i] = e[i]
      BY <1>2, <1>3, <1>9 DEF Laid
    <2> QED
      BY <1>9, <2>1, SeqEqual
  <1>11. b = f
    <2>1. \A i \in 1 .. Len(b) : b[i] = f[i]
      BY <1>2, <1>3, <1>8, <1>9 DEF Laid
    <2> QED
      BY <1>9, <2>1, SeqEqual
  <1>12. c = g
    <2>1. \A i \in 1 .. Len(c) : c[i] = g[i]
      BY <1>2, <1>3, <1>8, <1>9 DEF Laid
    <2> QED
      BY <1>9, <2>1, SeqEqual
  <1>13. d = h
    <2>1. \A i \in 1 .. Len(d) : d[i] = h[i]
      BY <1>2, <1>3, <1>8, <1>9 DEF Laid
    <2> QED
      BY <1>9, <2>1, SeqEqual
  <1> QED
    BY <1>10, <1>11, <1>12, <1>13

\* A stop text asks for the stop of entry e, of trains with such calls.
Fits(stop, e, lists) ==
    /\ lists[e.trip] # <<>>
    /\ e.stop = IF stop = All THEN Head(lists[e.trip]) ELSE StopOf[stop]

\* Entry e is what question q asks for.
Right(q, e, lists) == Asks(q) /\ e.trip = TripOf(q) /\ Fits(StopKey(q), e, lists)

\* Key k is that of entry e, and without a colon in any of its parts.
Owns(k, e, lists) ==
    \E stop \in StopTexts :
        Plain(stop) /\ k = Delimited(e.trip[1], e.trip[2], e.trip[3], stop) /\ Fits(stop, e, lists)

TrainsInv ==
    /\ TrainsTypeOK
    /\ \A k \in DOMAIN store : Owns(k, store[k].entry, calls)
    /\ reply # <<>> => Right(reply.question, reply.entry, calls)

\* A question that is not refused has a key.
LEMMA QuestionTyped ==
    ASSUME NEW q \in Questions, Asks(q)
    PROVE  /\ Evu(q) \in Seq(Pieces) /\ q.date \in Seq(Pieces) /\ q.train \in Seq(Pieces)
           /\ StopKey(q) \in StopTexts /\ StopKey(q) \in Seq(Pieces)
           /\ KeyOf(q) = Delimited(Evu(q), q.date, q.train, StopKey(q))
           /\ KeyOf(q) \in Seq(Pieces)
  <1>1. /\ q.train \in TrainTexts \cup {Missing} /\ q.date \in DateTexts \cup {Missing}
        /\ q.stop \in StopTexts \cup {Missing} /\ q.evu \in EvuTexts \cup {Missing}
        /\ q.operatorRef \in DOMAIN EvuOf \cup {Missing}
    BY DEF Questions
  <1>2. \A code \in DOMAIN EvuOf : EvuOf[code] \in EvuTexts \cup {Missing}
    BY TrainsAssumption
  <1>3. Evu(q) \in EvuTexts /\ q.date \in DateTexts /\ q.train \in TrainTexts
    BY <1>1, <1>2, TrainsAssumption DEF Evu, Asks
  <1>4. StopKey(q) \in StopTexts
    BY <1>1, TrainsAssumption DEF StopKey
  <1>5. /\ Evu(q) \in Seq(Pieces) /\ q.date \in Seq(Pieces) /\ q.train \in Seq(Pieces)
        /\ StopKey(q) \in Seq(Pieces)
    BY <1>3, <1>4, TrainsAssumption
  <1>6. KeyOf(q) = Delimited(Evu(q), q.date, q.train, StopKey(q))
    BY DEF KeyOf
  <1>7. KeyOf(q) \in Seq(Pieces)
    <2>1. \E m1, m2, m3 \in Nat :
            Laid(Delimited(Evu(q), q.date, q.train, StopKey(q)), Evu(q), q.date, q.train, StopKey(q), m1, m2, m3)
      BY <1>5, DelimitedAt
    <2> QED
      BY <1>6, <2>1 DEF Laid
  <1> QED
    BY <1>4, <1>5, <1>6, <1>7

\* The train of an entry is written without a colon.
LEMMA TripTyped ==
    ASSUME NEW trip \in Trips
    PROVE  /\ trip[1] \in Seq(Pieces) /\ trip[2] \in Seq(Pieces) /\ trip[3] \in Seq(Pieces)
           /\ Plain(trip[1]) /\ Plain(trip[2]) /\ Plain(trip[3])
           /\ trip = <<trip[1], trip[2], trip[3]>>
  <1>1. trip[1] \in Evus /\ trip[2] \in Dates /\ trip[3] \in Numbers /\ trip = <<trip[1], trip[2], trip[3]>>
    BY DEF Trips
  <1> QED
    BY <1>1, TrainsAssumption

\* Whoever finds an entry at the key of a question finds what the question asks for, whatever
\* colons are in it.
LEMMA StoredRight ==
    ASSUME NEW q \in Questions, Asks(q), NEW e \in Entries, NEW lists, Owns(KeyOf(q), e, lists)
    PROVE  Right(q, e, lists)
  <1>1. PICK stop \in StopTexts :
          /\ Plain(stop) /\ KeyOf(q) = Delimited(e.trip[1], e.trip[2], e.trip[3], stop)
          /\ Fits(stop, e, lists)
    BY DEF Owns
  <1>2. e.trip \in Trips /\ stop \in Seq(Pieces)
    BY TrainsAssumption DEF Entries
  <1>3. PICK trip \in Trips : trip = e.trip
    BY <1>2
  <1>4. /\ trip[1] \in Seq(Pieces) /\ trip[2] \in Seq(Pieces) /\ trip[3] \in Seq(Pieces)
        /\ Plain(trip[1]) /\ Plain(trip[2]) /\ Plain(trip[3])
        /\ trip = <<trip[1], trip[2], trip[3]>>
    BY TripTyped
  <1>5. /\ Evu(q) \in Seq(Pieces) /\ q.date \in Seq(Pieces) /\ q.train \in Seq(Pieces)
        /\ StopKey(q) \in Seq(Pieces)
        /\ KeyOf(q) = Delimited(Evu(q), q.date, q.train, StopKey(q))
    BY QuestionTyped
  <1>6. Delimited(trip[1], trip[2], trip[3], stop) = Delimited(Evu(q), q.date, q.train, StopKey(q))
    BY <1>1, <1>3, <1>5
  <1>7. trip[1] = Evu(q) /\ trip[2] = q.date /\ trip[3] = q.train /\ stop = StopKey(q)
    <2>1. PICK a, b, c, d, f, g, h, i \in Seq(Pieces) :
            /\ a = trip[1] /\ b = trip[2] /\ c = trip[3] /\ d = stop
            /\ f = Evu(q) /\ g = q.date /\ h = q.train /\ i = StopKey(q)
      BY <1>2, <1>4, <1>5
    <2>2. AllPlain(a, b, c, d) /\ Delimited(a, b, c, d) = Delimited(f, g, h, i)
      BY <1>1, <1>4, <1>6, <2>1 DEF AllPlain
    <2>3. a = f /\ b = g /\ c = h /\ d = i
      <3>1. \A v, w, x, y \in Seq(Pieces) :
              Delimited(a, b, c, d) = Delimited(v, w, x, y) => a = v /\ b = w /\ c = x /\ d = y
        BY <2>2, PartsApart
      <3> QED
        BY <2>2, <3>1
    <2> QED
      BY <2>1, <2>3
  <1>8. e.trip = TripOf(q)
    BY <1>3, <1>4, <1>7 DEF TripOf
  <1> QED
    BY <1>1, <1>7, <1>8 DEF Right

\* What upstream says of the stop a question names, or of the first one, is what the question
\* asks for, and has a key without colons in its parts (`parse_formation_response` of
\* core/src/formation.rs).
LEMMA UpstreamRight ==
    ASSUME TrainsTypeOK, NEW q \in Questions, Asks(q), TripOf(q) \in Trips, NEW stop \in StopsFor(q)
    PROVE  /\ [trip |-> TripOf(q), stop |-> stop] \in Entries
           /\ Right(q, [trip |-> TripOf(q), stop |-> stop], calls)
           /\ Owns(KeyOf(q), [trip |-> TripOf(q), stop |-> stop], calls)
  <1>1. PICK stops \in Seq(Uics) : stops = calls[TripOf(q)]
    BY DEF TrainsTypeOK
  <1>2. /\ StopKey(q) \in StopTexts
        /\ KeyOf(q) = Delimited(Evu(q), q.date, q.train, StopKey(q))
    BY QuestionTyped
  <1>3. PICK e : e = [trip |-> TripOf(q), stop |-> stop]
    OBVIOUS
  <1>4. stop \in Uics /\ stops # <<>> /\ Plain(StopKey(q))
        /\ stop = IF StopKey(q) = All THEN Head(stops) ELSE StopOf[StopKey(q)]
    <2>1. CASE q.stop = Missing
      <3>1. stop \in ToSet(SubSeq(stops, 1, IF stops = <<>> THEN 0 ELSE 1))
        BY <1>1, <2>1 DEF StopsFor
      <3>2. stops # <<>>
        <4>1. SubSeq(stops, 1, 0) = <<>>
          BY <1>1, SubSeqEmpty
        <4> QED
          BY <3>1, <4>1 DEF ToSet
      <3>3. Len(stops) >= 1 /\ stops[1] = Head(stops) /\ stops[1] \in Uics
        BY <1>1, <3>2, EmptySeq, LenProperties, ElementOfSeq
      <3>4. /\ SubSeq(stops, 1, 1) \in Seq(Uics) /\ Len(SubSeq(stops, 1, 1)) = 1
            /\ SubSeq(stops, 1, 1)[1] = stops[1]
        BY <1>1, <3>3, SubSeqProperties
      <3>5. DOMAIN SubSeq(stops, 1, 1) = 1 .. 1
        BY <3>4
      <3>6. stop = Head(stops)
        BY <3>1, <3>2, <3>3, <3>4, <3>5 DEF ToSet
      <3>7. StopKey(q) = All /\ Plain(All)
        BY <2>1, TrainsAssumption DEF StopKey
      <3> QED
        BY <3>2, <3>3, <3>6, <3>7
    <2>2. CASE q.stop # Missing
      <3>1. stop \in ToSet(stops) /\ stop = StopOf[q.stop] /\ StopKey(q) = q.stop
        BY <1>1, <2>2 DEF StopsFor, StopKey
      <3>2. \A x \in ToSet(stops) : x \in Uics
        BY <1>1, ElementOfSeq, LenProperties DEF ToSet
      <3>3. stops # <<>>
        BY <3>1, EmptySeq DEF ToSet
      <3>4. StopOf[q.stop] # NoStop
        BY <3>1, <3>2, TrainsAssumption
      <3>5. StopKey(q) # All /\ Plain(StopKey(q))
        BY <1>2, <3>1, <3>4, TrainsAssumption
      <3> QED
        BY <3>1, <3>2, <3>3, <3>5
    <2> QED
      BY <2>1, <2>2
  <1>5. e \in Entries /\ e.trip = TripOf(q) /\ e.stop = stop
    BY <1>3, <1>4 DEF Entries
  <1>6. Fits(StopKey(q), e, calls)
    BY <1>1, <1>4, <1>5 DEF Fits
  <1>7. e.trip[1] = Evu(q) /\ e.trip[2] = q.date /\ e.trip[3] = q.train
    BY <1>5 DEF TripOf
  <1> QED
    BY <1>2, <1>3, <1>4, <1>5, <1>6, <1>7 DEF Right, Owns

\* Nothing is stored or answered at first.
LEMMA TrainsStart == TrainsInit => TrainsInv
  <1> SUFFICES ASSUME TrainsInit
               PROVE  TrainsInv
    OBVIOUS
  <1>1. <<>> \in Seq(Uics) /\ DOMAIN store = {}
    BY DEF TrainsInit
  <1>2. calls \in [Trips -> Seq(Uics)]
    BY <1>1 DEF TrainsInit
  <1>3. asked \in 0 .. MAX_REQUESTS
    BY TrainsAssumption DEF TrainsInit
  <1> QED
    BY <1>1, <1>2, <1>3 DEF TrainsInit, TrainsInv, TrainsTypeOK

\* Each step, of a handler, of upstream or of time, keeps entries and answers with their trains.
LEMMA TrainsGoOn == TrainsInv /\ [TrainsNext]_trains => TrainsInv'
  <1> SUFFICES ASSUME TrainsInv, [TrainsNext]_trains
               PROVE  TrainsInv'
    OBVIOUS
  <1>0. TrainsTypeOK /\ asked \in Nat /\ MAX_REQUESTS \in Nat
        /\ DOMAIN store \subseteq Seq(Pieces)
        /\ store \in [DOMAIN store -> [entry : Entries, fresh : BOOLEAN]]
        /\ \A k \in DOMAIN store : Owns(k, store[k].entry, calls) /\ store[k].entry \in Entries
    BY TrainsAssumption DEF TrainsInv, TrainsTypeOK
  \* A step that answers keeps the invariant if what is stored is that of its keys, and the
  \* answer is nothing or what is asked for.
  <1>1. ASSUME NEW said, Answer(said),
               said # <<>> => \E q \in Questions, e \in Entries :
                                  said = Formed(q, e) /\ Right(q, e, calls),
               DOMAIN store' \subseteq Seq(Pieces),
               store' \in [DOMAIN store' -> [entry : Entries, fresh : BOOLEAN]],
               \A k \in DOMAIN store' : Owns(k, store'[k].entry, calls)
        PROVE  TrainsInv'
    <2>1. calls' = calls /\ asked' \in 0 .. MAX_REQUESTS /\ reply' = said
      BY <1>0, <1>1 DEF Answer
    <2>2. /\ reply' = <<>> \/ reply' \in [question : Questions, entry : Entries]
          /\ reply' # <<>> => Right(reply'.question, reply'.entry, calls)
      <3>1. CASE said = <<>>
        BY <2>1, <3>1
      <3>2. CASE said # <<>>
        <4>1. PICK q \in Questions, e \in Entries : said = Formed(q, e) /\ Right(q, e, calls)
          BY <1>1, <3>2
        <4>2. reply' = [question |-> q, entry |-> e]
          BY <2>1, <4>1 DEF Formed
        <4>3. reply'.question = q /\ reply'.entry = e
          BY <4>2
        <4> QED
          BY <4>1, <4>2, <4>3
      <3> QED
        BY <3>1, <3>2
    <2>3. TrainsTypeOK'
      BY <1>0, <1>1, <2>1, <2>2 DEF TrainsTypeOK
    <2>4. \A k \in DOMAIN store' : Owns(k, store'[k].entry, calls')
      BY <1>1, <2>1
    <2>5. reply' # <<>> => Right(reply'.question, reply'.entry, calls')
      BY <2>1, <2>2
    <2> QED
      BY <2>3, <2>4, <2>5 DEF TrainsInv, Right, Owns, Asks, TripOf, StopKey, Evu
  <1>2. ASSUME NEW q \in Questions, Asks(q), KeyOf(q) \in DOMAIN store
        PROVE  /\ store[KeyOf(q)].entry \in Entries
               /\ Right(q, store[KeyOf(q)].entry, calls)
    <2>1. PICK e \in Entries : e = store[KeyOf(q)].entry
      BY <1>0, <1>2
    <2>2. Owns(KeyOf(q), e, calls)
      BY <1>0, <1>2, <2>1
    <2>3. Right(q, e, calls)
      BY <1>2, <2>2, StoredRight
    <2> QED
      BY <2>1, <2>3
  <1>3. ASSUME NEW q \in Questions, Refuse(q)
        PROVE  TrainsInv'
    BY <1>0, <1>1, <1>3 DEF Refuse
  <1>4. ASSUME NEW q \in Questions, FromStore(q)
        PROVE  TrainsInv'
    <2>1. /\ Asks(q) /\ KeyOf(q) \in DOMAIN store /\ store' = store
          /\ Answer(Formed(q, store[KeyOf(q)].entry))
      BY <1>4 DEF FromStore, Fresh
    <2> QED
      BY <1>0, <1>1, <1>2, <2>1
  <1>5. ASSUME NEW q \in Questions, FromUpstream(q)
        PROVE  TrainsInv'
    <2>1. PICK stop \in StopsFor(q) :
            LET entry == [trip |-> TripOf(q), stop |-> stop]
            IN  /\ Answer(Formed(q, entry))
                /\ store' = [k \in DOMAIN store \cup {KeyOf(q)} |->
                                IF k = KeyOf(q) THEN [entry |-> entry, fresh |-> TRUE]
                                ELSE store[k]]
      BY <1>5 DEF FromUpstream
    <2>2. Asks(q) /\ TripOf(q) \in Trips
      BY <1>5 DEF FromUpstream
    <2>3. PICK entry : entry = [trip |-> TripOf(q), stop |-> stop]
      OBVIOUS
    <2>4. entry \in Entries /\ Right(q, entry, calls) /\ Owns(KeyOf(q), entry, calls)
      BY <1>0, <2>2, <2>3, UpstreamRight
    <2>5. KeyOf(q) \in Seq(Pieces)
      BY <2>2, QuestionTyped
    <2>6. /\ Answer(Formed(q, entry))
          /\ store' = [k \in DOMAIN store \cup {KeyOf(q)} |->
                          IF k = KeyOf(q) THEN [entry |-> entry, fresh |-> TRUE] ELSE store[k]]
      BY <2>1, <2>3
    <2>7. ASSUME NEW k \in DOMAIN store'
          PROVE  /\ k \in Seq(Pieces) /\ Owns(k, store'[k].entry, calls)
                 /\ store'[k] \in [entry : Entries, fresh : BOOLEAN]
      <3>1. CASE k = KeyOf(q)
        <4>1. store'[k] = [entry |-> entry, fresh |-> TRUE]
          BY <2>6, <3>1
        <4>2. store'[k].entry = entry /\ store'[k] \in [entry : Entries, fresh : BOOLEAN]
          BY <2>4, <4>1
        <4> QED
          BY <2>4, <2>5, <3>1, <4>2
      <3>2. CASE k # KeyOf(q)
        <4>1. k \in DOMAIN store /\ store'[k] = store[k]
          BY <2>6, <2>7, <3>2
        <4> QED
          BY <1>0, <4>1
      <3> QED
        BY <3>1, <3>2
    <2>8. store' \in [DOMAIN store' -> [entry : Entries, fresh : BOOLEAN]]
      BY <2>6, <2>7
    <2> QED
      BY <1>1, <2>4, <2>6, <2>7, <2>8
  <1>6. ASSUME NEW q \in Questions, Unavailable(q)
        PROVE  TrainsInv'
    <2>1. Asks(q) /\ store' = store
      BY <1>6 DEF Unavailable
    <2>2. CASE KeyOf(q) \in DOMAIN store
      BY <1>0, <1>1, <1>2, <1>6, <2>1, <2>2 DEF Unavailable
    <2>3. CASE KeyOf(q) \notin DOMAIN store
      BY <1>0, <1>1, <1>6, <2>1, <2>3 DEF Unavailable
    <2> QED
      BY <2>2, <2>3
  <1>7. ASSUME NEW trip \in Trips, NEW stops \in SetToAllKPermutations(Uics),
               stops # <<>>, RunsTrain(trip, stops)
        PROVE  TrainsInv'
    <2>1. stops \in Seq(Uics)
      <3>1. PICK S \in SUBSET Uics : stops \in [1 .. Cardinality(S) -> S]
        BY <1>7 DEF SetToAllKPermutations, SetToSeqs
      <3>2. Cardinality(S) \in Nat
        BY <3>1, TrainsAssumption, FS_Subset, FS_CardinalityType
      <3> QED
        BY <3>1, <3>2, IsASeq
    <2>2. /\ calls[trip] = <<>> /\ UNCHANGED <<store, asked, reply>>
          /\ calls' = [calls EXCEPT ![trip] = stops]
      BY <1>7 DEF RunsTrain
    <2>3. calls' \in [Trips -> Seq(Uics)]
      BY <1>0, <2>1, <2>2 DEF TrainsTypeOK
    <2>4. ASSUME NEW stop, NEW e \in Entries, Fits(stop, e, calls)
          PROVE  Fits(stop, e, calls')
      <3>1. e.trip \in Trips /\ e.trip # trip
        BY <2>2, <2>4 DEF Fits, Entries
      <3>2. calls'[e.trip] = calls[e.trip]
        BY <1>0, <2>2, <3>1 DEF TrainsTypeOK
      <3> QED
        BY <2>4, <3>2 DEF Fits
    <2>5. TrainsTypeOK'
      BY <1>0, <2>2, <2>3 DEF TrainsTypeOK
    <2>6. \A k \in DOMAIN store' : Owns(k, store'[k].entry, calls')
      BY <1>0, <2>2, <2>4 DEF Owns
    <2>7. reply' # <<>> => Right(reply'.question, reply'.entry, calls')
      <3>1. reply # <<>> => reply.entry \in Entries
        BY <1>0 DEF TrainsTypeOK
      <3> QED
        BY <2>2, <2>4, <3>1 DEF TrainsInv, Right
    <2> QED
      BY <2>5, <2>6, <2>7 DEF TrainsInv
  <1>8. ASSUME NEW k \in DOMAIN store, Age(k)
        PROVE  TrainsInv'
    <2>1. UNCHANGED <<calls, asked, reply>>
      BY <1>8 DEF Age
    <2>2. /\ DOMAIN store' \subseteq DOMAIN store
          /\ store' \in [DOMAIN store' -> [entry : Entries, fresh : BOOLEAN]]
          /\ \A l \in DOMAIN store' : store'[l].entry = store[l].entry
      <3>1. CASE store[k].fresh
        <4>1. store' = [store EXCEPT ![k].fresh = FALSE]
          BY <1>8, <3>1 DEF Age
        <4>2. /\ DOMAIN store' = DOMAIN store
              /\ store'[k] = [store[k] EXCEPT !.fresh = FALSE]
              /\ \A l \in DOMAIN store \ {k} : store'[l] = store[l]
          BY <1>0, <4>1
        <4>3. /\ store'[k] \in [entry : Entries, fresh : BOOLEAN]
              /\ store'[k].entry = store[k].entry
          BY <1>0, <4>2
        <4>4. store' \in [DOMAIN store -> [entry : Entries, fresh : BOOLEAN]]
          BY <1>0, <4>1
        <4> QED
          BY <4>2, <4>3, <4>4
      <3>2. CASE ~store[k].fresh
        <4>1. store' = [m \in DOMAIN store \ {k} |-> store[m]]
          BY <1>8, <3>2 DEF Age
        <4> QED
          BY <1>0, <4>1
      <3> QED
        BY <3>1, <3>2
    <2>3. TrainsTypeOK'
      BY <1>0, <2>1, <2>2 DEF TrainsTypeOK
    <2>4. \A l \in DOMAIN store' : Owns(l, store'[l].entry, calls')
      BY <1>0, <2>1, <2>2
    <2>5. reply' # <<>> => Right(reply'.question, reply'.entry, calls')
      BY <2>1 DEF TrainsInv
    <2> QED
      BY <2>3, <2>4, <2>5 DEF TrainsInv
  <1>9. CASE UNCHANGED trains
    BY <1>9 DEF trains, TrainsInv, TrainsTypeOK
  <1> QED
    BY <1>3, <1>4, <1>5, <1>6, <1>7, <1>8, <1>9 DEF TrainsNext

\* Whatever was asked before and is still stored, and whatever colons clients put into their
\* texts, which server/src/routes/formation.rs:69 joins with colons, an answer is of the train,
\* the operator and the date of its own question and of the stop it named, or of the first stop.
THEOREM AnswersItsOwn == TrainsSpec => []OwnAnswer
  <1>1. TrainsInv => OwnAnswer
    <2> SUFFICES ASSUME TrainsInv, reply # <<>>
                 PROVE  LET q == reply.question
                            trip == reply.entry.trip
                        IN  /\ trip[1] = Evu(q)
                            /\ trip[2] = q.date
                            /\ trip[3] = q.train
                            /\ reply.entry.stop = IF q.stop \in {Missing, All} THEN Head(calls[trip])
                                                  ELSE StopOf[q.stop]
      BY DEF OwnAnswer, Evu
    <2>1. PICK q, e : q = reply.question /\ e = reply.entry /\ Right(q, e, calls)
      BY DEF TrainsInv
    <2>2. e.trip[1] = Evu(q) /\ e.trip[2] = q.date /\ e.trip[3] = q.train
      BY <2>1 DEF Right, TripOf
    <2>3. e.stop = IF q.stop \in {Missing, All} THEN Head(calls[e.trip]) ELSE StopOf[q.stop]
      BY <2>1 DEF Right, Fits, StopKey
    <2> QED
      BY <2>1, <2>2, <2>3
  <1> QED
    BY <1>1, TrainsStart, TrainsGoOn, PTL DEF TrainsSpec

----
(* ProbeHost.                                                              *)

\* The probes that come before one.
Earlier(name) ==
    CASE name = "health" -> {}
      [] name = "departures" -> {"health"}
      [] name = "nearby" -> {"health", "departures"}

\* There is one outage: before it nothing has gone wrong.
OutageOnce == outage.phase = "before" => outage.lasted = 0 /\ outage.hosts = {}

\* What a request or a pause says of the outage: an attempt that met it began
\* after it or saw it begin, and a second one that meets it comes a pause later.
Met ==
    LET h == probing.host IN
    /\ probing.touched \/ probing.waits = "retry" \/ probing.attempt = 2
         => outage.phase # "before" /\ h \in outage.hosts
    /\ probing.waits = "retry" =>
         /\ probing.attempt = 1 /\ probing.timer <= RETRY_DELAY
         /\ outage.phase = "on" => probing.timer <= outage.lasted
    /\ probing.waits = "answer" => probing.timer <= REQUEST_TIMEOUT
    /\ probing.attempt = 2 /\ (probing.touched \/ outage.phase = "on")
         => outage.lasted = RETRY_DELAY

FailedInOutage ==
    \A h \in Hosts : failures[h] # {} => outage.lasted = RETRY_DELAY /\ h \in outage.hosts

\* Of a host that was not well at any time while it was probed.
Judged ==
    \A h \in Hosts \ well :
        /\ h > probing.host => failures[h] = {} /\ listed[h] = "empty"
        /\ h = probing.host =>
             /\ Unwell(h) /\ listed[h] = "empty"
             /\ probing.name # "formation" /\ failures[h] = Earlier(probing.name)
        /\ h < probing.host => failures[h] = {"health", "departures", "nearby"}

ProbeHostInv == ProbeHostTypeOK /\ OutageOnce /\ Met /\ FailedInOutage /\ Judged

\* The fields of what the run is at.
LEMMA ProbingFields ==
    ASSUME ProbeHostTypeOK
    PROVE  /\ probing.host \in 1 .. HOSTS + 1 /\ probing.name \in Names
           /\ probing.attempt \in {1, 2} /\ probing.waits \in {"answer", "retry"}
           /\ probing.timer \in 0 .. REQUEST_TIMEOUT + RETRY_DELAY /\ probing.touched \in BOOLEAN
           /\ outage.phase \in {"before", "on", "over"} /\ outage.lasted \in 0 .. RETRY_DELAY
           /\ outage.hosts \subseteq Hosts
           /\ HOSTS \in Nat \ {0} /\ REQUEST_TIMEOUT \in Nat \ {0} /\ RETRY_DELAY \in Nat \ {0}
           /\ probing.host <= HOSTS => probing.host \in Hosts
  BY ProbeHostAssumption DEF ProbeHostTypeOK, Probing, Hosts

\* A request that goes out meets the outage if it is on.
LEMMA RequestTyped ==
    ASSUME ProbeHostTypeOK, NEW h \in 1 .. HOSTS + 1, NEW name \in Names, NEW n \in {1, 2}
    PROVE  /\ Request(h, name, n) \in Probing
           /\ Request(h, name, n).host = h /\ Request(h, name, n).name = name
           /\ Request(h, name, n).attempt = n /\ Request(h, name, n).waits = "answer"
           /\ Request(h, name, n).timer = 0 /\ Request(h, name, n).touched = Unwell(h)
  BY ProbeHostAssumption DEF Request, Probing, Unwell

\* The answers a probe does not accept (checkHealth and the other checks of index.js) are those of
\* an outage, and during one it accepts none.
LEMMA Accepts ==
    ASSUME ProbeHostTypeOK, NEW r \in Answers
    PROVE  /\ ~Accepted(probing.name, r) => Unwell(probing.host) \/ probing.touched
           /\ Unwell(probing.host) => ~Accepted(probing.name, r)
  <1>1. \A a \in WellAnswers(probing.name) : Accepted(probing.name, a)
    BY DEF WellAnswers, Accepted
  <1>2. \A a \in SickAnswers : ~Accepted(probing.name, a)
    BY DEF SickAnswers, Lost, Accepted
  <1> HIDE DEF WellAnswers, SickAnswers, Accepted
  <1> QED
    BY <1>1, <1>2 DEF Answers

\* From an answer on to the next probe, if it did to the failures what it should.
LEMMA ProbeAfter ==
    ASSUME ProbeHostInv, Waits("answer"), GoOn, outage' = outage,
           failures' \in [Hosts -> SUBSET Names],
           listed' \in [Hosts -> {"empty", "plain", "numbered"}],
           \A h \in Hosts \ {probing.host} : failures'[h] = failures[h] /\ listed'[h] = listed[h],
           FailedInOutage',
           probing.host \notin well =>
               /\ listed'[probing.host] = "empty"
               /\ failures'[probing.host] = Earlier(probing.name) \cup {probing.name}
    PROVE  ProbeHostInv'
  <1> DEFINE host == probing.host
             name == probing.name
  <1>0. ProbeHostTypeOK /\ host \in Hosts /\ host <= HOSTS /\ name \in Names /\ HOSTS \in Nat
    BY ProbingFields DEF ProbeHostInv, Waits
  <1>1. PICK nh \in 1 .. HOSTS + 1, nn \in Names :
          /\ probing' = Request(nh, nn, 1)
          /\ well' = IF Unwell(nh) \/ nh > HOSTS THEN well ELSE well \cup {nh}
          /\ \/ /\ nh = host
                /\ \/ name = "health" /\ nn = "departures"
                   \/ name = "departures" /\ nn = "nearby"
                   \/ name = "nearby" /\ nn = "formation" /\ listed[host] = "numbered"
             \/ nh = host + 1 /\ nn = "health" /\ name \in {"nearby", "formation"}
    <2> DEFINE At(nh, nn) ==
                 /\ probing' = Request(nh, nn, 1)
                 /\ well' = IF Unwell(nh) \/ nh > HOSTS THEN well ELSE well \cup {nh}
    <2>1. \A nh \in 1 .. HOSTS + 1, nn \in Names : Request(nh, nn, 1).host = nh
      BY <1>0, RequestTyped
    <2>2. host \in 1 .. HOSTS + 1 /\ host + 1 \in 1 .. HOSTS + 1
      BY <1>0 DEF Hosts
    <2>3. {"health", "departures", "nearby", "formation"} = Names
      BY DEF Names
    <2> HIDE DEF Unwell, Request
    <2>4. CASE name = "health"
      <3>1. At(host, "departures")
        BY <2>1, <2>2, <2>3, <2>4 DEF GoOn
      <3> QED
        BY <2>2, <2>3, <2>4, <3>1
    <2>5. CASE name = "departures"
      <3>1. At(host, "nearby")
        BY <2>1, <2>2, <2>3, <2>5 DEF GoOn
      <3> QED
        BY <2>2, <2>3, <2>5, <3>1
    <2>6. CASE name = "nearby" /\ listed[host] = "numbered"
      <3>1. At(host, "formation")
        BY <2>1, <2>2, <2>3, <2>6 DEF GoOn
      <3> QED
        BY <2>2, <2>3, <2>6, <3>1
    <2>7. CASE name = "formation" \/ (name = "nearby" /\ listed[host] # "numbered")
      <3>1. At(host + 1, "health")
        BY <2>1, <2>2, <2>3, <2>7 DEF GoOn
      <3> QED
        BY <2>2, <2>3, <2>7, <3>1
    <2> QED
      BY <1>0, <2>3, <2>4, <2>5, <2>6, <2>7
  <1>2. /\ probing' \in Probing /\ probing'.host = nh /\ probing'.name = nn
        /\ probing'.attempt = 1 /\ probing'.waits = "answer" /\ probing'.timer = 0
        /\ probing'.touched = Unwell(nh)
    BY <1>0, <1>1, RequestTyped
  <1>3. well' \subseteq Hosts /\ well \subseteq well'
        /\ \A h \in Hosts \ well' : h = nh => Unwell(h)
    <2>1. nh \notin Hosts => nh > HOSTS
      BY <1>0 DEF Hosts
    <2>2. \A h \in Hosts : h <= HOSTS
      BY <1>0 DEF Hosts
    <2> QED
      BY <1>0, <1>1, <2>1, <2>2 DEF ProbeHostTypeOK
  <1>4. \A h : Unwell(h)' <=> Unwell(h)
    BY DEF Unwell
  <1>5. ProbeHostTypeOK'
    BY <1>0, <1>2, <1>3 DEF ProbeHostTypeOK
  <1>6. OutageOnce'
    BY DEF ProbeHostInv, OutageOnce
  <1>7. Met'
    <2>1. probing'.touched => outage.phase = "on" /\ nh \in outage.hosts
      BY <1>2 DEF Unwell
    <2>2. probing'.host = nh /\ probing'.attempt # 2 /\ probing'.waits # "retry"
          /\ probing'.timer <= REQUEST_TIMEOUT
      BY <1>2, ProbeHostAssumption
    <2> QED
      BY <2>1, <2>2 DEF Met
  <1>8. Judged'
    <2>1. ASSUME NEW h \in Hosts, h \notin well'
          PROVE  /\ h > nh => failures'[h] = {} /\ listed'[h] = "empty"
                 /\ h = nh => /\ Unwell(h) /\ listed'[h] = "empty"
                              /\ nn # "formation" /\ failures'[h] = Earlier(nn)
                 /\ h < nh => failures'[h] = {"health", "departures", "nearby"}
      <3>1. h \notin well
        BY <1>3, <2>1
      <3>2. /\ h > host => failures[h] = {} /\ listed[h] = "empty"
            /\ h = host => listed[h] = "empty" /\ name # "formation"
            /\ h < host => failures[h] = {"health", "departures", "nearby"}
        BY <2>1, <3>1 DEF ProbeHostInv, Judged
      <3>3. h \in Nat /\ host \in Nat
        BY <1>0 DEF Hosts
      <3>4. h = host => /\ listed'[h] = "empty"
                        /\ failures'[h] = Earlier(name) \cup {name}
        BY <3>1
      <3>5. CASE h > nh
        <4>1. h > host /\ h # host
          BY <1>1, <3>3, <3>5
        <4> QED
          BY <3>2, <3>3, <3>5, <4>1, <2>1, <1>1
      <3>6. CASE h = nh /\ nh = host
        <4>1. \/ name = "health" /\ nn = "departures"
              \/ name = "departures" /\ nn = "nearby"
          BY <1>0, <1>1, <3>2, <3>3, <3>6
        <4>2. failures'[h] = Earlier(nn) /\ nn # "formation"
          BY <3>4, <3>6, <4>1 DEF Earlier
        <4> QED
          BY <1>3, <2>1, <3>3, <3>4, <3>6, <4>2
      <3>7. CASE h = nh /\ nh = host + 1
        <4>1. h > host /\ h # host /\ nn = "health"
          BY <1>1, <3>3, <3>7
        <4> QED
          BY <1>3, <2>1, <3>2, <3>3, <3>7, <4>1 DEF Earlier
      <3>8. CASE h < nh /\ h = host
        <4>1. name = "nearby"
          BY <1>1, <3>2, <3>3, <3>8
        <4> QED
          BY <1>1, <3>3, <3>4, <3>8, <4>1 DEF Earlier
      <3>9. CASE h < nh /\ h # host
        <4>1. h < host
          BY <1>1, <3>3, <3>9
        <4> QED
          BY <1>1, <2>1, <3>2, <3>3, <3>9, <4>1
      <3> QED
        BY <1>1, <3>3, <3>5, <3>6, <3>7, <3>8, <3>9
    <2> QED
      BY <1>2, <1>4, <2>1 DEF Judged
  <1> QED
    BY <1>5, <1>6, <1>7, <1>8 DEF ProbeHostInv

\* The run starts with the first host, before any outage.
LEMMA ProbeHostStarts == ProbeHostInit => ProbeHostInv
  <1> SUFFICES ASSUME ProbeHostInit
               PROVE  ProbeHostInv
    OBVIOUS
  <1>1. 1 \in Hosts /\ 1 \in 1 .. HOSTS + 1 /\ "health" \in Names /\ 0 \in 0 .. RETRY_DELAY
    BY ProbeHostAssumption DEF Hosts, Names
  <1>2. Unwell(1) = FALSE
    BY DEF ProbeHostInit, Unwell
  <1>3. /\ probing = [host |-> 1, name |-> "health", attempt |-> 1, waits |-> "answer",
                      timer |-> 0, touched |-> FALSE]
        /\ outage = [phase |-> "before", lasted |-> 0, hosts |-> {}]
    BY <1>2, Zenon DEF ProbeHostInit, Request
  <1>4. ProbeHostTypeOK
    <2>1. probing \in Probing
      BY <1>1, <1>3, ProbeHostAssumption DEF Probing
    <2>2. outage \in [phase : {"before", "on", "over"}, lasted : 0 .. RETRY_DELAY, hosts : SUBSET Hosts]
      BY <1>1, <1>3
    <2> QED
      BY <1>1, <2>1, <2>2 DEF ProbeHostInit, ProbeHostTypeOK, Names
  <1>5. OutageOnce /\ Met
    <2>1. ~probing.touched /\ probing.waits = "answer" /\ probing.attempt = 1 /\ probing.timer = 0
      BY <1>3
    <2>2. outage.phase = "before" /\ outage.lasted = 0 /\ outage.hosts = {}
      BY <1>3
    <2>3. 0 <= REQUEST_TIMEOUT
      BY ProbeHostAssumption
    <2> QED
      BY <2>1, <2>2, <2>3 DEF OutageOnce, Met
  <1>6. FailedInOutage
    BY DEF ProbeHostInit, FailedInOutage
  <1>7. Judged
    <2>1. \A h \in Hosts \ well : h > 1 /\ failures[h] = {} /\ listed[h] = "empty"
      BY DEF ProbeHostInit, Hosts
    <2>2. \A h \in Hosts \ well : h # probing.host /\ ~(h < probing.host)
      BY <1>3, <2>1 DEF Hosts
    <2> QED
      BY <2>1, <2>2 DEF Judged
  <1> QED
    BY <1>4, <1>5, <1>6, <1>7 DEF ProbeHostInv

\* Each step of the run and of the world keeps the invariant.
LEMMA ProbeHostGoesOn == ProbeHostInv /\ [ProbeHostNext]_probes => ProbeHostInv'
  <1> SUFFICES ASSUME ProbeHostInv, [ProbeHostNext]_probes
               PROVE  ProbeHostInv'
    OBVIOUS
  <1>0. ProbeHostTypeOK /\ OutageOnce /\ Met /\ FailedInOutage /\ Judged
    BY DEF ProbeHostInv
  <1> DEFINE host == probing.host
             name == probing.name
  <1>1. ASSUME NEW r, NEW list \in {"plain", "numbered"}, Pass(r, list)
        PROVE  ProbeHostInv'
    <2>1. /\ Waits("answer") /\ r \in Answers /\ Accepted(name, r) /\ GoOn
          /\ failures' = failures /\ outage' = outage
          /\ listed' = IF name = "departures" THEN [listed EXCEPT ![host] = list] ELSE listed
      BY <1>1 DEF Pass
    <2>2. host \in Hosts
      BY <1>0, <2>1, ProbingFields DEF Waits
    <2>3. ~Unwell(host)
      BY <1>0, <2>1, Accepts
    <2>4. host \in well
      BY <1>0, <2>2, <2>3 DEF Judged
    <2>5. /\ listed' \in [Hosts -> {"empty", "plain", "numbered"}]
          /\ \A h \in Hosts \ {host} : listed'[h] = listed[h]
      BY <1>0, <2>1, <2>2 DEF ProbeHostTypeOK
    <2>6. FailedInOutage' /\ failures' \in [Hosts -> SUBSET Names]
      BY <1>0, <2>1 DEF FailedInOutage, ProbeHostTypeOK
    <2> QED
      BY <2>1, <2>4, <2>5, <2>6, ProbeAfter
  <1>2. ASSUME NEW r, FailProbe(r)
        PROVE  ProbeHostInv'
    <2>1. /\ Waits("answer") /\ r \in Answers /\ ~Accepted(name, r) /\ GoOn
          /\ probing.attempt = 2 /\ listed' = listed /\ outage' = outage
          /\ failures' = [failures EXCEPT ![host] = @ \cup {name}]
      BY <1>2 DEF FailProbe
    <2>2. host \in Hosts /\ name \in Names
      BY <1>0, <2>1, ProbingFields DEF Waits
    <2>3. outage.lasted = RETRY_DELAY /\ host \in outage.hosts
      <3>1. probing.touched \/ outage.phase = "on"
        BY <1>0, <2>1, Accepts DEF Unwell
      <3> QED
        BY <1>0, <2>1, <3>1 DEF Met
    <2>4. /\ failures' \in [Hosts -> SUBSET Names] /\ failures'[host] = failures[host] \cup {name}
          /\ \A h \in Hosts \ {host} : failures'[h] = failures[h]
      BY <1>0, <2>1, <2>2 DEF ProbeHostTypeOK
    <2>5. FailedInOutage'
      BY <1>0, <2>1, <2>3, <2>4 DEF FailedInOutage
    <2>6. host \notin well => listed'[host] = "empty" /\ failures'[host] = Earlier(name) \cup {name}
      BY <1>0, <2>1, <2>2, <2>4 DEF Judged
    <2>7. listed' \in [Hosts -> {"empty", "plain", "numbered"}]
      BY <1>0, <2>1 DEF ProbeHostTypeOK
    <2> QED
      BY <2>1, <2>4, <2>5, <2>6, <2>7, ProbeAfter
  <1>3. ASSUME NEW r, Reject(r)
        PROVE  ProbeHostInv'
    <2>1. /\ Waits("answer") /\ r \in Answers /\ ~Accepted(name, r) /\ probing.attempt = 1
          /\ probing' = [probing EXCEPT !.waits = "retry", !.timer = 0, !.touched = FALSE]
          /\ UNCHANGED <<failures, listed, outage, well>>
      BY <1>3 DEF Reject
    <2>2. /\ probing' \in Probing /\ probing'.host = host /\ probing'.name = name
          /\ probing'.attempt = 1 /\ probing'.waits = "retry" /\ probing'.timer = 0
          /\ ~probing'.touched
      <3>1. 0 \in 0 .. REQUEST_TIMEOUT + RETRY_DELAY
        BY ProbeHostAssumption
      <3>2. probing' \in Probing /\ probing'.host = host /\ probing'.name = name
            /\ probing'.attempt = 1 /\ probing'.waits = "retry" /\ probing'.timer = 0
        BY <1>0, <2>1, <3>1 DEF ProbeHostTypeOK, Probing
      <3>3. ~probing'.touched
        BY <1>0, <2>1 DEF ProbeHostTypeOK, Probing
      <3> QED
        BY <3>2, <3>3
    <2>3. outage.phase # "before" /\ host \in outage.hosts
      <3>1. probing.touched \/ Unwell(host)
        BY <1>0, <2>1, Accepts
      <3> QED
        BY <1>0, <3>1 DEF Met, Unwell
    <2>4. Met'
      BY <1>0, <2>1, <2>2, <2>3, ProbingFields DEF Met
    <2>5. ProbeHostTypeOK' /\ OutageOnce' /\ FailedInOutage'
      BY <1>0, <2>1, <2>2 DEF ProbeHostTypeOK, OutageOnce, FailedInOutage
    <2>6. Judged'
      BY <1>0, <2>1, <2>2 DEF Judged, Unwell
    <2> QED
      BY <2>4, <2>5, <2>6 DEF ProbeHostInv
  <1>4. ASSUME Retry
        PROVE  ProbeHostInv'
    <2>1. /\ Waits("retry") /\ probing.timer = RETRY_DELAY
          /\ probing' = Request(host, name, 2)
          /\ UNCHANGED <<failures, listed, outage, well>>
      BY <1>4 DEF Retry
    <2>2. /\ probing' \in Probing /\ probing'.host = host /\ probing'.name = name
          /\ probing'.attempt = 2 /\ probing'.waits = "answer" /\ probing'.timer = 0
          /\ probing'.touched = Unwell(host)
      BY <1>0, <2>1, ProbingFields, RequestTyped
    <2>3. outage.phase # "before" /\ host \in outage.hosts
          /\ (outage.phase = "on" => RETRY_DELAY <= outage.lasted)
      BY <1>0, <2>1 DEF Met, Waits
    <2>4. probing'.touched => outage.phase = "on"
      BY <2>2 DEF Unwell
    <2>5. outage.phase = "on" => outage.lasted = RETRY_DELAY
      BY <1>0, <2>3, ProbingFields
    <2>6. Met'
      BY <2>1, <2>2, <2>3, <2>4, <2>5, ProbeHostAssumption DEF Met
    <2>7. ProbeHostTypeOK' /\ OutageOnce' /\ FailedInOutage'
      BY <1>0, <2>1, <2>2 DEF ProbeHostTypeOK, OutageOnce, FailedInOutage
    <2>8. Judged'
      BY <1>0, <2>1, <2>2 DEF Judged, Unwell
    <2> QED
      BY <2>6, <2>7, <2>8 DEF ProbeHostInv
  <1>5. ASSUME NEW hosts \in SUBSET Hosts, BreakDown(hosts)
        PROVE  ProbeHostInv'
    <2>1. /\ outage.phase = "before"
          /\ outage' = [outage EXCEPT !.phase = "on", !.hosts = hosts]
          /\ probing' = [probing EXCEPT !.touched = @ \/ (Waits("answer") /\ host \in hosts)]
          /\ UNCHANGED <<failures, listed, well>>
      BY <1>5 DEF BreakDown
    <2>2. /\ outage' \in [phase : {"before", "on", "over"}, lasted : 0 .. RETRY_DELAY,
                          hosts : SUBSET Hosts]
          /\ outage'.phase = "on" /\ outage'.hosts = hosts
      BY <1>0, <2>1 DEF ProbeHostTypeOK
    <2>3. ~probing.touched /\ probing.waits # "retry" /\ probing.attempt # 2
      BY <1>0, <2>1 DEF Met
    <2>4. /\ probing' \in Probing /\ probing'.host = host /\ probing'.name = name
          /\ probing'.attempt = probing.attempt /\ probing'.waits = probing.waits
          /\ probing'.timer = probing.timer
          /\ probing'.touched = (probing.touched \/ (Waits("answer") /\ host \in hosts))
      BY <1>0, <2>1, ProbingFields DEF ProbeHostTypeOK, Probing
    <2>5. probing'.touched => host \in hosts
      BY <2>3, <2>4
    <2>6. Met'
      BY <1>0, <2>2, <2>3, <2>4, <2>5 DEF Met
    <2>7. \A h \in Hosts : failures[h] = {}
      BY <1>0, <2>1, ProbeHostAssumption DEF FailedInOutage, OutageOnce
    <2>8. ProbeHostTypeOK' /\ OutageOnce' /\ FailedInOutage'
      BY <1>0, <2>1, <2>2, <2>4, <2>7 DEF ProbeHostTypeOK, OutageOnce, FailedInOutage
    <2>9. \A h \in Hosts \ well : h # host
      BY <1>0, <2>1 DEF Judged, Unwell
    <2>10. Judged'
      BY <1>0, <2>1, <2>4, <2>9 DEF Judged
    <2> QED
      BY <2>6, <2>8, <2>10 DEF ProbeHostInv
  <1>6. ASSUME Recover
        PROVE  ProbeHostInv'
    <2>1. /\ outage.phase = "on" /\ outage' = [outage EXCEPT !.phase = "over"]
          /\ well' = well \cup (outage.hosts \cap {host})
          /\ UNCHANGED <<probing, failures, listed>>
      BY <1>6 DEF Recover
    <2>2. /\ outage' \in [phase : {"before", "on", "over"}, lasted : 0 .. RETRY_DELAY,
                          hosts : SUBSET Hosts]
          /\ outage'.phase = "over" /\ outage'.hosts = outage.hosts
          /\ outage'.lasted = outage.lasted
      BY <1>0, <2>1 DEF ProbeHostTypeOK
    <2>3. well' \subseteq Hosts /\ \A h \in Hosts \ well' : h \in Hosts \ well
      BY <1>0, <2>1, ProbingFields DEF ProbeHostTypeOK
    <2>4. \A h \in Hosts \ well' : h # host
      BY <1>0, <2>1 DEF Judged, Unwell
    <2>5. Judged'
      BY <1>0, <2>1, <2>3, <2>4 DEF Judged
    <2>6. ProbeHostTypeOK' /\ OutageOnce' /\ FailedInOutage'
      BY <1>0, <2>1, <2>2, <2>3 DEF ProbeHostTypeOK, OutageOnce, FailedInOutage
    <2>7. Met'
      BY <1>0, <2>1, <2>2 DEF Met
    <2> QED
      BY <2>5, <2>6, <2>7 DEF ProbeHostInv
  <1>7. ASSUME PassTime
        PROVE  ProbeHostInv'
    <2>1. /\ \/ Waits("answer") /\ probing.timer < REQUEST_TIMEOUT
             \/ Waits("retry") /\ probing.timer < RETRY_DELAY
          /\ probing' = [probing EXCEPT !.timer = @ + 1]
          /\ outage' = IF outage.phase = "on" /\ outage.lasted < RETRY_DELAY
                       THEN [outage EXCEPT !.lasted = @ + 1] ELSE outage
          /\ UNCHANGED <<failures, listed, well>>
      BY <1>7 DEF PassTime
    <2>2. probing.timer + 1 \in 0 .. REQUEST_TIMEOUT + RETRY_DELAY
      BY <1>0, <2>1, ProbingFields
    <2>3. /\ probing' \in Probing /\ probing'.host = host /\ probing'.name = name
          /\ probing'.attempt = probing.attempt /\ probing'.waits = probing.waits
          /\ probing'.timer = probing.timer + 1 /\ probing'.touched = probing.touched
      BY <1>0, <2>1, <2>2, ProbingFields DEF ProbeHostTypeOK, Probing
    <2>4. /\ outage' \in [phase : {"before", "on", "over"}, lasted : 0 .. RETRY_DELAY,
                          hosts : SUBSET Hosts]
          /\ outage'.phase = outage.phase /\ outage'.hosts = outage.hosts
          /\ outage'.lasted = IF outage.phase = "on" /\ outage.lasted < RETRY_DELAY
                              THEN outage.lasted + 1 ELSE outage.lasted
      <3>1. CASE outage.phase = "on" /\ outage.lasted < RETRY_DELAY
        <4>1. outage.lasted + 1 \in 0 .. RETRY_DELAY
          BY <1>0, <3>1, ProbingFields
        <4> QED
          BY <1>0, <2>1, <3>1, <4>1 DEF ProbeHostTypeOK
      <3>2. CASE ~(outage.phase = "on" /\ outage.lasted < RETRY_DELAY)
        BY <1>0, <2>1, <3>2 DEF ProbeHostTypeOK
      <3> QED
        BY <3>1, <3>2
    <2>5. outage.lasted = RETRY_DELAY => outage'.lasted = RETRY_DELAY
      BY <1>0, <2>4, ProbingFields
    <2>6. ProbeHostTypeOK'
      BY <1>0, <2>1, <2>3, <2>4 DEF ProbeHostTypeOK
    <2>7. OutageOnce' /\ FailedInOutage'
      BY <1>0, <2>1, <2>4, <2>5 DEF OutageOnce, FailedInOutage
    <2>8. Met'
      <3>1. probing.waits = "retry" =>
              /\ probing.attempt = 1 /\ probing.timer + 1 <= RETRY_DELAY
              /\ outage.phase = "on" => probing.timer + 1 <= outage'.lasted
        BY <1>0, <2>1, <2>4, ProbingFields DEF Met, Waits
      <3>2. probing.waits = "answer" => probing.timer + 1 <= REQUEST_TIMEOUT
        BY <1>0, <2>1, ProbingFields DEF Waits
      <3> QED
        BY <1>0, <2>3, <2>4, <2>5, <3>1, <3>2 DEF Met
    <2>9. Judged'
      BY <1>0, <2>1, <2>3, <2>4 DEF Judged, Unwell
    <2> QED
      BY <2>6, <2>7, <2>8, <2>9 DEF ProbeHostInv
  <1>8. CASE UNCHANGED probes
    BY <1>0, <1>8 DEF probes, ProbeHostInv, ProbeHostTypeOK, OutageOnce, Met, FailedInOutage,
                      Judged, Unwell
  <1> QED
    BY <1>1, <1>2, <1>3, <1>4, <1>5, <1>6, <1>7, <1>8 DEF ProbeHostNext

\* An outage shorter than the pause between two attempts (index.js:64-72) fails no host, at
\* whatever probe it begins and over however many hosts it stretches; a host that is down all
\* the while it is probed fails every probe but the formation: for any number of hosts and
\* whatever the timeout and the pause.
THEOREM SecondAttemptCounts == ProbeHostSpec => []HostsJudgedRight
  <1>1. ProbeHostInv => HostsJudgedRight
    BY DEF ProbeHostInv, FailedInOutage, Judged, HostsJudgedRight
  <1> QED
    BY <1>1, ProbeHostStarts, ProbeHostGoesOn, PTL DEF ProbeHostSpec

----
(* Sync.                                                                   *)

\* A job that does not write has nothing left to send.
IdleEmpty == \A s \in Seeds : ~Writing(s) => upserts[s] = {} /\ removed[s] = {}

\* What is still to be sent agrees with the file it was computed from.
PlanRight ==
    \A s \in Seeds : /\ \A i \in upserts[s] : target[s][i] # NoRow
                     /\ \A i \in removed[s] : target[s][i] = NoRow

\* `agreed` is what its name says, of the jobs that write at present.
AgreedRight ==
    \A s, t \in Seeds : Writing(s) /\ Writing(t) =>
        \A i \in agreed[s] : target[s][i] = target[t][i]

\* An agreed row is right, or it is still to be sent.
OnItsWay ==
    \A s \in Seeds : Writing(s) =>
        \A i \in agreed[s] : table[i] = target[s][i] \/ i \in upserts[s] \/ i \in removed[s]

SeedInv == SyncTypeOK /\ IdleEmpty /\ PlanRight /\ AgreedRight /\ OnItsWay

\* The invariant holds of an empty table and no jobs.
LEMMA SeedInvInit == SyncInit => SeedInv
BY DEF SyncInit, SeedInv, SyncTypeOK, IdleEmpty, PlanRight, AgreedRight, OnItsWay, Writing, Tables

\* A batch is some of the ids that are left.
LEMMA BatchWithin == ASSUME NEW ids, NEW b \in Batches(ids) PROVE b \subseteq ids
BY DEF Batches

\* Checking out a commit concerns no job that writes.
LEMMA TriggerKeeps ==
    ASSUME SeedInv, NEW s \in Seeds, NEW file \in Tables, Trigger(s, file)
    PROVE  SeedInv'
<1> USE DEF SeedInv, SyncTypeOK, Writing
<1>1. SyncTypeOK'
    BY DEF Trigger
<1>2. \A t \in Seeds : Writing(t)' <=> Writing(t)
    BY DEF Trigger
<1>3. \A t \in Seeds : Writing(t) => target'[t] = target[t]
    BY DEF Trigger
<1>4. IdleEmpty'
    BY <1>2 DEF IdleEmpty, Trigger
<1>5. PlanRight'
    <2> SUFFICES ASSUME NEW t \in Seeds
                 PROVE  /\ \A i \in upserts[t] : target'[t][i] # NoRow
                        /\ \A i \in removed[t] : target'[t][i] = NoRow
        BY DEF PlanRight, Trigger
    <2>1. CASE Writing(t)
        BY <2>1, <1>3 DEF PlanRight
    <2>2. CASE ~Writing(t)
        BY <2>2 DEF IdleEmpty
    <2> QED BY <2>1, <2>2
<1>6. AgreedRight'
    BY <1>2, <1>3 DEF AgreedRight, Trigger
<1>7. OnItsWay'
    BY <1>2, <1>3 DEF OnItsWay, Trigger
<1> QED BY <1>1, <1>4, <1>5, <1>6, <1>7

\* A diff lists every row that is not right, and every job in it agrees with
\* every other on what both call agreed.
LEMMA ReadTableKeeps ==
    ASSUME SeedInv, NEW s \in Seeds, ReadTable(s)
    PROVE  SeedInv'
<1> USE DEF SeedInv, SyncTypeOK
<1>1. SyncTypeOK'
    BY DEF ReadTable, Changed, Gone, Same, Writing
<1>2. \A t \in Seeds : Writing(t)' <=> (Writing(t) \/ t = s)
    BY DEF ReadTable, Writing
<1>3. ~Writing(s) /\ table' = table /\ target' = target
    BY DEF ReadTable, Writing
<1>4. upserts'[s] = Changed(target[s]) /\ removed'[s] = Gone(target[s])
    BY DEF ReadTable
<1>5. \A t \in Seeds \ {s} : upserts'[t] = upserts[t] /\ removed'[t] = removed[t]
    BY DEF ReadTable
<1>6. agreed'[s] = {i \in Ids : \A u \in Seeds : Writing(u) => i \in Same(s, u)}
    BY DEF ReadTable
<1>7. \A t \in Seeds \ {s} : Writing(t) => agreed'[t] = agreed[t] \cap Same(s, t)
    BY DEF ReadTable
<1>8. IdleEmpty'
    BY <1>2, <1>5 DEF IdleEmpty
<1>9. PlanRight'
    BY <1>3, <1>4, <1>5 DEF PlanRight, Changed, Gone
<1>10. AgreedRight'
    <2> SUFFICES ASSUME NEW t \in Seeds, NEW u \in Seeds, Writing(t)', Writing(u)',
                        NEW i \in agreed'[t]
                 PROVE  target[t][i] = target[u][i]
        BY <1>3 DEF AgreedRight
    <2>1. CASE t = s /\ u = s
        BY <2>1
    <2>2. CASE t = s /\ u # s
        BY <2>2, <1>2, <1>6 DEF Same
    <2>3. CASE t # s /\ u = s
        BY <2>3, <1>2, <1>7 DEF Same
    <2>4. CASE t # s /\ u # s
        BY <2>4, <1>2, <1>7 DEF AgreedRight
    <2> QED BY <2>1, <2>2, <2>3, <2>4
<1>11. OnItsWay'
    <2> SUFFICES ASSUME NEW t \in Seeds, Writing(t)', NEW i \in agreed'[t]
                 PROVE  table[i] = target[t][i] \/ i \in upserts'[t] \/ i \in removed'[t]
        BY <1>3 DEF OnItsWay
    <2>1. CASE t = s
        BY <2>1, <1>4, <1>6 DEF Changed, Gone
    <2>2. CASE t # s
        BY <2>2, <1>2, <1>5, <1>7 DEF OnItsWay
    <2> QED BY <2>1, <2>2
<1> QED BY <1>1, <1>8, <1>9, <1>10, <1>11

\* A statement writes rows of its job's file; whoever agrees with the job on
\* one of them has it written.
LEMMA WriteKeeps ==
    ASSUME SeedInv, NEW s \in Seeds, InsertOrReplace(s) \/ Delete(s)
    PROVE  SeedInv'
<1> USE DEF SeedInv, SyncTypeOK
<1>1. PICK b \in SUBSET Ids :
        /\ \A i \in Ids : table'[i] = IF i \in b THEN target[s][i] ELSE table[i]
        /\ upserts'[s] = upserts[s] \ b /\ removed'[s] = removed[s] \ b
    <2>1. CASE InsertOrReplace(s)
        <3>1. PICK b \in Batches(upserts[s]) :
                /\ table' = [i \in Ids |-> IF i \in b THEN target[s][i] ELSE table[i]]
                /\ upserts' = [upserts EXCEPT ![s] = @ \ b]
            BY <2>1 DEF InsertOrReplace
        <3>2. b \subseteq upserts[s] /\ removed' = removed
            BY <2>1, BatchWithin DEF InsertOrReplace
        <3>3. b \cap removed[s] = {}
            BY <3>2 DEF PlanRight
        <3>4. b \in SUBSET Ids /\ upserts'[s] = upserts[s] \ b /\ removed'[s] = removed[s] \ b
            BY <3>1, <3>2, <3>3
        <3> QED BY <3>1, <3>4
    <2>2. CASE Delete(s)
        <3>1. PICK b \in Batches(removed[s]) :
                /\ table' = [i \in Ids |-> IF i \in b THEN NoRow ELSE table[i]]
                /\ removed' = [removed EXCEPT ![s] = @ \ b]
            BY <2>2 DEF Delete
        <3>2. b \subseteq removed[s] /\ upserts' = upserts /\ upserts[s] = {}
            BY <2>2, BatchWithin DEF Delete
        <3>3. \A i \in b : target[s][i] = NoRow
            BY <3>2 DEF PlanRight
        <3>4. b \in SUBSET Ids /\ upserts'[s] = upserts[s] \ b /\ removed'[s] = removed[s] \ b
            BY <3>1, <3>2
        <3> QED BY <3>1, <3>3, <3>4
    <2> QED BY <2>1, <2>2
<1>2. /\ Writing(s) /\ step' = step /\ target' = target /\ agreed' = agreed
      /\ \A t \in Seeds \ {s} : upserts'[t] = upserts[t] /\ removed'[t] = removed[t]
    BY DEF InsertOrReplace, Delete
<1>3. \A t \in Seeds : Writing(t)' <=> Writing(t)
    BY <1>2 DEF Writing
<1>4. SyncTypeOK'
    <2>1. /\ table' = [i \in Ids |-> table'[i]]
          /\ upserts' = [t \in Seeds |-> upserts'[t]] /\ removed' = [t \in Seeds |-> removed'[t]]
        BY DEF InsertOrReplace, Delete
    <2>2. table' \in Tables
        <3>1. \A i \in Ids : target[s][i] \in Contents \cup {NoRow} /\ table[i] \in Contents \cup {NoRow}
            BY DEF Tables
        <3> QED BY <2>1, <3>1, <1>1 DEF Tables
    <2>3. \A t \in Seeds : upserts'[t] \subseteq Ids /\ removed'[t] \subseteq Ids
        BY <1>1, <1>2
    <2> QED BY <1>2, <2>1, <2>2, <2>3
<1>5. IdleEmpty'
    BY <1>2, <1>3 DEF IdleEmpty
<1>6. PlanRight'
    BY <1>1, <1>2 DEF PlanRight
<1>7. AgreedRight'
    BY <1>2, <1>3 DEF AgreedRight
<1>8. OnItsWay'
    <2> SUFFICES ASSUME NEW t \in Seeds, Writing(t), NEW i \in agreed[t]
                 PROVE  table'[i] = target[t][i] \/ i \in upserts'[t] \/ i \in removed'[t]
        BY <1>2, <1>3 DEF OnItsWay
    <2>1. i \in Ids
        OBVIOUS
    <2>2. CASE i \in b
        BY <2>1, <2>2, <1>1, <1>2 DEF AgreedRight
    <2>3. CASE i \notin b
        BY <2>1, <2>3, <1>1, <1>2 DEF OnItsWay
    <2> QED BY <2>2, <2>3
<1> QED BY <1>4, <1>5, <1>6, <1>7, <1>8

\* A job that leaves takes nothing along, done or broken off.
LEMMA LeaveKeeps == ASSUME SeedInv, NEW s \in Seeds, Leave(s) PROVE SeedInv'
<1> USE DEF SeedInv, SyncTypeOK, Writing
<1>1. SyncTypeOK'
    BY DEF Leave, Tables
<1>2. IdleEmpty' /\ PlanRight'
    BY DEF IdleEmpty, PlanRight, Leave
<1>3. AgreedRight' /\ OnItsWay'
    BY DEF AgreedRight, OnItsWay, Leave
<1> QED BY <1>1, <1>2, <1>3

\* Every step keeps the invariant.
LEMMA SeedInvStep == SeedInv /\ [SyncNext]_sync => SeedInv'
<1> SUFFICES ASSUME SeedInv, [SyncNext]_sync PROVE SeedInv'
    OBVIOUS
<1>1. CASE UNCHANGED sync
    BY <1>1 DEF sync, SeedInv, SyncTypeOK, IdleEmpty, PlanRight, AgreedRight, OnItsWay, Writing
<1>2. ASSUME NEW s \in Seeds, NEW file \in Tables, Trigger(s, file) PROVE SeedInv'
    BY <1>2, TriggerKeeps
<1>3. ASSUME NEW s \in Seeds, ReadTable(s) PROVE SeedInv'
    BY <1>3, ReadTableKeeps
<1>4. ASSUME NEW s \in Seeds, InsertOrReplace(s) \/ Delete(s) PROVE SeedInv'
    BY <1>4, WriteKeeps
<1>5. ASSUME NEW s \in Seeds, Succeed(s) \/ Break(s) PROVE SeedInv'
    BY <1>5, LeaveKeeps DEF Succeed, Break
<1> QED BY <1>1, <1>2, <1>3, <1>4, <1>5 DEF SyncNext

\* A job that has nothing left to send has brought the rows it agrees on with
\* every job it met in line with its file (SeededRight).
THEOREM SeedsRight == SyncSpec => []SeededRight
<1>1. SeedInv => SeededRight
    BY DEF SeedInv, OnItsWay, SeededRight, Done
<1> QED BY <1>1, SeedInvInit, SeedInvStep, PTL DEF SyncSpec

----
(***************************************************************************)
(* All of them.                                                            *)
(***************************************************************************)

\* The core run takes the steps of one part at a time and leaves the others alone: whatever
\* holds of a part in every behaviour of its own holds in the core run.
LEMMA EachOnItsOwn ==
    Spec => /\ BlocksSpec /\ FormationSpec /\ GatewaySpec /\ JourneysSpec /\ NearbySpec
            /\ ParitySpec /\ ProbeHostSpec /\ SyncSpec /\ TrainsSpec
  <1>1. Init => /\ BlocksInit /\ FormationInit /\ GatewayInit /\ JourneysInit /\ NearbyInit
                /\ ParityInit /\ ProbeHostInit /\ SyncInit /\ TrainsInit
    BY DEF Init
  <1>2. ASSUME [Next]_vars
        PROVE  /\ [BlocksNext]_blocks /\ [FormationNext]_formation /\ [GatewayNext]_gateway
               /\ [JourneysNext]_board /\ [NearbyNext]_nearby /\ [ParityNext]_parity
               /\ [ProbeHostNext]_probes /\ [SyncNext]_sync /\ [TrainsNext]_trains
    <2>1. CASE Run("Blocks") /\ BlocksNext /\ UNCHANGED <<formation, gateway, board, nearby, parity, probes, sync, trains>>
      BY <2>1
    <2>2. CASE Run("Formation") /\ FormationNext /\ UNCHANGED <<blocks, gateway, board, nearby, parity, probes, sync, trains>>
      BY <2>2
    <2>3. CASE Run("Gateway") /\ GatewayNext /\ UNCHANGED <<blocks, formation, board, nearby, parity, probes, sync, trains>>
      BY <2>3
    <2>4. CASE Run("Journeys") /\ JourneysNext /\ UNCHANGED <<blocks, formation, gateway, nearby, parity, probes, sync, trains>>
      BY <2>4
    <2>5. CASE Run("Nearby") /\ NearbyNext /\ UNCHANGED <<blocks, formation, gateway, board, parity, probes, sync, trains>>
      BY <2>5
    <2>6. CASE Run("Parity") /\ ParityNext /\ UNCHANGED <<blocks, formation, gateway, board, nearby, probes, sync, trains>>
      BY <2>6
    <2>7. CASE Run("ProbeHost") /\ ProbeHostNext /\ UNCHANGED <<blocks, formation, gateway, board, nearby, parity, sync, trains>>
      BY <2>7
    <2>8. CASE Run("Sync") /\ SyncNext /\ UNCHANGED <<blocks, formation, gateway, board, nearby, parity, probes, trains>>
      BY <2>8
    <2>9. CASE Run("Trains") /\ TrainsNext /\ UNCHANGED <<blocks, formation, gateway, board, nearby, parity, probes, sync>>
      BY <2>9
    <2>10. CASE UNCHANGED vars
      BY <2>10 DEF vars
    <2> QED
      BY <1>2, <2>1, <2>2, <2>3, <2>4, <2>5, <2>6, <2>7, <2>8, <2>9, <2>10 DEF Next
  <1> QED
    BY <1>1, <1>2, PTL DEF Spec, BlocksSpec, FormationSpec, GatewaySpec, JourneysSpec,
       NearbySpec, ParitySpec, ProbeHostSpec, SyncSpec, TrainsSpec

\* Whatever part runs, and for however many results, cars, journeys, stations, hosts and jobs,
\* what the code works on is what it takes it for.
THEOREM CoreTyped == Spec => []TypeOK
  <1>1. /\ GatewayInv => GatewayTypeOK
        /\ JourneysInv => JourneysTypeOK
        /\ NearbyInv => NearbyTypeOK
        /\ ParityInv => ParityTypeOK
        /\ ProbeHostInv => ProbeHostTypeOK
        /\ SeedInv => SyncTypeOK
        /\ TrainsInv => TrainsTypeOK
    BY DEF GatewayInv, JourneysInv, NearbyInv, ParityInv, ProbeHostInv, SeedInv, TrainsInv
  <1>2. ParitySpec => []ParityInv
    BY ParityStarts, ParityGoesOn, PTL DEF ParitySpec
  <1>3. ProbeHostSpec => []ProbeHostInv
    BY ProbeHostStarts, ProbeHostGoesOn, PTL DEF ProbeHostSpec
  <1>4. SyncSpec => []SeedInv
    BY SeedInvInit, SeedInvStep, PTL DEF SyncSpec
  <1>5. TrainsSpec => []TrainsInv
    BY TrainsStart, TrainsGoOn, PTL DEF TrainsSpec
  <1>6. /\ BlocksTypeOK /\ FormationTypeOK /\ GatewayTypeOK /\ JourneysTypeOK
        /\ NearbyTypeOK /\ ParityTypeOK /\ ProbeHostTypeOK /\ SyncTypeOK /\ TrainsTypeOK
        => TypeOK
    BY DEF TypeOK
  <1> QED
    BY <1>1, <1>2, <1>3, <1>4, <1>5, <1>6, EachOnItsOwn, BlocksTyped, FormationTypeCorrect,
       GatewayHolds, JourneysHolds, NearbyHolds, PTL

\* What is proved of the parts holds side by side: the checks of the core run are true of all
\* answers, boards, hosts, requests and seed files, not only of those TLC goes through.
THEOREM CoreRight ==
    Spec => [](/\ EventRead /\ PassageRight /\ BoardRight /\ NextOfEach /\ NearestKept
               /\ EmbeddedRight /\ ParityRight /\ HostsJudgedRight /\ SeededRight
               /\ RotationSafe /\ SameDoor /\ OwnAnswer)
  <1> QED
    BY EachOnItsOwn, EventIsRead, PassageIsRight, BoardIsRight, FavouritesAreNext, KeepsNearest,
       EmbedsTheRight, ParityIsRight, SecondAttemptCounts, SeedsRight, KeysRotate, DoorsAgree,
       AnswersItsOwn, PTL

====
