---- MODULE MCCore ----
(***************************************************************************)
(* These parts share no state: a behaviour runs one of them.               *)
(***************************************************************************)
EXTENDS Blocks, Formation, Gateway, Journeys, Nearby, Parity, ProbeHost, Sync, Trains

CONSTANTS A, j1, j2, l1, l2, k1, k2, q1, q2, i1, i2, r1, r2, s1, s2, u1, u2, p1

\* The journeys run on different lines; rows without a journey on either.
MCLineOf == (j1 :> l1) @@ (j2 :> l2)

\* Texts of clients.  Train 1 at the stop 22 and train 12 at the stop 2 differ
\* in the place of a colon alone; the last of each set has one of its own.
MCEvuTexts == {<<"SBBP">>, <<"BLSP">>, <<"SBBP", ":", "mo">>}
MCDateTexts == {<<"mo">>, <<"tu">>, <<"mo", ":", "1">>}
MCTrainTexts == {<<"1">>, <<"1", "2">>, <<"1", ":", "2">>}
MCStopTexts == {<<"2">>, <<"2", "2">>, <<"all">>, <<"2", ":", "2">>}
MCPieces == {"SBBP", "BLSP", "mo", "tu", "1", "2", "all", ":"}
MCEvus == {<<"SBBP">>, <<"BLSP">>}
MCDates == {<<"mo">>, <<"tu">>}
MCNumbers == {<<"1">>, <<"1", "2">>}
MCSBB == <<"SBBP">>
MCAll == <<"all">>
MCStopOf == (<<"2">> :> u1) @@ (<<"2", "2">> :> u2) @@ (<<"all">> :> NoStop) @@ (<<"2", ":", "2">> :> NoStop)

\* One operator that is mapped and one that is not.
MCEvuOf == ("33" :> <<"BLSP">>) @@ ("74" :> Missing)

\* The first settings name a single key.
MCFirst == [list |-> <<k1>>, single |-> Absent, complete |-> TRUE]

VARIABLE part \* the part that runs

vars == <<part, blocks, formation, gateway, board, nearby, parity, probes, sync, trains>>

Init ==
    /\ part = "none"
    /\ BlocksInit /\ FormationInit /\ GatewayInit /\ JourneysInit
    /\ NearbyInit /\ ParityInit /\ ProbeHostInit /\ SyncInit /\ TrainsInit

\* The first step chooses the part.
Run(name) == part \in {"none", name} /\ part' = name

Next ==
    \/ Run("Blocks") /\ BlocksNext /\ UNCHANGED <<formation, gateway, board, nearby, parity, probes, sync, trains>>
    \/ Run("Formation") /\ FormationNext /\ UNCHANGED <<blocks, gateway, board, nearby, parity, probes, sync, trains>>
    \/ Run("Gateway") /\ GatewayNext /\ UNCHANGED <<blocks, formation, board, nearby, parity, probes, sync, trains>>
    \/ Run("Journeys") /\ JourneysNext /\ UNCHANGED <<blocks, formation, gateway, nearby, parity, probes, sync, trains>>
    \/ Run("Nearby") /\ NearbyNext /\ UNCHANGED <<blocks, formation, gateway, board, parity, probes, sync, trains>>
    \/ Run("Parity") /\ ParityNext /\ UNCHANGED <<blocks, formation, gateway, board, nearby, probes, sync, trains>>
    \/ Run("ProbeHost") /\ ProbeHostNext /\ UNCHANGED <<blocks, formation, gateway, board, nearby, parity, sync, trains>>
    \/ Run("Sync") /\ SyncNext /\ UNCHANGED <<blocks, formation, gateway, board, nearby, parity, probes, trains>>
    \/ Run("Trains") /\ TrainsNext /\ UNCHANGED <<blocks, formation, gateway, board, nearby, parity, probes, sync>>

Spec == Init /\ [][Next]_vars

\* What the parts work on is well-formed at every step.
TypeOK ==
    /\ BlocksTypeOK /\ FormationTypeOK /\ GatewayTypeOK /\ JourneysTypeOK
    /\ NearbyTypeOK /\ ParityTypeOK /\ ProbeHostTypeOK /\ SyncTypeOK /\ TrainsTypeOK

====
