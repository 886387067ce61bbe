---- MODULE Blocks ----
(***************************************************************************)
(* `parse_stop_events` of core/src/ojp.rs: how a row is cut out of the XML *)
(* answer by tag name, without a parser.                                   *)
(*                                                                         *)
(* A document is a sequence of tokens [kind, tag, means]: a tag that opens *)
(* or closes, or a leaf, which is both with a text between.  The text of a *)
(* leaf is what it stands for: <<n, call, what>> in the n-th result.       *)
(* Namespaces are left out, as the patterns allow any.                     *)
(***************************************************************************)
EXTENDS Integers, Sequences, FiniteSetsExt

CONSTANTS
    Lateness,   \* estimated less timetabled times, in quarters of a minute
    Quays,      \* the quays of a stop
    None,       \* an element that is missing
    MAX_RESULTS \* bound on the results of a document

Elements == {"StopEventResult", "StopEvent", "Service", "OperatingDayRef", "JourneyRef", "Mode",
             "Name", "ShortName", "PublishedServiceName", "OriginText", "DestinationText",
             "TrainNumber", "OperatorRef", "PreviousCall", "ThisCall", "OnwardCall", "CallAtStop", "StopPointName",
             "ServiceArrival", "ServiceDeparture", "TimetabledTime", "EstimatedTime",
             "PlannedQuay", "EstimatedQuay", "Text"}
Meanings  == Nat \X {"previous", "this", "onward", "service"}
                 \X {"stop", "arrival", "timetabled", "estimated", "planned", "estimatedQuay",
                     "day", "journey", "modeName", "category", "number", "origin", "to",
                     "train", "operator"}
Tokens    == [kind : {"open", "close", "leaf"}, tag : Elements, means : Meanings \cup {None}]
Documents == Seq(Tokens)

ASSUME BlocksAssumption ==
    /\ Lateness \subseteq Int /\ MAX_RESULTS \in Nat
    /\ None \notin Lateness \cup Quays \cup Meanings /\ None \notin Seq(Documents)

VARIABLES
    published, \* what upstream has to say, result by result
    document,  \* the XML of it
    results,   \* the blocks still to be read; None before parsing
    rows       \* `events`

blocks == <<published, document, results, rows>>
----
(* What upstream sends.                                                    *)

\* A departure: `arrives` if the train also arrives here, `passes` if its
\* other calls are listed too, `serviceFirst` if Service comes before the calls.
StopEvents == [serviceFirst : BOOLEAN, passes : BOOLEAN, arrives : BOOLEAN,
               late : Lateness \cup {None},
               planned : Quays \cup {None}, estimated : Quays \cup {None}]

\* A result that holds no service, only a call.
Incomplete == [incomplete |-> TRUE]

Open(tag)      == <<[kind |-> "open", tag |-> tag, means |-> None]>>
Close(tag)     == <<[kind |-> "close", tag |-> tag, means |-> None]>>
Leaf(tag, m)   == <<[kind |-> "leaf", tag |-> tag, means |-> m]>>
In(tag, inner) == Open(tag) \o inner \o Close(tag)
If(present, x) == IF present THEN x ELSE <<>>

\* A call of the n-th result: "this" one, or another one of the train.
Call(n, call, e) ==
    LET Text(tag, what) == In(tag, Leaf("Text", <<n, call, what>>))
        Time(tag, what) == Leaf(tag, <<n, call, what>>)
    IN  In("CallAtStop",
            Text("StopPointName", "stop")
            \o If(e.arrives, In("ServiceArrival", Time("TimetabledTime", "arrival")
                                                  \o Time("EstimatedTime", "arrival")))
            \o In("ServiceDeparture", Time("TimetabledTime", "timetabled")
                    \o If(e.late # None, Time("EstimatedTime", "estimated")))
            \o If(e.planned # None, Text("PlannedQuay", "planned"))
            \o If(e.estimated # None, Text("EstimatedQuay", "estimatedQuay")))

Service(n) ==
    LET Text(tag, what) == In(tag, Leaf("Text", <<n, "service", what>>))
    IN  In("Service",
            Leaf("OperatingDayRef", <<n, "service", "day">>)
            \o Leaf("JourneyRef", <<n, "service", "journey">>)
            \o In("Mode", Text("Name", "modeName") \o Text("ShortName", "category"))
            \o Text("PublishedServiceName", "number")
            \o Text("OriginText", "origin")
            \o Text("DestinationText", "to")
            \o Leaf("TrainNumber", <<n, "service", "train">>)
            \o Leaf("OperatorRef", <<n, "service", "operator">>))

Result(n, e) ==
    IF e = Incomplete THEN In("StopEventResult", In("StopEvent", Open("ServiceDeparture")
                                                      \o Close("ServiceDeparture")))
    ELSE LET calls == If(e.passes, In("PreviousCall", Call(n, "previous", e)))
                      \o In("ThisCall", Call(n, "this", e))
                      \o If(e.passes, In("OnwardCall", Call(n, "onward", e)))
         IN  In("StopEventResult", In("StopEvent",
                IF e.serviceFirst THEN Service(n) \o calls ELSE calls \o Service(n)))
----
(* xml_text, xml_blocks and xml_lang_text.                                 *)

\* The tags of a document whose name begins with another's.
BeginsWith(name, tag) ==
    \/ name = tag
    \/ tag = "Service" /\ name \in {"ServiceArrival", "ServiceDeparture"}
    \/ tag = "StopEvent" /\ name = "StopEventResult"

Opens(token, tag)  == token.kind # "close" /\ BeginsWith(token.tag, tag)
Closes(token, tag) == token.kind # "open" /\ token.tag = tag

\* Places in a document as a search finds them.
FromLeft(places) ==
    [n \in 1 .. Cardinality(places) |->
        CHOOSE i \in places : Cardinality({k \in places : k <= i}) = n]

\* From each place that opens to the first one after it that closes.
Between(xml, opening, closing) ==
    LET Ends(i) == {j \in closing : j >= i}
        starts  == FromLeft({i \in opening : Ends(i) # {}})
    IN  [n \in DOMAIN starts |-> SubSeq(xml, starts[n], Min(Ends(starts[n])))]

\* Deviation: the tag that closes is matched by the beginning of its name too.
BlocksOf_loose_end(xml, tag) ==
    Between(xml, {i \in 1 .. Len(xml) : Opens(xml[i], tag)},
                 {j \in 1 .. Len(xml) : xml[j].kind # "open" /\ BeginsWith(xml[j].tag, tag)})

\* `xml_blocks`: from every tag that opens to the first one that closes.
BlocksOf(xml, tag) ==
    Between(xml, {i \in 1 .. Len(xml) : Opens(xml[i], tag)},
                 {j \in 1 .. Len(xml) : Closes(xml[j], tag)})

\* `xml_text`: the first leaf of that very name.
TextOf(xml, tag) ==
    LET leaves == {i \in 1 .. Len(xml) : xml[i].kind = "leaf" /\ xml[i].tag = tag}
    IN  IF leaves = {} THEN None ELSE xml[Min(leaves)].means

\* The text in the first block of a tag.
LangTextOf(xml, tag) ==
    LET found == BlocksOf(xml, tag) IN IF found = <<>> THEN None ELSE TextOf(found[1], "Text")

FirstOr(xml, tag, otherwise) ==
    LET found == BlocksOf(xml, tag) IN IF found = <<>> THEN otherwise ELSE found[1]
----
BlocksTypeOK ==
    /\ published \in Seq(StopEvents \cup {Incomplete}) /\ Len(published) <= MAX_RESULTS
    /\ document \in Documents
    /\ results # None => results \in Seq(Documents) /\ Len(rows) + Len(results) <= Len(published)

BlocksInit ==
    /\ published = <<>>
    /\ document = <<>>
    /\ results = None
    /\ rows = <<>>

Publish(e) ==
    /\ results = None /\ Len(published) < MAX_RESULTS
    /\ published' = Append(published, e)
    /\ document' = document \o Result(Len(published) + 1, e)
    /\ UNCHANGED <<results, rows>>

\* The answer is complete: it is cut into results.
Cut ==
    /\ results = None
    /\ results' = BlocksOf(document, "StopEventResult")
    /\ UNCHANGED <<published, document, rows>>

\* `delay`: rounded to minutes, and kept if that is above zero.
Delay(late) == IF late >= 2 THEN (late + 2) \div 4 ELSE None

\* What the leaves of the n-th result say, where the code compares or reckons.
Late(m) == published[m[1]].late
Quay(m) == IF m[3] = "planned" THEN published[m[1]].planned ELSE published[m[1]].estimated

Row(event, service) ==
    LET this == BlocksOf(event, "ThisCall")
        call == IF this = <<>> THEN event ELSE FirstOr(this[1], "CallAtStop", this[1])
        dep  == FirstOr(call, "ServiceDeparture", call)
        planned   == LangTextOf(call, "PlannedQuay")
        estimated == LangTextOf(call, "EstimatedQuay")
        mode == BlocksOf(service, "Mode")
    IN  [to        |-> LangTextOf(service, "DestinationText"),
         category  |-> IF mode = <<>> THEN None ELSE LangTextOf(mode[1], "ShortName"),
         number    |-> LangTextOf(service, "PublishedServiceName"),
         trainNumber |-> TextOf(service, "TrainNumber"),
         operator  |-> TextOf(service, "OperatorRef"),
         journey   |-> <<TextOf(service, "OperatingDayRef"), TextOf(service, "JourneyRef")>>,
         departure |-> TextOf(dep, "TimetabledTime"),
         delay     |-> LET m == TextOf(dep, "EstimatedTime")
                       IN  IF m # None THEN Delay(Late(m)) ELSE None,
         platform  |-> IF estimated # None THEN estimated ELSE planned,
         platformChanged |-> estimated # None
                               /\ (planned = None \/ Quay(estimated) # Quay(planned))]

\* One round of the loop: a result without an event, or whose event has no
\* service, is passed over.
ReadResult ==
    /\ results # None /\ results # <<>>
    /\ results' = Tail(results)
    /\ LET events   == BlocksOf(results[1], "StopEvent")
           services == IF events = <<>> THEN <<>> ELSE BlocksOf(events[1], "Service")
       IN  rows' = IF services = <<>> THEN rows ELSE Append(rows, Row(events[1], services[1]))
    /\ UNCHANGED <<published, document>>

BlocksNext ==
    \/ \E e \in StopEvents \cup {Incomplete} : Publish(e)
    \/ Cut
    \/ ReadResult

BlocksSpec == BlocksInit /\ [][BlocksNext]_blocks
----
\* The row a reader of the n-th result would write down.
Told(n) ==
    LET e == published[n]
        Of(call, what) == <<n, call, what>>
    IN  [to        |-> Of("service", "to"),
         category  |-> Of("service", "category"),
         number    |-> Of("service", "number"),
         trainNumber |-> Of("service", "train"),
         operator  |-> Of("service", "operator"),
         journey   |-> <<Of("service", "day"), Of("service", "journey")>>,
         departure |-> Of("this", "timetabled"),
         delay     |-> IF e.late = None THEN None ELSE Delay(e.late),
         platform  |-> IF e.estimated # None THEN Of("this", "estimatedQuay")
                       ELSE IF e.planned # None THEN Of("this", "planned") ELSE None,
         platformChanged |-> e.estimated # None /\ e.estimated # e.planned]

\* Cutting by the beginning of a name never mixes things up: although `Service`
\* also matches the ServiceArrival of a call and `StopEvent` the result around
\* it (ojp.rs:95), each result that has a service gives one row, in order, made
\* of that result's service and of this call's departure - not of an arrival,
\* another call of the train, or a neighbouring result.
EventRead ==
    results = <<>> =>
        LET complete == FromLeft({n \in 1 .. Len(published) : published[n] # Incomplete})
        IN  rows = [i \in DOMAIN complete |-> Told(complete[i])]

====
