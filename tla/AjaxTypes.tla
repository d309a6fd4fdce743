----------------------------- MODULE AjaxTypes -----------------------------
(* How the data of an ajax request comes to have the type that was asked for:     *)
(* prefilters and choice of the transport (jquery.js 6100-6180, 7026-7143),        *)
(* mediation between the content type and the data types (6874-6937), and the      *)
(* chain of conversions (6939-7022).                                             *)
EXTENDS Integers, Sequences, SequencesExt, FiniteSets

CONSTANTS Asked,         \* lists of data types that requests ask for
          ContentTypes,  \* what servers say; a content type is the set of the patterns it matches
          AnyType        \* the data type "*"

VARIABLES pc,
          request,       \* crossDomain, jsonp asked for, cors in the browser, the answer
          dataTypes,     \* of the request, first the one at hand
          global,        \* global events are triggered
          transport,     \* "none", "xhr" or "script"
          data           \* what success is called with: its type, and whether a converter got what it is not for

vars == <<pc, request, dataTypes, global, transport, data>>

NoData == [type |-> "none", misfit |-> FALSE]

Init ==
    /\ dataTypes \in Asked
    /\ request \in [crossDomain : BOOLEAN, jsonp : BOOLEAN, cors : BOOLEAN, xml : BOOLEAN, parses : BOOLEAN,
                    contentType : ContentTypes, asked : {dataTypes}]
    /\ global = TRUE /\ transport = "none" /\ data = NoData /\ pc = "prefilter"

-----------------------------------------------------------------------------
(* Prefilters: json and jsonp may be redirected to script, whose own runs then.     *)

JsonpApplies(types) == Head(types) = "jsonp" \/ (Head(types) = "json" /\ request.jsonp)

Redirected(types) == IF JsonpApplies(types) THEN <<"script", "json">> \o Tail(types) ELSE types

Prefilter ==
    /\ pc = "prefilter"
    /\ dataTypes' = Redirected(dataTypes)
    /\ global' = ~(Head(dataTypes') = "script" /\ request.crossDomain)
    /\ pc' = "transport"
    /\ UNCHANGED <<request, transport, data>>

\* The transports of the first data type are tried, then those of "*".
Transports(type) ==
    IF type = "script" /\ request.crossDomain THEN "script"
    ELSE IF ~request.crossDomain \/ request.cors THEN "xhr"
    ELSE "none"

ChooseTransport ==
    /\ pc = "transport"
    /\ transport' = Transports(Head(dataTypes))
    /\ pc' = IF transport' = "none" THEN "failed"
             ELSE IF transport' = "script" THEN "convert" ELSE "answer"
    /\ data' = IF transport' = "script" THEN [NoData EXCEPT !.type = "script"] ELSE data
    /\ UNCHANGED <<request, dataTypes, global>>

-----------------------------------------------------------------------------
(* The answer of an XMLHttpRequest: its text, and a document if it is xml.          *)

Responses == IF request.xml THEN <<"xml", "text">> ELSE <<"text">>

Contents == <<"xml", "html", "json", "script">>

First(seq, Test(_)) == LET found == SelectSeq(seq, Test) IN IF found = <<>> THEN <<>> ELSE <<Head(found)>>

Converter(from, to, same) == [from |-> from, to |-> to, same |-> same]

Converters ==
    << Converter(AnyType, "text", FALSE), Converter("text", "html", TRUE), Converter("text", "json", FALSE),
       Converter("text", "xml", FALSE), Converter("text", "script", FALSE) >>
    \o IF JsonpApplies(request.asked) THEN <<Converter("script", "json", FALSE)>> ELSE <<>>

Has(from, to) == \E n \in DOMAIN Converters : Converters[n].from = from /\ Converters[n].to = to

\* Leading "*" give way to the type that the content type tells.
Known ==
    LET auto == SelectInSeq(dataTypes, LAMBDA type : type # AnyType)
        left == IF auto = 0 THEN <<>> ELSE SubSeq(dataTypes, auto, Len(dataTypes))
        told == First(Contents, LAMBDA type : type \in request.contentType)
    IN  IF Head(dataTypes) = AnyType THEN told \o left ELSE left

\* The response for the type, or else one that converts to it, or else the first.
Chosen(types) ==
    IF types # <<>> /\ Contains(Responses, Head(types)) THEN Head(types)
    ELSE LET fits == First(Responses, LAMBDA type : types = <<>> \/ Has(type, Head(types)))
         IN  IF fits = <<>> THEN Head(Responses) ELSE Head(fits)

HandleResponses ==
    /\ pc = "answer"
    /\ LET types == Known
           final == Chosen(types)
       IN  /\ dataTypes' = IF types # <<>> /\ Head(types) = final THEN types ELSE <<final>> \o types
           /\ data' = [NoData EXCEPT !.type = final]
    /\ pc' = "convert"
    /\ UNCHANGED <<request, global, transport>>

-----------------------------------------------------------------------------
(* Conversions along the data types, by one converter or by two.                   *)

\* The converters for a step: one, two over a third type, or none.
Direct(from, to) ==
    LET exact == First(Converters, LAMBDA c : c.from = from /\ c.to = to)
    IN  IF exact # <<>> THEN exact ELSE First(Converters, LAMBDA c : c.from = AnyType /\ c.to = to)

Via(from, to) ==
    LET one == First(Converters, LAMBDA c : c.from \in {from, AnyType} /\ Has(c.to, to))
    IN  IF one = <<>> THEN <<>>
        ELSE one \o First(Converters, LAMBDA c : c.from = one[1].to /\ c.to = to)

DirectOnly(from, to) == Direct(from, to)   \* mutant: never over a third type

Chain(from, to) == IF Direct(from, to) # <<>> THEN Direct(from, to) ELSE Via(from, to)

\* A converter that parses its input may throw.
Applied(value, c) ==
    IF value.type = "failed" \/ (~c.same /\ c.to # "text" /\ ~request.parses)
    THEN [value EXCEPT !.type = "failed"]
    ELSE [type |-> c.to, misfit |-> value.misfit \/ c.from \notin {AnyType, value.type}]

Step(value, to) ==
    IF value.type \in {"failed", to} \/ to = AnyType THEN value
    ELSE LET chain == Chain(value.type, to)
         IN  IF chain = <<>> THEN [value EXCEPT !.type = "failed"] ELSE FoldLeft(Applied, value, chain)

Convert ==
    /\ pc = "convert"
    /\ data' = FoldLeft(Step, data, Tail(dataTypes))
    /\ pc' = IF data'.type = "failed" THEN "failed" ELSE "success"
    /\ UNCHANGED <<request, dataTypes, global, transport>>

-----------------------------------------------------------------------------

Next == Prefilter \/ ChooseTransport \/ HandleResponses \/ Convert

Spec == Init /\ [][Next]_vars

-----------------------------------------------------------------------------
(* Properties.                                                                 *)

RealTypes == SelectSeq(request.asked, LAMBDA type : type # AnyType)

\* What success is called with is of the last type that was asked for (jsonp gives
\* json), whatever the server said and whichever transport brought it, and no converter was
\* given what it does not convert.
TypeDelivered ==
    pc = "success" =>
        /\ ~data.misfit
        /\ RealTypes # <<>> => data.type = (IF Last(RealTypes) = "jsonp" THEN "json" ELSE Last(RealTypes))

\* A request that leaves the choice to the server gets what the server says it is.
ServerDecides ==
    pc = "success" /\ RealTypes = <<>> /\ request.contentType # {} => data.type \in request.contentType

\* An answer is refused only if it cannot be parsed, or nothing converts any of its
\* forms to what was asked for.
FailsForCause ==
    LET Step1(from) == {c.to : c \in {d \in ToSet(Converters) : d.from \in {from, AnyType}}}
        Within2(from) == {from} \union Step1(from) \union UNION {Step1(t) : t \in Step1(from)}
    IN  pc = "failed" /\ transport # "none" /\ request.parses =>
            transport = "xhr" /\ \A type \in ToSet(Responses) : Last(RealTypes) \notin Within2(type)
=============================================================================
