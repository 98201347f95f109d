----------------------------- MODULE JsonBuilders -----------------------------
(***************************************************************************)
(* The builders that JsonParser feeds: RecordCountBuilder,                 *)
(* BillableSizeBuilder, CostBuilder, DatasetRangeBuilder, SymbologyBuilder.*)
(* Each is a fold of its SAX callbacks over the events of a document.      *)
(* rapidjson is external: it turns the text of a document into events.     *)
(***************************************************************************)
EXTENDS Integers, SequencesExt

Event(kind) == [t |-> kind]
Key(k) == [t |-> "key", v |-> k]
Str(s) == [t |-> "string", v |-> s]
Num(n) == [t |-> "uint", v |-> n]

Ok(value) == [ok |-> TRUE, value |-> value]
Failed == [ok |-> FALSE]

-----------------------------------------------------------------------------
\* OnInt, OnUint, OnDouble of the three builders of a single number: the last
\* number wins; Build() fails without one.
NumberBuild(events) ==
    LET numbers == SelectSeq(events, LAMBDA e : e.t = "uint")
    IN  IF numbers = <<>> THEN Failed ELSE Ok(Last(numbers).v)

RangeStep(b, e) ==
    CASE e.t = "key" -> [b EXCEPT !.key = e.v]
      [] e.t = "string" /\ b.key \in {"start", "end"} -> [b EXCEPT ![b.key] = e.v]
      [] OTHER -> b

RangeBuild(events) ==
    LET b == FoldLeft(RangeStep, [key |-> "", start |-> "", end |-> ""], events)
    IN  IF b.start = "" \/ b.end = "" THEN Failed
        ELSE Ok([start |-> b.start, end |-> b.end])

-----------------------------------------------------------------------------
(***************************************************************************)
(* SymbologyBuilder.  result is kept as the sequence of its intervals, in  *)
(* the order they were saved.                                              *)
(***************************************************************************)
NoInterval == [d0 |-> "", d1 |-> "", s |-> ""]

SymbologyStart ==
    [state |-> "Root", key |-> "", symbol |-> "", interval |-> NoInterval,
     result |-> <<>>, partial |-> <<>>, not_found |-> <<>>]

OnKey(b, k) ==
    [b EXCEPT !.key = k, !.symbol = IF b.state = "InResult" THEN k ELSE @]

OnString(b, s) ==
    CASE b.state = "InInterval" /\ b.key \in {"d0", "d1", "s"} ->
            [b EXCEPT !.interval[b.key] = s]
      [] b.state = "InPartialArray" -> [b EXCEPT !.partial = Append(@, s)]
      [] b.state = "InNotFoundArray" -> [b EXCEPT !.not_found = Append(@, s)]
      [] OTHER -> b

OnUint(b, n) ==
    IF b.state = "InInterval" /\ b.key = "s"
    THEN [b EXCEPT !.interval.s = ToString(n)] ELSE b

OnStartObject(b) ==
    CASE b.state = "Root" /\ b.key = "result" -> [b EXCEPT !.state = "InResult"]
      [] b.state = "InSymbolArray" ->
            [b EXCEPT !.state = "InInterval", !.interval = NoInterval]
      [] OTHER -> b

\* An interval is saved if it has all three fields.
OnEndObject(b) ==
    CASE b.state = "InInterval" ->
            [b EXCEPT !.state = "InSymbolArray",
                      !.result = IF "" \in {b.interval.d0, b.interval.d1, b.interval.s}
                                 THEN @
                                 ELSE Append(@, [symbol |-> b.symbol,
                                                 interval |-> b.interval])]
      [] b.state = "InResult" -> [b EXCEPT !.state = "Root"]
      [] OTHER -> b

OnStartArray(b) ==
    CASE b.state = "Root" /\ b.key = "partial" -> [b EXCEPT !.state = "InPartialArray"]
      [] b.state = "Root" /\ b.key = "not_found" -> [b EXCEPT !.state = "InNotFoundArray"]
      [] b.state = "InResult" -> [b EXCEPT !.state = "InSymbolArray"]
      [] OTHER -> b

OnEndArray(b) ==
    CASE b.state = "InSymbolArray" -> [b EXCEPT !.state = "InResult"]
      [] b.state \in {"InPartialArray", "InNotFoundArray"} -> [b EXCEPT !.state = "Root"]
      [] OTHER -> b

\* SaxHandler.
SymbologyStep(b, e) ==
    CASE e.t = "key" -> OnKey(b, e.v)
      [] e.t = "string" -> OnString(b, e.v)
      [] e.t = "uint" -> OnUint(b, e.v)
      [] e.t = "{" -> OnStartObject(b)
      [] e.t = "}" -> OnEndObject(b)
      [] e.t = "[" -> OnStartArray(b)
      [] e.t = "]" -> OnEndArray(b)
      [] OTHER -> b

\* Build() always succeeds.
SymbologyBuild(events) ==
    LET b == FoldLeft(SymbologyStep, SymbologyStart, events)
    IN  Ok([result |-> b.result, partial |-> b.partial, not_found |-> b.not_found])

Build(builder, events) ==
    CASE builder = "number" -> NumberBuild(events)
      [] builder = "range" -> RangeBuild(events)
      [] OTHER -> SymbologyBuild(events)

-----------------------------------------------------------------------------
(***************************************************************************)
(* Documents, the events rapidjson reads off them, and what they say.      *)
(* A symbology document is a sequence of root fields.                      *)
(***************************************************************************)
Object(fields) == <<Event("{")>> \o FlattenSeq(fields) \o <<Event("}")>>
Array(items) == <<Event("[")>> \o FlattenSeq(items) \o <<Event("]")>>
Strings(names) == Array([i \in DOMAIN names |-> <<Str(names[i])>>])
Field(name, value) == <<Key(name)>> \o value

\* An interval lists its fields; an absent one is "", a number is a number.
IntervalEvents(fields) ==
    Object([i \in DOMAIN fields |->
              Field(fields[i].key, <<IF fields[i].key = "s" /\ fields[i].number
                                     THEN Num(fields[i].v) ELSE Str(fields[i].v)>>)])

SymbolEvents(entry) ==
    Field(entry.symbol,
          Array([i \in DOMAIN entry.intervals |-> IntervalEvents(entry.intervals[i])]))

SymbologyEvents(doc) ==
    Object(<<Field("result", Object([i \in DOMAIN doc.result |-> SymbolEvents(doc.result[i])])),
             Field("message", Strings(doc.message)),
             Field("partial", Strings(doc.partial)),
             Field("not_found", Strings(doc.not_found))>>)

RangeEvents(doc) == Object([i \in DOMAIN doc |-> Field(doc[i].key, <<Str(doc[i].v)>>)])

\* A number is its digits: the text of a shorter number is a prefix of it.
NumberOf(digits) == FoldLeft(LAMBDA n, d : 10 * n + d, 0, digits)

\* The units in which a document arrives: digits of a number, else events.
Units(builder, doc) ==
    CASE builder = "number" -> doc
      [] builder = "range" -> RangeEvents(doc)
      [] OTHER -> SymbologyEvents(doc)

\* rapidjson::Reader::Parse on the first n units: the events it raises, and
\* whether it accepts the text.  Every non-empty prefix of a number is one.
Parsed(builder, doc, n) ==
    IF builder = "number" THEN <<Num(NumberOf(SubSeq(doc, 1, n)))>>
    ELSE SubSeq(Units(builder, doc), 1, n)

Accepts(builder, doc, n) == builder = "number" \/ n = Len(Units(builder, doc))

-----------------------------------------------------------------------------
(***************************************************************************)
(* What a document says, read off its structure instead of its events.     *)
(***************************************************************************)
Values(fields, key) == {i \in DOMAIN fields : fields[i].key = key}

TextOf(fields, key) ==
    LET f == fields[CHOOSE i \in Values(fields, key) : \A j \in Values(fields, key) : j <= i]
    IN  IF key = "s" /\ f.number THEN ToString(f.v) ELSE f.v

HasAllFields(fields) == \A key \in {"d0", "d1", "s"} : Values(fields, key) # {}

SaidBySymbol(entry) ==
    LET whole == SelectSeq(entry.intervals, HasAllFields)
    IN  [i \in DOMAIN whole |->
            [symbol |-> entry.symbol,
             interval |-> [key \in {"d0", "d1", "s"} |-> TextOf(whole[i], key)]]]

Says(builder, doc) ==
    CASE builder = "number" -> NumberOf(doc)
      [] builder = "range" -> [key \in {"start", "end"} |-> TextOf(doc, key)]
      [] OTHER -> [result |-> FlattenSeq([i \in DOMAIN doc.result |-> SaidBySymbol(doc.result[i])]),
                   partial |-> doc.partial, not_found |-> doc.not_found]
=============================================================================
