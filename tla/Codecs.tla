------------------------------- MODULE Codecs -------------------------------
(***************************************************************************)
(* The JSON conversions of types.go that are written by hand: decoding and *)
(* encoding of a TuningTarget, decoding of a DurationSecs, and what        *)
(* becomes of seconds in a time.Duration, whose integers have a width.     *)
(*                                                                         *)
(* A JSON text is modelled by what the decoders can tell apart in it; a    *)
(* wattage, a hash rate or the name of a mode is a value without parts.    *)
(***************************************************************************)
EXTENDS Integers

CONSTANTS
  Watts, ZeroWatts,     \* the values of a Power, and that of a float64 never set
  HashRates, ZeroRate,  \* the values of a HashRate, and the one never set
  Modes, NoMode,        \* the names of modes, and the empty string
  Nil,                  \* the nil pointer
  Nothing,              \* no text, no target
  Absent, Null, Bad,    \* what a JSON object may have for a value: none, null, a wrong one
  Half,                 \* 2^63, half the range of a 64-bit integer
  Second                \* the nanoseconds in a second

Tag == {"Power", "HashRate", "MiningMode"}

Value(tag) ==
  CASE tag = "Power" -> Watts
    [] tag = "HashRate" -> HashRates
    [] tag = "MiningMode" -> Modes

Zero(tag) ==
  CASE tag = "Power" -> ZeroWatts
    [] tag = "HashRate" -> ZeroRate
    [] tag = "MiningMode" -> NoMode

ASSUME ValueAssumption ==
  /\ \A tag \in Tag : Zero(tag) \in Value(tag)
  /\ \A tag \in Tag : {Nil, Absent, Null, Bad} \cap Value(tag) = {}
  /\ Bad \notin {Absent, Null} /\ Absent # Null

ASSUME WidthAssumption ==
  /\ Half \in Nat /\ Second \in Nat \ {0}
  /\ Second < Half

-----------------------------------------------------------------------------
(* Texts: an object with some of the three tags, a string, null, or        *)
(* anything else.  A string keeps its value where that of a mode would be. *)

AnyValue == Watts \cup HashRates \cup Modes

Field == {f \in [Tag -> AnyValue \cup {Absent, Null, Bad}] :
            \A tag \in Tag : f[tag] \in Value(tag) \cup {Absent, Null, Bad}}

Text == {text \in [shape : {"object", "string", "null", "other"}, field : Field] :
           text.shape = "string" => text.field["MiningMode"] \in Modes}

\* What a text may stand for: a variant and its value.
Meaning == {<<tag, v>> : tag \in Tag, v \in AnyValue}

ASSUME NothingAssumption == Nothing \notin Text \cup Meaning

Empty == [tag \in Tag |-> Absent]

Object(tag, payload) ==
  [shape |-> "object", field |-> [Empty EXCEPT ![tag] = payload]]

Has(text, tag) == text.shape = "object" /\ text.field[tag] # Absent

\* Mutant: a null is kept as if it were a value.
FilledWithNull(tag, payload) == payload

\* A null where a value should be leaves the zero value.
Filled(tag, payload) == IF payload = Null THEN Zero(tag) ELSE payload

\* An object that gives one tag a value, and has no other.
Names(text, tag) ==
  /\ text.shape = "object" /\ text.field[tag] \in Value(tag)
  /\ \A other \in Tag \ {tag} : ~Has(text, other)

\* The target a text stands for, if it stands for one: the externally tagged
\* enum of Rust, or the bare name of a mode.  A tag whose value is null names no
\* target, whatever the decoder makes of it.
Says(text) ==
  IF text.shape = "string" THEN <<"MiningMode", text.field["MiningMode"]>>
  ELSE IF \E tag \in Tag : Names(text, tag)
         THEN LET tag == CHOOSE tag \in Tag : Names(text, tag)
              IN  <<tag, text.field[tag]>>
         ELSE Nothing

-----------------------------------------------------------------------------
(* TuningTarget.  A variable keeps the values of variants it does not hold *)
(* at the moment.                                                          *)

Target == [kind : Tag \cup {"none"},
           value : {v \in [Tag -> AnyValue \cup {Nil}] :
                      \A tag \in Tag : v[tag] \in Value(tag) \cup {Nil}},
           raw : Text \cup {Nothing}]

Fresh == [kind |-> "none", value |-> [tag \in Tag |-> Nil], raw |-> Nothing]

Failed(t) == [ok |-> FALSE, var |-> t]

Stored(t, tag, v) ==
  [ok |-> TRUE, var |-> [t EXCEPT !.kind = tag, !.value = [@ EXCEPT ![tag] = v]]]

\* The first tag that is there decides, and is stored before its value is read.
TagOf(text) ==
  IF Has(text, "Power") THEN "Power"
  ELSE IF Has(text, "HashRate") THEN "HashRate"
  ELSE IF Has(text, "MiningMode") THEN "MiningMode"
  ELSE "none"

\* Mutant: a variable that has a kind keeps it.
DecodeKeepingKind(t, text) ==
  LET u == [t EXCEPT !.raw = text]
      tag == TagOf(text)
      kind == IF t.kind = "none" THEN tag ELSE t.kind
  IN  IF text.shape = "string" THEN Stored(u, "MiningMode", text.field["MiningMode"])
      ELSE IF tag = "none" THEN Failed(u)
      ELSE IF text.field[tag] = Bad THEN Failed([u EXCEPT !.kind = kind])
      ELSE [ok |-> TRUE, var |-> [Stored(u, tag, Filled(tag, text.field[tag])).var
                                    EXCEPT !.kind = kind]]

\* TuningTarget.UnmarshalJSON.
Decode(t, text) ==
  LET u == [t EXCEPT !.raw = text]
      tag == TagOf(text)
  IN  IF text.shape = "string" THEN Stored(u, "MiningMode", text.field["MiningMode"])
      ELSE IF tag = "none" THEN Failed(u)
      ELSE IF text.field[tag] = Bad THEN Failed([u EXCEPT !.kind = tag])
      ELSE Stored(u, tag, Filled(tag, text.field[tag]))

\* TuningTarget.MarshalJSON; Nothing is its error.
Encode(t) ==
  IF t.kind = "none" THEN t.raw
  ELSE Object(t.kind,
         IF t.value[t.kind] # Nil THEN t.value[t.kind]
         ELSE IF t.kind = "HashRate" THEN Null ELSE Zero(t.kind))

\* serde's reading of a TuningTarget: one tag, and a value.  Some values asic-rs
\* may still refuse, which is no different from a request it cannot send.
Parse(text) == IF text.shape = "object" THEN Says(text) ELSE Nothing

-----------------------------------------------------------------------------
(* Times.                                                                  *)

\* What 64 bits keep of an integer, read with a sign.
Signed(n) == ((n + Half) % (2 * Half)) - Half

Secs == 0 .. 2 * Half - 1

Uptime == [secs : Secs, nanos : 0 .. Second - 1]

ASSUME NilAssumption == Nil \notin Target \cup Uptime

\* An object has both fields, as serde writes them; a bare number has its value
\* in secs; a bad text is neither.
UptimeText == [form : {"object", "bare", "null", "bad"}, secs : Secs, nanos : 0 .. Second - 1]

\* Mutant: a bare number leaves the fraction of an earlier value.
DecodeUptimeKeepingNanos(u, text) ==
  CASE text.form = "bad" -> Failed(u)
    [] text.form = "null" -> [ok |-> TRUE, var |-> Nil]
    [] text.form = "bare" ->
         [ok |-> TRUE, var |-> [secs |-> text.secs, nanos |-> IF u = Nil THEN 0 ELSE u.nanos]]
    [] text.form = "object" ->
         [ok |-> TRUE, var |-> [secs |-> text.secs, nanos |-> text.nanos]]

\* DurationSecs.UnmarshalJSON behind a pointer, which null makes nil and anything
\* else makes point to a value.
DecodeUptime(u, text) ==
  CASE text.form = "bad" -> Failed(IF u = Nil THEN [secs |-> 0, nanos |-> 0] ELSE u)
    [] text.form = "null" -> [ok |-> TRUE, var |-> Nil]
    [] text.form = "bare" ->
         [ok |-> TRUE, var |-> [secs |-> text.secs, nanos |-> 0]]
    [] text.form = "object" ->
         [ok |-> TRUE, var |-> [secs |-> text.secs, nanos |-> text.nanos]]

\* DurationSecs.Duration, in nanoseconds.
Duration(u) == Signed(Signed(Signed(u.secs) * Second) + u.nanos)

\* GetUptime, from the seconds that the library returns.
UptimeOf(secs) == Signed(Signed(secs) * Second)
=============================================================================
