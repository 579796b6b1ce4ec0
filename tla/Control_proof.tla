--------------------------- MODULE Control_proof ---------------------------
(***************************************************************************)
(* Proofs about Codecs and Control, for any values, any number of          *)
(* goroutines and calls, any replies and integers of any width.            *)
(***************************************************************************)
EXTENDS Control, TLAPS

-----------------------------------------------------------------------------
(* Codecs.                                                                 *)

\* A value is none of the sentinels, and a zero value is a value.
LEMMA Values ==
  ASSUME NEW tag \in Tag
  PROVE  /\ Zero(tag) \in Value(tag)
         /\ Nil \notin Value(tag) /\ Absent \notin Value(tag)
         /\ Null \notin Value(tag) /\ Bad \notin Value(tag)
BY ValueAssumption

\* The fields of a text.
LEMMA Fields ==
  ASSUME NEW text \in Text, NEW tag \in Tag
  PROVE  text.field[tag] \in Value(tag) \cup {Absent, Null, Bad}
BY DEF Text, Field

\* 64 bits keep what fits into them.
LEMMA SignedFits ==
  ASSUME NEW n \in Int, -Half <= n, n < Half
  PROVE  Signed(n) = n
<1>1. Half \in Nat
  BY WidthAssumption
<1>2. n + Half \in Nat /\ 2 * Half \in Nat \ {0} /\ n + Half < 2 * Half
  BY <1>1
<1>3. (n + Half) % (2 * Half) = n + Half
  BY <1>2
<1> QED
  BY <1>1, <1>3 DEF Signed

\* serde reads what Encode writes for a value.
LEMMA ParseObject ==
  ASSUME NEW tag \in Tag, NEW v \in Value(tag)
  PROVE  Parse(Object(tag, v)) = <<tag, v>>
<1> DEFINE text == Object(tag, v)
<1>1. /\ text.shape = "object" /\ text.field[tag] = v
      /\ \A other \in Tag \ {tag} : text.field[other] = Absent
  BY DEF Object, Empty
<1>2. v # Absent /\ v # Bad /\ v # Null
  BY Values
<1>3. Has(text, tag) /\ \A other \in Tag \ {tag} : ~Has(text, other)
  BY <1>1, <1>2 DEF Has
<1>4. Names(text, tag) /\ \A other \in Tag \ {tag} : ~Names(text, other)
  BY <1>1, <1>2, <1>3, Values DEF Names
<1>5. (CHOOSE k \in Tag : Names(text, k)) = tag
  BY <1>4
<1>6. Says(text) = <<tag, v>>
  BY <1>1, <1>4, <1>5 DEF Says
<1> QED
  BY <1>1, <1>6 DEF Parse

\* What Encode writes for a value is a text.
LEMMA ObjectIsText ==
  ASSUME NEW tag \in Tag, NEW v \in Value(tag) \cup {Null}
  PROVE  Object(tag, v) \in Text /\ Object(tag, v) # Nothing
<1>1. v \in AnyValue \cup {Absent, Null, Bad}
  BY DEF Value, AnyValue, Tag
<1>2. [Empty EXCEPT ![tag] = v] \in Field
  BY <1>1 DEF Field, Empty
<1>3. Object(tag, v) \in Text
  BY <1>2 DEF Object, Text
<1> QED
  BY <1>3, NothingAssumption

\* A stored value is there, and the variable is still one.
LEMMA StoredTarget ==
  ASSUME NEW t \in Target, NEW tag \in Tag, NEW v \in Value(tag)
  PROVE  /\ Stored(t, tag, v).ok
         /\ Stored(t, tag, v).var \in Target
         /\ Stored(t, tag, v).var.kind = tag
         /\ Stored(t, tag, v).var.value[tag] = v
<1> DEFINE value == [t.value EXCEPT ![tag] = v]
<1>1. /\ t.value \in [Tag -> AnyValue \cup {Nil}]
      /\ \A k \in Tag : t.value[k] \in Value(k) \cup {Nil}
      /\ t.raw \in Text \cup {Nothing}
  BY DEF Target
<1>2. v \in AnyValue
  BY DEF Value, AnyValue, Tag
<1>3. value \in [Tag -> AnyValue \cup {Nil}] /\ value[tag] = v
  BY <1>1, <1>2
<1>4. \A k \in Tag : value[k] \in Value(k) \cup {Nil}
  BY <1>1
<1>5. Stored(t, tag, v).var = [t EXCEPT !.kind = tag, !.value = value]
  BY DEF Stored
<1>6. Stored(t, tag, v).var = [kind |-> tag, value |-> value, raw |-> t.raw]
  BY <1>5 DEF Target
<1>7. Stored(t, tag, v).var \in Target
  BY <1>1, <1>3, <1>4, <1>6 DEF Target
<1> QED
  BY <1>3, <1>6, <1>7 DEF Stored

\* The variable that remembers what it was decoded from.
LEMMA RawTarget ==
  ASSUME NEW t \in Target, NEW text \in Text
  PROVE  [t EXCEPT !.raw = text] \in Target
<1>1. [t EXCEPT !.raw = text] = [kind |-> t.kind, value |-> t.value, raw |-> text]
  BY DEF Target
<1> QED
  BY <1>1 DEF Target

\* A variable with another kind is one.
LEMMA KindTarget ==
  ASSUME NEW t \in Target, NEW tag \in Tag \cup {"none"}
  PROVE  [t EXCEPT !.kind = tag] \in Target
<1>1. [t EXCEPT !.kind = tag] = [kind |-> tag, value |-> t.value, raw |-> t.raw]
  BY DEF Target
<1> QED
  BY <1>1 DEF Target

\* A text that stands for a target is decoded, into a variable that is encoded
\* as this target, whatever the variable held before.
THEOREM DecodeThenEncode ==
  ASSUME NEW t \in Target, NEW text \in Text, Says(text) # Nothing
  PROVE  /\ Decode(t, text).ok
         /\ Decode(t, text).var \in Target
         /\ Encode(Decode(t, text).var) # Nothing
         /\ Parse(Encode(Decode(t, text).var)) = Says(text)
<1> DEFINE d == Decode(t, text)
           Good(tag, v) == /\ tag \in Tag /\ v \in Value(tag)
                           /\ d = Stored([t EXCEPT !.raw = text], tag, v)
                           /\ Says(text) = <<tag, v>>
<1>1. ASSUME NEW tag, NEW v, Good(tag, v)
      PROVE  d.ok /\ d.var \in Target /\ Encode(d.var) = Object(tag, v)
  <2>1. v # Nil
    BY <1>1, Values
  <2>2. d.ok /\ d.var \in Target /\ d.var.kind = tag /\ d.var.value[tag] = v
    BY <1>1, StoredTarget, RawTarget
  <2> QED
    BY <1>1, <2>1, <2>2 DEF Encode, Tag
<1>2. CASE text.shape = "string"
  <2>1. Good("MiningMode", text.field["MiningMode"])
    BY <1>2 DEF Text, Tag, Value, Decode, Says
  <2> QED
    BY <1>1, <2>1, ParseObject, ObjectIsText
<1>3. CASE text.shape # "string"
  <2> DEFINE tag == CHOOSE k \in Tag : Names(text, k)
  <2>1. /\ \E k \in Tag : Names(text, k)
        /\ Says(text) = <<tag, text.field[tag]>>
    BY <1>3 DEF Says
  <2>2. tag \in Tag /\ Names(text, tag)
    BY <2>1
  <2> HIDE DEF tag
  <2>3. text.field[tag] \in Value(tag) /\ text.field[tag] \notin {Absent, Null, Bad}
    BY <2>2, Values DEF Names
  <2>4. Has(text, tag) /\ \A other \in Tag \ {tag} : ~Has(text, other)
    BY <2>2, <2>3 DEF Names, Has
  <2>5. TagOf(text) = tag
    BY <2>2, <2>4 DEF TagOf, Tag
  <2>6. d = Stored([t EXCEPT !.raw = text], tag, Filled(tag, text.field[tag]))
    BY <1>3, <2>2, <2>3, <2>5 DEF Decode, Tag
  <2>7. Filled(tag, text.field[tag]) = text.field[tag]
    BY <2>3 DEF Filled
  <2>8. Good(tag, text.field[tag])
    BY <2>1, <2>2, <2>3, <2>6, <2>7
  <2> QED
    BY <1>1, <2>8, ParseObject, ObjectIsText
<1> QED
  BY <1>2, <1>3

\* What a text stands for, to Go or to serde, is a target or nothing.
LEMMA SaysMeaning ==
  ASSUME NEW text \in Text
  PROVE  Says(text) \in Meaning \cup {Nothing} /\ Parse(text) \in Meaning \cup {Nothing}
<1>1. Says(text) \in Meaning \cup {Nothing}
  <2>1. CASE text.shape = "string"
    BY <2>1 DEF Text, Says, Meaning, Tag, AnyValue
  <2>2. CASE text.shape # "string" /\ \E tag \in Tag : Names(text, tag)
    <3> DEFINE tag == CHOOSE k \in Tag : Names(text, k)
    <3>1. Says(text) = <<tag, text.field[tag]>>
      BY <2>2 DEF Says
    <3>2. tag \in Tag /\ Names(text, tag)
      BY <2>2
    <3> HIDE DEF tag
    <3>3. text.field[tag] \in AnyValue
      BY <3>2 DEF Names, Value, AnyValue, Tag
    <3> QED
      BY <3>1, <3>2, <3>3 DEF Meaning
  <2> QED
    BY <2>1, <2>2 DEF Says
<1> QED
  BY <1>1 DEF Parse

\* A target is encoded as a text or not at all.
LEMMA EncodeText ==
  ASSUME NEW t \in Target
  PROVE  Encode(t) \in Text \cup {Nothing}
<1>1. /\ t.kind \in Tag \cup {"none"} /\ t.raw \in Text \cup {Nothing}
      /\ \A tag \in Tag : t.value[tag] \in Value(tag) \cup {Nil}
  BY DEF Target
<1>2. CASE t.kind = "none"
  BY <1>1, <1>2 DEF Encode
<1>3. CASE t.kind \in Tag
  <2> DEFINE v == IF t.value[t.kind] # Nil THEN t.value[t.kind]
                  ELSE IF t.kind = "HashRate" THEN Null ELSE Zero(t.kind)
  <2>1. v \in Value(t.kind) \cup {Null}
    BY <1>1, <1>3, Values
  <2>2. Encode(t) = Object(t.kind, v)
    BY <1>3 DEF Encode, Tag
  <2> QED
    BY <1>3, <2>1, <2>2, ObjectIsText
<1> QED
  BY <1>1, <1>2, <1>3

\* Decoding leaves a variable a variable, also when it fails.
LEMMA DecodeTarget ==
  ASSUME NEW t \in Target, NEW text \in Text
  PROVE  Decode(t, text).var \in Target
<1> DEFINE u == [t EXCEPT !.raw = text]
           tag == TagOf(text)
<1>1. u \in Target
  BY RawTarget
<1>2. CASE text.shape = "string"
  <2>1. Decode(t, text) = Stored(u, "MiningMode", text.field["MiningMode"])
    BY <1>2 DEF Decode
  <2>2. text.field["MiningMode"] \in Value("MiningMode")
    BY <1>2 DEF Text, Value
  <2> QED
    BY <1>1, <2>1, <2>2, StoredTarget DEF Tag
<1>3. CASE text.shape # "string" /\ tag = "none"
  BY <1>1, <1>3 DEF Decode, Failed
<1>4. CASE text.shape # "string" /\ tag # "none" /\ text.field[tag] = Bad
  <2>1. Decode(t, text).var = [u EXCEPT !.kind = tag]
    BY <1>4 DEF Decode, Failed
  <2>2. tag \in Tag
    BY <1>4 DEF TagOf, Tag
  <2> HIDE DEF u, tag
  <2> QED
    BY <1>1, <2>1, <2>2, KindTarget
<1>5. CASE text.shape # "string" /\ tag # "none" /\ text.field[tag] # Bad
  <2>1. tag \in Tag /\ Has(text, tag)
    BY <1>5 DEF TagOf, Tag
  <2>2. Filled(tag, text.field[tag]) \in Value(tag)
    BY <1>5, <2>1, Fields, Values DEF Filled, Has
  <2>3. Decode(t, text) = Stored(u, tag, Filled(tag, text.field[tag]))
    BY <1>5 DEF Decode
  <2> QED
    BY <1>1, <2>1, <2>2, <2>3, StoredTarget
<1> QED
  BY <1>2, <1>3, <1>4, <1>5

\* Seconds and a fraction that fit into a time.Duration are kept.
LEMMA ExactDuration ==
  ASSUME NEW secs \in Nat, NEW nanos \in Nat, secs * Second + nanos < Half
  PROVE  Signed(Signed(Signed(secs) * Second) + nanos) = secs * Second + nanos
<1>1. Half \in Nat /\ Second \in Nat /\ 1 <= Second
  BY WidthAssumption
<1>2. secs * Second \in Nat /\ secs <= secs * Second
  BY <1>1
<1> DEFINE product == secs * Second
<1> HIDE DEF product
<1>3. product \in Nat /\ secs <= product /\ product + nanos < Half
  BY <1>2 DEF product
<1>4. Signed(secs) = secs /\ Signed(product) = product
      /\ Signed(product + nanos) = product + nanos
  BY <1>1, <1>3, SignedFits
<1> QED
  BY <1>4 DEF product

\* Decoding leaves an uptime an uptime; if it succeeds, the variable holds what
\* the text says and nothing of what it held before.
LEMMA UptimeDecoded ==
  ASSUME NEW u \in Uptime \cup {Nil}, NEW text \in UptimeText
  PROVE  LET d == DecodeUptime(u, text)
             nanos == IF text.form = "bare" THEN 0 ELSE text.nanos
         IN  /\ d.var \in Uptime \cup {Nil}
             /\ d.ok /\ text.form = "null" => d.var = Nil
             /\ d.ok /\ text.form # "null" =>
                  d.var # Nil /\ d.var = [secs |-> text.secs, nanos |-> nanos]
<1>1. /\ text.secs \in Secs /\ text.nanos \in 0 .. Second - 1
      /\ text.form \in {"object", "bare", "null", "bad"} /\ 0 \in 0 .. Second - 1
  BY WidthAssumption DEF UptimeText
<1>2. CASE text.form = "bad"
  BY <1>1, <1>2, WidthAssumption DEF DecodeUptime, Failed, Uptime, Secs
<1>3. CASE text.form = "null"
  BY <1>3 DEF DecodeUptime
<1>4. CASE text.form = "bare"
  BY <1>1, <1>4, NilAssumption DEF DecodeUptime, Uptime
<1>5. CASE text.form = "object"
  BY <1>1, <1>5, NilAssumption DEF DecodeUptime, Uptime
<1> QED
  BY <1>1, <1>2, <1>3, <1>4, <1>5

AnySnapshot == [target : Target \cup {Nil}, uptime : Uptime \cup {Nil}]

\* Decoding leaves a snapshot a snapshot; if it succeeds, the snapshot shows the
\* reply, whatever it held before.
LEMMA SnapshotDecoded ==
  ASSUME NEW s \in AnySnapshot, NEW reply \in [target : Text, uptime : UptimeText]
  PROVE  LET d == DecodeSnapshot(s, reply)
         IN  /\ d.var \in AnySnapshot
             /\ d.ok => Shows(d.var, reply)
<1> DEFINE text == reply.target
           t == DecodePointer(s.target, text)
           u == DecodeUptime(s.uptime, reply.uptime)
           old == IF s.target = Nil THEN Fresh ELSE s.target
           d == DecodeSnapshot(s, reply)
           nanos == IF reply.uptime.form = "bare" THEN 0 ELSE reply.uptime.nanos
<1>1. old \in Target
  BY DEF Fresh, Target, Tag, AnySnapshot
<1>2. t.var \in Target \cup {Nil}
  BY <1>1, DecodeTarget DEF DecodePointer
<1>3. /\ text.shape = "null" => t.var = Nil /\ Says(text) = Nothing
      /\ text.shape # "null" => t.var # Nil
      /\ t.ok /\ Says(text) # Nothing => Parse(Encode(t.var)) = Says(text)
  <2>1. CASE text.shape = "null"
    BY <2>1 DEF DecodePointer, Says, Names
  <2>2. CASE text.shape # "null"
    <3>1. t = Decode(old, text)
      BY <2>2 DEF DecodePointer
    <3>2. text \in Text
      OBVIOUS
    <3> HIDE DEF t, old, text
    <3> QED
      BY <1>1, <2>2, <3>1, <3>2, DecodeThenEncode, DecodeTarget, NilAssumption
  <2> QED
    BY <2>1, <2>2
<1>4. /\ u.var \in Uptime \cup {Nil}
      /\ u.ok /\ reply.uptime.form = "null" => u.var = Nil
      /\ u.ok /\ reply.uptime.form # "null" =>
           u.var # Nil /\ u.var = [secs |-> reply.uptime.secs, nanos |-> nanos]
  BY UptimeDecoded DEF AnySnapshot
<1>5. /\ d.var = [target |-> t.var, uptime |-> IF t.ok THEN u.var ELSE s.uptime]
      /\ d.ok => t.ok /\ u.ok
  BY DEF DecodeSnapshot
<1>6. /\ reply.uptime.secs \in Nat /\ nanos \in Nat
  BY WidthAssumption DEF UptimeText, Secs
<1> HIDE DEF t, u, d, text, nanos
<1>7. d.var \in AnySnapshot
  BY <1>2, <1>4, <1>5 DEF AnySnapshot
<1>8. ASSUME d.ok
      PROVE  Shows(d.var, reply)
  <2>1. t.ok /\ u.ok /\ d.var.target = t.var /\ d.var.uptime = u.var
    BY <1>5, <1>8
  <2>2. ASSUME reply.uptime.form # "null"
        PROVE  /\ Duration(d.var.uptime) = Signed(UptimeOf(reply.uptime.secs) + nanos)
               /\ reply.uptime.secs * Second + nanos < Half =>
                    Duration(d.var.uptime) = reply.uptime.secs * Second + nanos
    <3>1. d.var.uptime.secs = reply.uptime.secs /\ d.var.uptime.nanos = nanos
      BY <1>4, <2>1, <2>2
    <3>2. Duration(d.var.uptime) = Signed(UptimeOf(reply.uptime.secs) + nanos)
      BY <3>1 DEF Duration, UptimeOf
    <3> QED
      BY <1>6, <3>2, ExactDuration DEF UptimeOf
  <2> QED
    BY <1>3, <1>4, <2>1, <2>2 DEF Shows, text, nanos
<1> QED
  BY <1>7, <1>8 DEF d

-----------------------------------------------------------------------------
(* The invariant.                                                          *)

\* Where a goroutine is with its call.
Placed ==
  \A g \in Caller :
    /\ cur[g] <= calls
    /\ pc[g] # "idle" => /\ cur[g] \in Call
                         /\ owner[cur[g]] = g
                         /\ report[cur[g]] = "none"
    /\ pc[g] \in {"tuning", "pause", "auth", "user"} => status[cur[g]] = "none"
    /\ pc[g] = "tuning" => arg[cur[g]] \in {"json"} \X Text
    /\ pc[g] = "pause" => arg[cur[g]] \in {"seconds"} \X (At \cup {-1})
    /\ pc[g] \in {"tuning", "pause"} /\ meant[cur[g]] # Nothing
         => Parsed(g) = meant[cur[g]]
    /\ pc[g] \in {"auth", "user"} => arg[cur[g]] = Nothing
    /\ pc[g] = "return" =>
         /\ code[g] = 1 => status[cur[g]] = "applied"
         /\ code[g] = 0 => status[cur[g]] \in {"none", "refused"}

\* A goroutine makes one call after the other.
Ordered ==
  \A n \in Call :
    /\ n > calls => owner[n] = Nil
    /\ owner[n] = Nil => status[n] = "none" /\ report[n] = "none" /\ arg[n] = Nothing
    /\ \A g \in Caller : owner[n] = g =>
         /\ n <= cur[g]
         /\ n < cur[g] \/ pc[g] = "idle" => report[n] # "none"

\* What is known of a request.
Requests ==
  \A n \in Call :
    /\ status[n] # "none" => arg[n] # Nothing /\ got[n] # Nothing
    /\ setting = n => status[n] = "applied"

\* The inductive invariant.
IInv ==
  /\ TypeOK /\ Placed /\ Ordered /\ Requests /\ SnapshotAsSaid
  /\ ReportedAsHappened /\ DeliveredAsMeant /\ OldSettingsOnlyAfterErrors

\* With a client that lets SetAuth run alone, nobody sends while the credentials
\* are being written, and they are otherwise those of a call that succeeded.
AuthInv ==
  /\ \A g, h \in Caller : pc[g] \in {"auth", "user"} /\ g # h => pc[h] = "idle"
  /\ (\A g \in Caller : pc[g] # "user") =>
       /\ creds.user = creds.password
       /\ creds.user = 0 \/ report[creds.user] = "true"
  /\ \A g \in Caller : pc[g] = "user" => creds.user = cur[g]
  /\ CredentialsWhole

LEMMA IInvInit == Init => IInv
<1> SUFFICES ASSUME Init PROVE IInv
  OBVIOUS
<1>1. MaxCalls \in Nat /\ Nil \notin Caller
  BY CallAssumption
<1>2. TypeOK
  BY <1>1 DEF Init, TypeOK, NewSnapshot, AnyMeaning, Call
<1> QED
  BY <1>1, <1>2 DEF Init, IInv, Placed, Ordered, Requests, SnapshotAsSaid, ReportedAsHappened,
    DeliveredAsMeant, OldSettingsOnlyAfterErrors, Call

\* SetTuningConfig with a target that is encoded as json, or cannot be.
TuningCall(g, json, m) ==
  /\ MayCall(g)
  /\ json # Nothing /\ m # Nothing => Parse(json) = m
  /\ Numbered(g, IF json = Nothing THEN Nothing ELSE <<"json", json>>, m)
  /\ report' = IF json = Nothing THEN [report EXCEPT ![calls + 1] = "error"] ELSE report
  /\ pc' = IF json = Nothing THEN pc ELSE [pc EXCEPT ![g] = "tuning"]
  /\ UNCHANGED <<code, creds, minerVars, readVars>>

LEMMA Tuning ==
  ASSUME IInv, NEW g \in Caller, SetTuningConfig(g)
  PROVE  \E json \in Text \cup {Nothing}, m \in AnyMeaning : TuningCall(g, json, m)
<1>1. PICK choice \in Choices :
        LET json == Encode(choice[1])
        IN  \/ /\ json = Nothing
               /\ Numbered(g, Nothing, choice[2])
               /\ report' = [report EXCEPT ![calls + 1] = "error"]
               /\ UNCHANGED pc
            \/ /\ json # Nothing
               /\ Numbered(g, <<"json", json>>, choice[2])
               /\ pc' = [pc EXCEPT ![g] = "tuning"]
               /\ UNCHANGED report
  BY DEF SetTuningConfig
<1>2. /\ choice[1] \in Target
      /\ choice[2] \in AnyMeaning
      /\ choice[2] # Nothing => Parse(Encode(choice[1])) = choice[2]
  <2>1. CASE \E kind \in Tag \cup {"none"} :
               choice = <<[Fresh EXCEPT !.kind = kind], Nothing>>
    <3>1. Fresh \in Target
      BY DEF Fresh, Target, Tag
    <3> QED
      BY <2>1, <3>1, KindTarget DEF AnyMeaning
  <2>2. CASE /\ said # Nothing /\ snapshot.target # Nil
             /\ choice = <<snapshot.target, Says(said.target)>>
    <3>1. said \in Reply /\ said.target \in Text /\ snapshot.target \in Target
      BY <2>2, CallAssumption DEF IInv, TypeOK
    <3>2. Says(said.target) \in AnyMeaning
      BY <3>1, SaysMeaning DEF AnyMeaning
    <3> QED
      BY <2>2, <3>1, <3>2 DEF IInv, SnapshotAsSaid, Shows
  <2> QED
    BY <2>1, <2>2 DEF Choices
<1>3. Encode(choice[1]) \in Text \cup {Nothing}
  BY <1>2, EncodeText
<1>4. TuningCall(g, Encode(choice[1]), choice[2])
  BY <1>1, <1>2 DEF TuningCall, SetTuningConfig
<1> QED
  BY <1>2, <1>3, <1>4

-----------------------------------------------------------------------------
(* The parts of the invariant, each for every action.                      *)

\* A goroutine makes one call after the other.
LEMMA OrderedStep ==
  ASSUME IInv, Next
  PROVE  Ordered'
<1>1. ASSUME NEW g \in Caller, GetData(g)
      PROVE  Ordered'
  BY <1>1 DEF GetData, minerVars, IInv, TypeOK, Placed, Ordered, Call
<1>2. ASSUME NEW g \in Caller, GetDataJSON(g)
      PROVE  Ordered'
  BY <1>2 DEF GetDataJSON, minerVars, IInv, TypeOK, Placed, Ordered, Call
<1>3. ASSUME NEW g \in Caller, SetTuningConfig(g)
      PROVE  Ordered'
  <2>1. PICK json \in Text \cup {Nothing}, m \in AnyMeaning : TuningCall(g, json, m)
    BY <1>3, Tuning
  <2> QED
    BY <2>1 DEF TuningCall, MayCall, Numbered, minerVars, readVars, IInv, TypeOK, Placed,
       Ordered, Call
<1>4. ASSUME NEW g \in Caller, Pause(g)
      PROVE  Ordered'
  BY <1>4 DEF Pause, MayCall, Numbered, minerVars, readVars, IInv, TypeOK, Placed, Ordered, Call
<1>5. ASSUME NEW g \in Caller, Reject(g)
      PROVE  Ordered'
  BY <1>5 DEF Reject, Return, callVars, minerVars, readVars, IInv, TypeOK, Ordered
<1>6. ASSUME NEW g \in Caller, Send(g)
      PROVE  Ordered'
  <2>1. cur[g] \in Call /\ owner[cur[g]] = g /\ g # Nil /\ report[cur[g]] = "none"
    BY <1>6, CallAssumption DEF Send, IInv, Placed
  <2> QED
    BY <1>6, <2>1 DEF Send, callVars, readVars, IInv, TypeOK, Ordered
<1>7. ASSUME NEW g \in Caller, SendNothing(g)
      PROVE  Ordered'
  BY <1>7 DEF SendNothing, Return, callVars, minerVars, readVars, IInv, TypeOK, Ordered
<1>8. ASSUME NEW g \in Caller, Answer(g)
      PROVE  Ordered'
  BY <1>8 DEF Answer, Return, callVars, minerVars, readVars, IInv, TypeOK, Ordered
<1>9. ASSUME NEW g \in Caller, GiveUp(g)
      PROVE  Ordered'
  BY <1>9 DEF GiveUp, Return, callVars, minerVars, readVars, IInv, TypeOK, Ordered
<1>10. ASSUME NEW g \in Caller, Finish(g)
      PROVE  Ordered'
  <2>1. cur[g] \in Call /\ owner[cur[g]] = g /\ g # Nil /\ report[cur[g]] = "none"
    BY <1>10, CallAssumption DEF Finish, IInv, Placed
  <2> QED
    BY <1>10, <2>1 DEF Finish, callVars, minerVars, readVars, IInv, TypeOK, Placed, Ordered,
       Call, ControlResult
<1>11. ASSUME NEW g \in Caller, BeginSetAuth(g)
      PROVE  Ordered'
  BY <1>11 DEF BeginSetAuth, MayCall, Numbered, minerVars, readVars, IInv, TypeOK, Placed,
     Ordered, Call
<1>12. ASSUME NEW g \in Caller, RejectAuth(g)
      PROVE  Ordered'
  <2>1. cur[g] \in Call /\ owner[cur[g]] = g /\ g # Nil /\ report[cur[g]] = "none"
    BY <1>12, CallAssumption DEF RejectAuth, IInv, Placed
  <2> QED
    BY <1>12, <2>1 DEF RejectAuth, callVars, minerVars, readVars, IInv, TypeOK, Placed,
       Ordered, Call
<1>13. ASSUME NEW g \in Caller, WriteUser(g)
      PROVE  Ordered'
  BY <1>13 DEF WriteUser, callVars, minerVars, readVars, IInv, TypeOK, Ordered
<1>14. ASSUME NEW g \in Caller, WritePassword(g)
      PROVE  Ordered'
  <2>1. cur[g] \in Call /\ owner[cur[g]] = g /\ g # Nil /\ report[cur[g]] = "none"
    BY <1>14, CallAssumption DEF WritePassword, IInv, Placed
  <2> QED
    BY <1>14, <2>1 DEF WritePassword, callVars, minerVars, readVars, IInv, TypeOK, Placed,
       Ordered, Call
<1>15. ASSUME NEW k \in Call, Apply(k)
      PROVE  Ordered'
  BY <1>15 DEF Apply, callVars, readVars, IInv, TypeOK, Ordered
<1>16. ASSUME NEW k \in Call, Refuse(k)
      PROVE  Ordered'
  BY <1>16 DEF Refuse, callVars, readVars, IInv, TypeOK, Ordered
<1> QED
  BY <1>1, <1>2, <1>3, <1>4, <1>5, <1>6, <1>7, <1>8, <1>9, <1>10, <1>11, <1>12, <1>13,
     <1>14, <1>15, <1>16 DEF Next, Step

\* What is known of a request.
LEMMA RequestsStep ==
  ASSUME IInv, Next
  PROVE  Requests'
<1>1. ASSUME NEW g \in Caller, GetData(g)
      PROVE  Requests'
  BY <1>1 DEF GetData, minerVars, IInv, Requests
<1>2. ASSUME NEW g \in Caller, GetDataJSON(g)
      PROVE  Requests'
  BY <1>2 DEF GetDataJSON, minerVars, IInv, Requests
<1>3. ASSUME NEW g \in Caller, SetTuningConfig(g)
      PROVE  Requests'
  <2>1. PICK json \in Text \cup {Nothing}, m \in AnyMeaning : TuningCall(g, json, m)
    BY <1>3, Tuning
  <2> QED
    BY <2>1 DEF TuningCall, Numbered, minerVars, readVars, IInv, TypeOK, Ordered, Requests
<1>4. ASSUME NEW g \in Caller, Pause(g)
      PROVE  Requests'
  BY <1>4 DEF Pause, Numbered, minerVars, readVars, IInv, TypeOK, Ordered, Requests
<1>5. ASSUME NEW g \in Caller, Reject(g)
      PROVE  Requests'
  BY <1>5 DEF Reject, Return, callVars, minerVars, readVars, IInv, Requests
<1>6. ASSUME NEW g \in Caller, Send(g)
      PROVE  Requests'
  <2>1. pc[g] \in {"tuning", "pause"} /\ cur[g] \in Call /\ status[cur[g]] = "none"
    BY <1>6 DEF Send, IInv, Placed
  <2>2. /\ At \cup {-1} \subseteq Int
        /\ \/ arg[cur[g]] \in {"json"} \X Text
           \/ arg[cur[g]] \in {"seconds"} \X (At \cup {-1})
    BY <2>1, CallAssumption DEF IInv, Placed
  <2>3. arg[cur[g]] # Nothing
    BY <2>2, CallAssumption
  <2> QED
    BY <1>6, <2>1, <2>3 DEF Send, callVars, readVars, IInv, TypeOK, Requests
<1>7. ASSUME NEW g \in Caller, SendNothing(g)
      PROVE  Requests'
  BY <1>7 DEF SendNothing, Return, callVars, minerVars, readVars, IInv, Requests
<1>8. ASSUME NEW g \in Caller, Answer(g)
      PROVE  Requests'
  BY <1>8 DEF Answer, Return, callVars, minerVars, readVars, IInv, Requests
<1>9. ASSUME NEW g \in Caller, GiveUp(g)
      PROVE  Requests'
  BY <1>9 DEF GiveUp, Return, callVars, minerVars, readVars, IInv, Requests
<1>10. ASSUME NEW g \in Caller, Finish(g)
      PROVE  Requests'
  BY <1>10 DEF Finish, callVars, minerVars, readVars, IInv, Requests
<1>11. ASSUME NEW g \in Caller, BeginSetAuth(g)
      PROVE  Requests'
  BY <1>11 DEF BeginSetAuth, Numbered, minerVars, readVars, IInv, TypeOK, Ordered, Requests
<1>12. ASSUME NEW g \in Caller, RejectAuth(g)
      PROVE  Requests'
  BY <1>12 DEF RejectAuth, callVars, minerVars, readVars, IInv, Requests
<1>13. ASSUME NEW g \in Caller, WriteUser(g)
      PROVE  Requests'
  BY <1>13 DEF WriteUser, callVars, minerVars, readVars, IInv, Requests
<1>14. ASSUME NEW g \in Caller, WritePassword(g)
      PROVE  Requests'
  BY <1>14 DEF WritePassword, callVars, minerVars, readVars, IInv, Requests
<1>15. ASSUME NEW k \in Call, Apply(k)
      PROVE  Requests'
  BY <1>15 DEF Apply, callVars, readVars, IInv, TypeOK, Ordered, Requests
<1>16. ASSUME NEW k \in Call, Refuse(k)
      PROVE  Requests'
  BY <1>16 DEF Refuse, callVars, readVars, IInv, Requests
<1> QED
  BY <1>1, <1>2, <1>3, <1>4, <1>5, <1>6, <1>7, <1>8, <1>9, <1>10, <1>11, <1>12, <1>13,
     <1>14, <1>15, <1>16 DEF Next, Step

\* A report is true to what the miner does.
LEMMA ReportedStep ==
  ASSUME IInv, Next
  PROVE  ReportedAsHappened'
<1>1. ASSUME NEW g \in Caller, GetData(g)
      PROVE  ReportedAsHappened'
  BY <1>1 DEF GetData, minerVars, IInv, TypeOK, ReportedAsHappened
<1>2. ASSUME NEW g \in Caller, GetDataJSON(g)
      PROVE  ReportedAsHappened'
  BY <1>2 DEF GetDataJSON, minerVars, IInv, TypeOK, ReportedAsHappened
<1>3. ASSUME NEW g \in Caller, SetTuningConfig(g)
      PROVE  ReportedAsHappened'
  <2>1. PICK json \in Text \cup {Nothing}, m \in AnyMeaning : TuningCall(g, json, m)
    BY <1>3, Tuning
  <2> QED
    BY <2>1 DEF TuningCall, MayCall, Numbered, minerVars, readVars, IInv, TypeOK, Placed,
       Ordered, Call, Requests, ReportedAsHappened, ControlResult
<1>4. ASSUME NEW g \in Caller, Pause(g)
      PROVE  ReportedAsHappened'
  BY <1>4 DEF Pause, MayCall, Numbered, minerVars, readVars, IInv, TypeOK, Placed, Ordered,
     Call, Requests, ReportedAsHappened, ControlResult
<1>5. ASSUME NEW g \in Caller, Reject(g)
      PROVE  ReportedAsHappened'
  BY <1>5 DEF Reject, Return, callVars, minerVars, readVars, IInv, TypeOK, ReportedAsHappened
<1>6. ASSUME NEW g \in Caller, Send(g)
      PROVE  ReportedAsHappened'
  BY <1>6 DEF Send, callVars, readVars, IInv, TypeOK, Placed, ReportedAsHappened
<1>7. ASSUME NEW g \in Caller, SendNothing(g)
      PROVE  ReportedAsHappened'
  BY <1>7 DEF SendNothing, Return, callVars, minerVars, readVars, IInv, TypeOK,
     ReportedAsHappened
<1>8. ASSUME NEW g \in Caller, Answer(g)
      PROVE  ReportedAsHappened'
  BY <1>8 DEF Answer, Return, callVars, minerVars, readVars, IInv, TypeOK, ReportedAsHappened
<1>9. ASSUME NEW g \in Caller, GiveUp(g)
      PROVE  ReportedAsHappened'
  BY <1>9 DEF GiveUp, Return, callVars, minerVars, readVars, IInv, TypeOK, ReportedAsHappened
<1>10. ASSUME NEW g \in Caller, Finish(g)
      PROVE  ReportedAsHappened'
  BY <1>10 DEF Finish, callVars, minerVars, readVars, IInv, TypeOK, Placed, Ordered, Call,
     Requests, ReportedAsHappened, ControlResult
<1>11. ASSUME NEW g \in Caller, BeginSetAuth(g)
      PROVE  ReportedAsHappened'
  BY <1>11 DEF BeginSetAuth, Numbered, minerVars, readVars, IInv, TypeOK, ReportedAsHappened
<1>12. ASSUME NEW g \in Caller, RejectAuth(g)
      PROVE  ReportedAsHappened'
  BY <1>12 DEF RejectAuth, callVars, minerVars, readVars, IInv, TypeOK, ReportedAsHappened
<1>13. ASSUME NEW g \in Caller, WriteUser(g)
      PROVE  ReportedAsHappened'
  BY <1>13 DEF WriteUser, callVars, minerVars, readVars, IInv, TypeOK, ReportedAsHappened
<1>14. ASSUME NEW g \in Caller, WritePassword(g)
      PROVE  ReportedAsHappened'
  BY <1>14 DEF WritePassword, callVars, minerVars, readVars, IInv, TypeOK, Placed,
     ReportedAsHappened
<1>15. ASSUME NEW k \in Call, Apply(k)
      PROVE  ReportedAsHappened'
  BY <1>15 DEF Apply, callVars, readVars, IInv, TypeOK, ReportedAsHappened
<1>16. ASSUME NEW k \in Call, Refuse(k)
      PROVE  ReportedAsHappened'
  BY <1>16 DEF Refuse, callVars, readVars, IInv, TypeOK, ReportedAsHappened
<1> QED
  BY <1>1, <1>2, <1>3, <1>4, <1>5, <1>6, <1>7, <1>8, <1>9, <1>10, <1>11, <1>12, <1>13,
     <1>14, <1>15, <1>16 DEF Next, Step

\* The miner is sent what was meant.
LEMMA DeliveredStep ==
  ASSUME IInv, Next
  PROVE  DeliveredAsMeant'
<1>1. ASSUME NEW g \in Caller, GetData(g)
      PROVE  DeliveredAsMeant'
  BY <1>1 DEF GetData, minerVars, IInv, DeliveredAsMeant
<1>2. ASSUME NEW g \in Caller, GetDataJSON(g)
      PROVE  DeliveredAsMeant'
  BY <1>2 DEF GetDataJSON, minerVars, IInv, DeliveredAsMeant
<1>3. ASSUME NEW g \in Caller, SetTuningConfig(g)
      PROVE  DeliveredAsMeant'
  <2>1. PICK json \in Text \cup {Nothing}, m \in AnyMeaning : TuningCall(g, json, m)
    BY <1>3, Tuning
  <2> QED
    BY <2>1 DEF TuningCall, MayCall, Numbered, minerVars, readVars, IInv, TypeOK, Placed,
       Ordered, Call, DeliveredAsMeant
<1>4. ASSUME NEW g \in Caller, Pause(g)
      PROVE  DeliveredAsMeant'
  BY <1>4 DEF Pause, MayCall, Numbered, minerVars, readVars, IInv, TypeOK, Placed, Ordered,
     Call, DeliveredAsMeant
<1>5. ASSUME NEW g \in Caller, Reject(g)
      PROVE  DeliveredAsMeant'
  BY <1>5 DEF Reject, Return, callVars, minerVars, readVars, IInv, DeliveredAsMeant
<1>6. ASSUME NEW g \in Caller, Send(g)
      PROVE  DeliveredAsMeant'
  BY <1>6 DEF Send, callVars, readVars, IInv, TypeOK, Placed, DeliveredAsMeant
<1>7. ASSUME NEW g \in Caller, SendNothing(g)
      PROVE  DeliveredAsMeant'
  BY <1>7 DEF SendNothing, Return, callVars, minerVars, readVars, IInv, DeliveredAsMeant
<1>8. ASSUME NEW g \in Caller, Answer(g)
      PROVE  DeliveredAsMeant'
  BY <1>8 DEF Answer, Return, callVars, minerVars, readVars, IInv, DeliveredAsMeant
<1>9. ASSUME NEW g \in Caller, GiveUp(g)
      PROVE  DeliveredAsMeant'
  BY <1>9 DEF GiveUp, Return, callVars, minerVars, readVars, IInv, DeliveredAsMeant
<1>10. ASSUME NEW g \in Caller, Finish(g)
      PROVE  DeliveredAsMeant'
  BY <1>10 DEF Finish, callVars, minerVars, readVars, IInv, DeliveredAsMeant
<1>11. ASSUME NEW g \in Caller, BeginSetAuth(g)
      PROVE  DeliveredAsMeant'
  BY <1>11 DEF BeginSetAuth, Numbered, minerVars, readVars, IInv, DeliveredAsMeant
<1>12. ASSUME NEW g \in Caller, RejectAuth(g)
      PROVE  DeliveredAsMeant'
  BY <1>12 DEF RejectAuth, callVars, minerVars, readVars, IInv, DeliveredAsMeant
<1>13. ASSUME NEW g \in Caller, WriteUser(g)
      PROVE  DeliveredAsMeant'
  BY <1>13 DEF WriteUser, callVars, minerVars, readVars, IInv, DeliveredAsMeant
<1>14. ASSUME NEW g \in Caller, WritePassword(g)
      PROVE  DeliveredAsMeant'
  BY <1>14 DEF WritePassword, callVars, minerVars, readVars, IInv, DeliveredAsMeant
<1>15. ASSUME NEW k \in Call, Apply(k)
      PROVE  DeliveredAsMeant'
  BY <1>15 DEF Apply, callVars, readVars, IInv, DeliveredAsMeant
<1>16. ASSUME NEW k \in Call, Refuse(k)
      PROVE  DeliveredAsMeant'
  BY <1>16 DEF Refuse, callVars, readVars, IInv, DeliveredAsMeant
<1> QED
  BY <1>1, <1>2, <1>3, <1>4, <1>5, <1>6, <1>7, <1>8, <1>9, <1>10, <1>11, <1>12, <1>13,
     <1>14, <1>15, <1>16 DEF Next, Step

\* An old setting that comes back was reported as an error.
LEMMA OldStep ==
  ASSUME IInv, Next
  PROVE  OldSettingsOnlyAfterErrors'
<1>1. ASSUME NEW g \in Caller, GetData(g)
      PROVE  OldSettingsOnlyAfterErrors'
  BY <1>1 DEF GetData, minerVars, IInv, OldSettingsOnlyAfterErrors
<1>2. ASSUME NEW g \in Caller, GetDataJSON(g)
      PROVE  OldSettingsOnlyAfterErrors'
  BY <1>2 DEF GetDataJSON, minerVars, IInv, OldSettingsOnlyAfterErrors
<1>3. ASSUME NEW g \in Caller, SetTuningConfig(g)
      PROVE  OldSettingsOnlyAfterErrors'
  <2>1. PICK json \in Text \cup {Nothing}, m \in AnyMeaning : TuningCall(g, json, m)
    BY <1>3, Tuning
  <2> QED
    BY <2>1 DEF TuningCall, MayCall, Numbered, minerVars, readVars, IInv, TypeOK, Placed,
       Ordered, Call, Requests, ReportedAsHappened, OldSettingsOnlyAfterErrors
<1>4. ASSUME NEW g \in Caller, Pause(g)
      PROVE  OldSettingsOnlyAfterErrors'
  BY <1>4 DEF Pause, MayCall, Numbered, minerVars, readVars, IInv, TypeOK, Placed, Ordered,
     Call, Requests, ReportedAsHappened, OldSettingsOnlyAfterErrors
<1>5. ASSUME NEW g \in Caller, Reject(g)
      PROVE  OldSettingsOnlyAfterErrors'
  BY <1>5 DEF Reject, Return, callVars, minerVars, readVars, IInv, OldSettingsOnlyAfterErrors
<1>6. ASSUME NEW g \in Caller, Send(g)
      PROVE  OldSettingsOnlyAfterErrors'
  BY <1>6 DEF Send, callVars, readVars, IInv, OldSettingsOnlyAfterErrors
<1>7. ASSUME NEW g \in Caller, SendNothing(g)
      PROVE  OldSettingsOnlyAfterErrors'
  BY <1>7 DEF SendNothing, Return, callVars, minerVars, readVars, IInv,
     OldSettingsOnlyAfterErrors
<1>8. ASSUME NEW g \in Caller, Answer(g)
      PROVE  OldSettingsOnlyAfterErrors'
  BY <1>8 DEF Answer, Return, callVars, minerVars, readVars, IInv, OldSettingsOnlyAfterErrors
<1>9. ASSUME NEW g \in Caller, GiveUp(g)
      PROVE  OldSettingsOnlyAfterErrors'
  BY <1>9 DEF GiveUp, Return, callVars, minerVars, readVars, IInv, OldSettingsOnlyAfterErrors
<1>10. ASSUME NEW g \in Caller, Finish(g)
      PROVE  OldSettingsOnlyAfterErrors'
  BY <1>10 DEF Finish, callVars, minerVars, readVars, IInv, TypeOK, Placed, Requests,
     OldSettingsOnlyAfterErrors
<1>11. ASSUME NEW g \in Caller, BeginSetAuth(g)
      PROVE  OldSettingsOnlyAfterErrors'
  BY <1>11 DEF BeginSetAuth, MayCall, Numbered, minerVars, readVars, IInv, TypeOK, Placed,
     Ordered, Call, Requests, ReportedAsHappened, OldSettingsOnlyAfterErrors
<1>12. ASSUME NEW g \in Caller, RejectAuth(g)
      PROVE  OldSettingsOnlyAfterErrors'
  BY <1>12 DEF RejectAuth, callVars, minerVars, readVars, IInv, OldSettingsOnlyAfterErrors
<1>13. ASSUME NEW g \in Caller, WriteUser(g)
      PROVE  OldSettingsOnlyAfterErrors'
  BY <1>13 DEF WriteUser, callVars, minerVars, readVars, IInv, OldSettingsOnlyAfterErrors
<1>14. ASSUME NEW g \in Caller, WritePassword(g)
      PROVE  OldSettingsOnlyAfterErrors'
  BY <1>14 DEF WritePassword, callVars, minerVars, readVars, IInv, TypeOK, Placed, Requests,
     OldSettingsOnlyAfterErrors
<1>15. ASSUME NEW k \in Call, Apply(k)
      PROVE  OldSettingsOnlyAfterErrors'
  <2>1. /\ owner' = owner /\ report' = report /\ setting' = k
        /\ \A m \in Call : m # k => status'[m] = status[m]
    BY <1>15 DEF Apply, callVars, IInv, TypeOK
  <2>2. ASSUME NEW m \in Call, k < m, owner[k] = owner[m], status[m] = "applied"
        PROVE  report[k] = "error"
    <3>1. PICK g \in Caller : owner[m] = g
      BY <2>2 DEF IInv, TypeOK, Ordered
    <3>2. k < cur[g] /\ report[k] # "none"
      BY <2>2, <3>1 DEF IInv, TypeOK, Ordered, Call
    <3>3. report[k] \notin {"true", "false"}
      BY <1>15 DEF Apply, IInv, Requests, ReportedAsHappened
    <3> QED
      BY <3>2, <3>3 DEF IInv, TypeOK
  <2> QED
    BY <2>1, <2>2 DEF OldSettingsOnlyAfterErrors, Call
<1>16. ASSUME NEW k \in Call, Refuse(k)
      PROVE  OldSettingsOnlyAfterErrors'
  BY <1>16 DEF Refuse, callVars, readVars, IInv, OldSettingsOnlyAfterErrors
<1> QED
  BY <1>1, <1>2, <1>3, <1>4, <1>5, <1>6, <1>7, <1>8, <1>9, <1>10, <1>11, <1>12, <1>13,
     <1>14, <1>15, <1>16 DEF Next, Step

\* The snapshot is a snapshot, and shows what was decoded into it last.
LEMMA SnapshotStep ==
  ASSUME IInv, Next
  PROVE  SnapshotAsSaid' /\ snapshot' \in AnySnapshot /\ said' \in Reply \cup {Nothing}
<1>1. ASSUME NEW g \in Caller, GetData(g)
      PROVE  SnapshotAsSaid' /\ snapshot' \in AnySnapshot /\ said' \in Reply \cup {Nothing}
  <2>1. PICK reply \in Reply :
          LET d == DecodeSnapshot(NewSnapshot, reply)
          IN  /\ snapshot' = d.var /\ said' \in {reply, Nothing}
              /\ said' # Nothing => d.ok /\ said' = reply
    BY <1>1 DEF GetData
  <2>2. NewSnapshot \in AnySnapshot /\ reply \in [target : Text, uptime : UptimeText]
    BY CallAssumption DEF IInv, TypeOK, AnySnapshot, NewSnapshot
  <2> QED
    BY <2>1, <2>2, SnapshotDecoded DEF SnapshotAsSaid, AnySnapshot
<1>2. ASSUME NEW g \in Caller, GetDataJSON(g)
      PROVE  SnapshotAsSaid' /\ snapshot' \in AnySnapshot /\ said' \in Reply \cup {Nothing}
  <2>1. PICK reply \in Reply :
          LET d == DecodeSnapshot(snapshot, reply)
          IN  /\ snapshot' = d.var /\ said' \in {reply, Nothing}
              /\ said' # Nothing => d.ok /\ said' = reply
    BY <1>2 DEF GetDataJSON
  <2>2. snapshot \in AnySnapshot /\ reply \in [target : Text, uptime : UptimeText]
    BY CallAssumption DEF IInv, TypeOK, AnySnapshot, NewSnapshot
  <2> QED
    BY <2>1, <2>2, SnapshotDecoded DEF SnapshotAsSaid, AnySnapshot
<1>3. ASSUME NEW g \in Caller, SetTuningConfig(g)
      PROVE  SnapshotAsSaid' /\ snapshot' \in AnySnapshot /\ said' \in Reply \cup {Nothing}
  <2>1. PICK json \in Text \cup {Nothing}, m \in AnyMeaning : TuningCall(g, json, m)
    BY <1>3, Tuning
  <2> QED
    BY <2>1 DEF TuningCall, MayCall, Numbered, minerVars, readVars, IInv, SnapshotAsSaid,
       TypeOK, AnySnapshot
<1>4. ASSUME NEW g \in Caller, Pause(g)
      PROVE  SnapshotAsSaid' /\ snapshot' \in AnySnapshot /\ said' \in Reply \cup {Nothing}
  BY <1>4 DEF Pause, MayCall, Numbered, minerVars, readVars, IInv, SnapshotAsSaid, TypeOK,
     AnySnapshot
<1>5. ASSUME NEW g \in Caller, Reject(g)
      PROVE  SnapshotAsSaid' /\ snapshot' \in AnySnapshot /\ said' \in Reply \cup {Nothing}
  BY <1>5 DEF Reject, Return, callVars, minerVars, readVars, IInv, SnapshotAsSaid, TypeOK,
     AnySnapshot
<1>6. ASSUME NEW g \in Caller, Send(g)
      PROVE  SnapshotAsSaid' /\ snapshot' \in AnySnapshot /\ said' \in Reply \cup {Nothing}
  BY <1>6 DEF Send, callVars, readVars, IInv, SnapshotAsSaid, TypeOK, AnySnapshot
<1>7. ASSUME NEW g \in Caller, SendNothing(g)
      PROVE  SnapshotAsSaid' /\ snapshot' \in AnySnapshot /\ said' \in Reply \cup {Nothing}
  BY <1>7 DEF SendNothing, Return, callVars, minerVars, readVars, IInv, SnapshotAsSaid,
     TypeOK, AnySnapshot
<1>8. ASSUME NEW g \in Caller, Answer(g)
      PROVE  SnapshotAsSaid' /\ snapshot' \in AnySnapshot /\ said' \in Reply \cup {Nothing}
  BY <1>8 DEF Answer, Return, callVars, minerVars, readVars, IInv, SnapshotAsSaid, TypeOK,
     AnySnapshot
<1>9. ASSUME NEW g \in Caller, GiveUp(g)
      PROVE  SnapshotAsSaid' /\ snapshot' \in AnySnapshot /\ said' \in Reply \cup {Nothing}
  BY <1>9 DEF GiveUp, Return, callVars, minerVars, readVars, IInv, SnapshotAsSaid, TypeOK,
     AnySnapshot
<1>10. ASSUME NEW g \in Caller, Finish(g)
      PROVE  SnapshotAsSaid' /\ snapshot' \in AnySnapshot /\ said' \in Reply \cup {Nothing}
  BY <1>10 DEF Finish, callVars, minerVars, readVars, IInv, SnapshotAsSaid, TypeOK, AnySnapshot
<1>11. ASSUME NEW g \in Caller, BeginSetAuth(g)
      PROVE  SnapshotAsSaid' /\ snapshot' \in AnySnapshot /\ said' \in Reply \cup {Nothing}
  BY <1>11 DEF BeginSetAuth, MayCall, Numbered, minerVars, readVars, IInv, SnapshotAsSaid,
     TypeOK, AnySnapshot
<1>12. ASSUME NEW g \in Caller, RejectAuth(g)
      PROVE  SnapshotAsSaid' /\ snapshot' \in AnySnapshot /\ said' \in Reply \cup {Nothing}
  BY <1>12 DEF RejectAuth, callVars, minerVars, readVars, IInv, SnapshotAsSaid, TypeOK,
     AnySnapshot
<1>13. ASSUME NEW g \in Caller, WriteUser(g)
      PROVE  SnapshotAsSaid' /\ snapshot' \in AnySnapshot /\ said' \in Reply \cup {Nothing}
  BY <1>13 DEF WriteUser, callVars, minerVars, readVars, IInv, SnapshotAsSaid, TypeOK,
     AnySnapshot
<1>14. ASSUME NEW g \in Caller, WritePassword(g)
      PROVE  SnapshotAsSaid' /\ snapshot' \in AnySnapshot /\ said' \in Reply \cup {Nothing}
  BY <1>14 DEF WritePassword, callVars, minerVars, readVars, IInv, SnapshotAsSaid, TypeOK,
     AnySnapshot
<1>15. ASSUME NEW k \in Call, Apply(k)
      PROVE  SnapshotAsSaid' /\ snapshot' \in AnySnapshot /\ said' \in Reply \cup {Nothing}
  BY <1>15 DEF Apply, callVars, readVars, IInv, SnapshotAsSaid, TypeOK, AnySnapshot
<1>16. ASSUME NEW k \in Call, Refuse(k)
      PROVE  SnapshotAsSaid' /\ snapshot' \in AnySnapshot /\ said' \in Reply \cup {Nothing}
  BY <1>16 DEF Refuse, callVars, readVars, IInv, SnapshotAsSaid, TypeOK, AnySnapshot
<1> QED
  BY <1>1, <1>2, <1>3, <1>4, <1>5, <1>6, <1>7, <1>8, <1>9, <1>10, <1>11, <1>12, <1>13,
     <1>14, <1>15, <1>16 DEF Next, Step

\* What a call hands over.
AnyArg == ({"json"} \X Text) \cup ({"seconds"} \X (At \cup {-1})) \cup {Nothing}

\* A new call, and the calls that are under way.
LEMMA NewCall ==
  ASSUME IInv, NEW g \in Caller, NEW a \in AnyArg, NEW m \in AnyMeaning,
         MayCall(g), Numbered(g, a, m)
  PROVE  /\ calls' \in 0 .. MaxCalls /\ calls < calls'
         /\ cur' \in [Caller -> 0 .. MaxCalls]
         /\ owner' \in [Call -> Caller \cup {Nil}]
         /\ arg' \in [Call -> AnyArg]
         /\ meant' \in [Call -> AnyMeaning]
         /\ pc[g] = "idle"
         /\ calls + 1 \in Call /\ cur'[g] = calls + 1
         /\ owner'[calls + 1] = g /\ arg'[calls + 1] = a /\ meant'[calls + 1] = m
         /\ status[calls + 1] = "none" /\ report[calls + 1] = "none"
         /\ \A h \in Caller \ {g} :
              /\ cur'[h] = cur[h] /\ cur[h] <= calls
              /\ pc[h] # "idle" =>
                   /\ cur[h] \in Call /\ cur[h] # calls + 1
                   /\ owner'[cur[h]] = owner[cur[h]] /\ arg'[cur[h]] = arg[cur[h]]
                   /\ meant'[cur[h]] = meant[cur[h]]
<1>1. /\ calls \in 0 .. MaxCalls /\ calls < MaxCalls /\ pc[g] = "idle"
      /\ calls + 1 \in Call /\ calls + 1 \in 0 .. MaxCalls
  BY CallAssumption DEF IInv, TypeOK, MayCall, Call
<1>2. /\ cur \in [Caller -> 0 .. MaxCalls] /\ owner \in [Call -> Caller \cup {Nil}]
      /\ arg \in [Call -> AnyArg] /\ meant \in [Call -> AnyMeaning]
  BY DEF IInv, TypeOK, AnyArg
<1>3. status[calls + 1] = "none" /\ report[calls + 1] = "none"
  BY <1>1 DEF IInv, Ordered
<1>4. \A h \in Caller : cur[h] <= calls /\ (pc[h] # "idle" => cur[h] \in Call)
  BY DEF IInv, Placed
<1> QED
  BY <1>1, <1>2, <1>3, <1>4 DEF Numbered

\* What the library parses has a meaning.
LEMMA ParsedMeaning ==
  ASSUME IInv, NEW g \in Caller, pc[g] \in {"tuning", "pause"}
  PROVE  Parsed(g) \in AnyMeaning
<1>1. CASE pc[g] = "tuning"
  <2>1. PICK text \in Text : arg[cur[g]] = <<"json", text>>
    BY <1>1 DEF IInv, Placed
  <2> QED
    BY <1>1, <2>1, SaysMeaning DEF Parsed, AnyMeaning
<1>2. CASE pc[g] = "pause"
  <2>1. PICK a \in At \cup {-1} : arg[cur[g]] = <<"seconds", a>>
    BY <1>2 DEF IInv, Placed
  <2>2. a < 0 \/ a \in At
    BY <2>1
  <2> QED
    BY <1>2, <2>1, <2>2 DEF Parsed, AnyMeaning
<1> QED
  BY <1>1, <1>2

\* Every step keeps the types.
LEMMA TypeStep ==
  ASSUME IInv, Next
  PROVE  TypeOK'
<1>1. ASSUME NEW g \in Caller, GetData(g)
      PROVE  TypeOK'
  <2>1. /\ snapshot' \in AnySnapshot /\ said' \in Reply \cup {Nothing}
    BY <1>1, SnapshotStep
  <2>2. calls' \in 0 .. MaxCalls
    BY <1>1, CallAssumption DEF GetData, MayCall, IInv, TypeOK
  <2> QED
    BY <1>1, <2>1, <2>2 DEF GetData, minerVars, IInv, TypeOK, AnySnapshot
<1>2. ASSUME NEW g \in Caller, GetDataJSON(g)
      PROVE  TypeOK'
  <2>1. /\ snapshot' \in AnySnapshot /\ said' \in Reply \cup {Nothing}
    BY <1>2, SnapshotStep
  <2>2. calls' \in 0 .. MaxCalls
    BY <1>2, CallAssumption DEF GetDataJSON, MayCall, IInv, TypeOK
  <2> QED
    BY <1>2, <2>1, <2>2 DEF GetDataJSON, minerVars, IInv, TypeOK, AnySnapshot
<1>3. ASSUME NEW g \in Caller, SetTuningConfig(g)
      PROVE  TypeOK'
  <2>1. PICK json \in Text \cup {Nothing}, m \in AnyMeaning : TuningCall(g, json, m)
    BY <1>3, Tuning
  <2> DEFINE a == IF json = Nothing THEN Nothing ELSE <<"json", json>>
  <2>2. a \in AnyArg
    BY DEF AnyArg
  <2>3. MayCall(g) /\ Numbered(g, a, m)
    BY <2>1 DEF TuningCall
  <2> HIDE DEF a
  <2> QED
    BY <2>1, <2>2, <2>3, NewCall DEF TuningCall, minerVars, readVars, IInv, TypeOK, AnyArg
<1>4. ASSUME NEW g \in Caller, Pause(g)
      PROVE  TypeOK'
  <2>1. PICK at \in At \cup {Nil} :
          Numbered(g, <<"seconds", IF at = Nil THEN -1 ELSE at>>, Asked(at))
    BY <1>4 DEF Pause
  <2> DEFINE a == <<"seconds", IF at = Nil THEN -1 ELSE at>>
  <2>2. a \in AnyArg
    BY DEF AnyArg
  <2>3. MayCall(g) /\ Numbered(g, a, Asked(at))
    BY <1>4, <2>1 DEF Pause
  <2>4. Asked(at) \in AnyMeaning
    BY DEF Asked, AnyMeaning
  <2> HIDE DEF a
  <2> QED
    BY <1>4, <2>2, <2>3, <2>4, NewCall DEF Pause, minerVars, readVars, IInv, TypeOK, AnyArg
<1>5. ASSUME NEW g \in Caller, Reject(g)
      PROVE  TypeOK'
  BY <1>5 DEF Reject, Return, callVars, minerVars, readVars, IInv, TypeOK, AnySnapshot
<1>6. ASSUME NEW g \in Caller, Send(g)
      PROVE  TypeOK'
  <2>1. cur[g] \in Call /\ Parsed(g) \in AnyMeaning
    BY <1>6, ParsedMeaning DEF Send, IInv, Placed
  <2> QED
    BY <1>6, <2>1 DEF Send, callVars, readVars, IInv, TypeOK
<1>7. ASSUME NEW g \in Caller, SendNothing(g)
      PROVE  TypeOK'
  BY <1>7 DEF SendNothing, Return, callVars, minerVars, readVars, IInv, TypeOK, AnySnapshot
<1>8. ASSUME NEW g \in Caller, Answer(g)
      PROVE  TypeOK'
  BY <1>8 DEF Answer, Return, callVars, minerVars, readVars, IInv, TypeOK, AnySnapshot
<1>9. ASSUME NEW g \in Caller, GiveUp(g)
      PROVE  TypeOK'
  BY <1>9 DEF GiveUp, Return, callVars, minerVars, readVars, IInv, TypeOK, AnySnapshot
<1>10. ASSUME NEW g \in Caller, Finish(g)
      PROVE  TypeOK'
  BY <1>10 DEF Finish, callVars, minerVars, readVars, IInv, TypeOK, AnySnapshot, ControlResult
<1>11. ASSUME NEW g \in Caller, BeginSetAuth(g)
      PROVE  TypeOK'
  <2>1. Nothing \in AnyArg /\ Nothing \in AnyMeaning
    BY DEF AnyArg, AnyMeaning
  <2>2. MayCall(g) /\ Numbered(g, Nothing, Nothing)
    BY <1>11 DEF BeginSetAuth
  <2>3. /\ calls' \in 0 .. MaxCalls
        /\ cur' \in [Caller -> 0 .. MaxCalls]
        /\ owner' \in [Call -> Caller \cup {Nil}]
        /\ arg' \in [Call -> AnyArg]
        /\ meant' \in [Call -> AnyMeaning]
        /\ \A h \in Caller \ {g} : cur'[h] = cur[h]
    BY <2>1, <2>2, NewCall
  <2> QED
    BY <1>11, <2>3 DEF BeginSetAuth, minerVars, readVars, IInv, TypeOK, AnyArg
<1>12. ASSUME NEW g \in Caller, RejectAuth(g)
      PROVE  TypeOK'
  BY <1>12 DEF RejectAuth, callVars, minerVars, readVars, IInv, TypeOK, AnySnapshot
<1>13. ASSUME NEW g \in Caller, WriteUser(g)
      PROVE  TypeOK'
  BY <1>13 DEF WriteUser, callVars, minerVars, readVars, IInv, TypeOK, AnySnapshot
<1>14. ASSUME NEW g \in Caller, WritePassword(g)
      PROVE  TypeOK'
  BY <1>14 DEF WritePassword, callVars, minerVars, readVars, IInv, TypeOK, AnySnapshot
<1>15. ASSUME NEW k \in Call, Apply(k)
      PROVE  TypeOK'
  BY <1>15 DEF Apply, callVars, readVars, IInv, TypeOK, Placed, Ordered, Call, AnyMeaning,
     AnySnapshot, ControlResult
<1>16. ASSUME NEW k \in Call, Refuse(k)
      PROVE  TypeOK'
  BY <1>16 DEF Refuse, callVars, readVars, IInv, TypeOK, AnySnapshot
<1> QED
  BY <1>1, <1>2, <1>3, <1>4, <1>5, <1>6, <1>7, <1>8, <1>9, <1>10, <1>11, <1>12, <1>13,
     <1>14, <1>15, <1>16 DEF Next, Step

\* A goroutine is where its call says.
LEMMA PlacedStep ==
  ASSUME IInv, Next
  PROVE  Placed'
<1>1. ASSUME NEW g \in Caller, GetData(g)
      PROVE  Placed'
  BY <1>1 DEF GetData, minerVars, IInv, TypeOK, Placed, Parsed
<1>2. ASSUME NEW g \in Caller, GetDataJSON(g)
      PROVE  Placed'
  BY <1>2 DEF GetDataJSON, minerVars, IInv, TypeOK, Placed, Parsed
<1>3. ASSUME NEW g \in Caller, SetTuningConfig(g)
      PROVE  Placed'
  <2>1. PICK json \in Text \cup {Nothing}, m \in AnyMeaning : TuningCall(g, json, m)
    BY <1>3, Tuning
  <2> DEFINE a == IF json = Nothing THEN Nothing ELSE <<"json", json>>
  <2>2. a \in AnyArg
    BY DEF AnyArg
  <2>3. MayCall(g) /\ Numbered(g, a, m)
    BY <2>1 DEF TuningCall
  <2> HIDE DEF a
  <2>4. CASE json = Nothing
    BY <2>1, <2>2, <2>3, <2>4, NewCall DEF TuningCall, minerVars, readVars, IInv, TypeOK,
       Placed, Parsed
  <2>5. CASE json # Nothing
    BY <2>1, <2>2, <2>3, <2>5, NewCall DEF TuningCall, minerVars, readVars, a, IInv, TypeOK,
       Placed, Parsed
  <2> QED
    BY <2>4, <2>5
<1>4. ASSUME NEW g \in Caller, Pause(g)
      PROVE  Placed'
  <2>1. PICK at \in At \cup {Nil} :
          Numbered(g, <<"seconds", IF at = Nil THEN -1 ELSE at>>, Asked(at))
    BY <1>4 DEF Pause
  <2> DEFINE a == <<"seconds", IF at = Nil THEN -1 ELSE at>>
  <2>2. a \in AnyArg
    BY DEF AnyArg
  <2>3. MayCall(g) /\ Numbered(g, a, Asked(at))
    BY <1>4, <2>1 DEF Pause
  <2>4. Asked(at) \in AnyMeaning
    BY DEF Asked, AnyMeaning
  <2>5. Asked(at) # Nothing =>
          (IF a[2] < 0 THEN <<"now">> ELSE <<"at", a[2]>>) = Asked(at)
    BY DEF Asked
  <2>6. a \in {"seconds"} \X (At \cup {-1})
    OBVIOUS
  <2> HIDE DEF a
  <2>7. pc' = [pc EXCEPT ![g] = "pause"] /\ UNCHANGED <<code, report, status>>
    BY <1>4 DEF Pause, minerVars
  <2>8. Asked(at) # Nothing => Parsed(g)' = Asked(at)
    BY <2>2, <2>3, <2>4, <2>5, <2>7, NewCall DEF Parsed, IInv, TypeOK
  <2>9. ASSUME NEW h \in Caller \ {g}, pc[h] \in {"tuning", "pause"}
        PROVE  Parsed(h)' = Parsed(h)
    <3>1. pc'[h] = pc[h] /\ cur'[h] = cur[h] /\ arg'[cur[h]] = arg[cur[h]]
      BY <2>2, <2>3, <2>4, <2>7, <2>9, NewCall DEF IInv, TypeOK
    <3> QED
      BY <3>1 DEF Parsed
  <2> QED
    BY <2>2, <2>3, <2>4, <2>6, <2>7, <2>8, <2>9, NewCall DEF IInv, TypeOK, Placed
<1>5. ASSUME NEW g \in Caller, Reject(g)
      PROVE  Placed'
  BY <1>5 DEF Reject, Return, callVars, minerVars, readVars, IInv, TypeOK, Placed, Parsed
<1>6. ASSUME NEW g \in Caller, Send(g)
      PROVE  Placed'
  BY <1>6 DEF Send, callVars, readVars, IInv, TypeOK, Placed, Parsed
<1>7. ASSUME NEW g \in Caller, SendNothing(g)
      PROVE  Placed'
  BY <1>7 DEF SendNothing, Return, callVars, minerVars, readVars, IInv, TypeOK, Placed, Parsed
<1>8. ASSUME NEW g \in Caller, Answer(g)
      PROVE  Placed'
  BY <1>8 DEF Answer, Return, callVars, minerVars, readVars, IInv, TypeOK, Placed, Parsed
<1>9. ASSUME NEW g \in Caller, GiveUp(g)
      PROVE  Placed'
  BY <1>9 DEF GiveUp, Return, callVars, minerVars, readVars, IInv, TypeOK, Placed, Parsed
<1>10. ASSUME NEW g \in Caller, Finish(g)
      PROVE  Placed'
  BY <1>10 DEF Finish, callVars, minerVars, readVars, IInv, TypeOK, Placed, Parsed
<1>11. ASSUME NEW g \in Caller, BeginSetAuth(g)
      PROVE  Placed'
  <2>1. Nothing \in AnyArg /\ Nothing \in AnyMeaning
    BY DEF AnyArg, AnyMeaning
  <2>2. MayCall(g) /\ Numbered(g, Nothing, Nothing)
    BY <1>11 DEF BeginSetAuth
  <2> QED
    BY <1>11, <2>1, <2>2, NewCall DEF BeginSetAuth, minerVars, readVars, IInv, TypeOK,
       Placed, Parsed
<1>12. ASSUME NEW g \in Caller, RejectAuth(g)
      PROVE  Placed'
  BY <1>12 DEF RejectAuth, callVars, minerVars, readVars, IInv, TypeOK, Placed, Parsed
<1>13. ASSUME NEW g \in Caller, WriteUser(g)
      PROVE  Placed'
  BY <1>13 DEF WriteUser, callVars, minerVars, readVars, IInv, TypeOK, Placed, Parsed
<1>14. ASSUME NEW g \in Caller, WritePassword(g)
      PROVE  Placed'
  BY <1>14 DEF WritePassword, callVars, minerVars, readVars, IInv, TypeOK, Placed, Parsed
<1>15. ASSUME NEW k \in Call, Apply(k)
      PROVE  Placed'
  BY <1>15 DEF Apply, callVars, readVars, IInv, TypeOK, Placed, Parsed
<1>16. ASSUME NEW k \in Call, Refuse(k)
      PROVE  Placed'
  BY <1>16 DEF Refuse, callVars, readVars, IInv, TypeOK, Placed, Parsed
<1> QED
  BY <1>1, <1>2, <1>3, <1>4, <1>5, <1>6, <1>7, <1>8, <1>9, <1>10, <1>11, <1>12, <1>13,
     <1>14, <1>15, <1>16 DEF Next, Step

-----------------------------------------------------------------------------
(* The theorems.                                                           *)

LEMMA Unchanged == IInv /\ UNCHANGED vars => IInv'
BY DEF IInv, TypeOK, Placed, Ordered, Requests, ReportedAsHappened, DeliveredAsMeant,
   SnapshotAsSaid, OldSettingsOnlyAfterErrors, Parsed, vars, callVars, minerVars, readVars

LEMMA Invariance == Spec => []IInv
<1>1. IInv /\ [Next]_vars => IInv'
  <2>1. IInv /\ Next => IInv'
    BY TypeStep, PlacedStep, OrderedStep, RequestsStep, SnapshotStep, ReportedStep,
       DeliveredStep, OldStep DEF IInv
  <2> QED
    BY <2>1, Unchanged
<1> QED
  BY IInvInit, <1>1, PTL DEF Spec

\* Every variable keeps its type.
THEOREM TypeCorrect == Spec => []TypeOK
<1>1. IInv => TypeOK
  BY DEF IInv
<1> QED
  BY <1>1, Invariance, PTL

\* What Pause, Resume, SetTuningConfig and their like report is what the miner
\* has done, and an error is the only report that says nothing about it.
THEOREM ReportsAreTrue == Spec => []ReportedAsHappened
<1>1. IInv => ReportedAsHappened
  BY DEF IInv
<1> QED
  BY <1>1, Invariance, PTL

\* A client that sends a target only if the decoding went well sends the target
\* that the miner has named, also from a variable used for many snapshots.
THEOREM MeaningIsDelivered == Spec => []DeliveredAsMeant
<1>1. IInv => DeliveredAsMeant
  BY DEF IInv
<1> QED
  BY <1>1, Invariance, PTL

\* A snapshot decoded into a used variable shows the reply and nothing older.
THEOREM SnapshotsAreTrue == Spec => []SnapshotAsSaid
<1>1. IInv => SnapshotAsSaid
  BY DEF IInv
<1> QED
  BY <1>1, Invariance, PTL

\* A late request can undo a newer one of its goroutine only after an error.
THEOREM NothingOldComesBackUnreported == Spec => []OldSettingsOnlyAfterErrors
<1>1. IInv => OldSettingsOnlyAfterErrors
  BY DEF IInv
<1> QED
  BY <1>1, Invariance, PTL

\* Credentials are written alone.
LEMMA AuthStep ==
  ASSUME AuthAlone, IInv, AuthInv, Next
  PROVE  AuthInv'
<1>1. ASSUME NEW g \in Caller, GetData(g)
      PROVE  AuthInv'
  BY <1>1 DEF GetData, minerVars, AuthInv, CredentialsWhole
<1>2. ASSUME NEW g \in Caller, GetDataJSON(g)
      PROVE  AuthInv'
  BY <1>2 DEF GetDataJSON, minerVars, AuthInv, CredentialsWhole
<1>3. ASSUME NEW g \in Caller, SetTuningConfig(g)
      PROVE  AuthInv'
  <2>1. PICK json \in Text \cup {Nothing}, m \in AnyMeaning : TuningCall(g, json, m)
    BY <1>3, Tuning
  <2> QED
    BY <2>1 DEF TuningCall, MayCall, Numbered, minerVars, readVars, IInv, TypeOK, Placed,
       Ordered, AuthInv, CredentialsWhole, Call, ControlResult
<1>4. ASSUME NEW g \in Caller, Pause(g)
      PROVE  AuthInv'
  BY <1>4 DEF Pause, MayCall, Numbered, minerVars, readVars, IInv, TypeOK, Placed, AuthInv,
     CredentialsWhole
<1>5. ASSUME NEW g \in Caller, Reject(g)
      PROVE  AuthInv'
  BY <1>5 DEF Reject, Return, callVars, minerVars, readVars, AuthInv, CredentialsWhole
<1>6. ASSUME NEW g \in Caller, Send(g)
      PROVE  AuthInv'
  BY <1>6 DEF Send, callVars, readVars, IInv, TypeOK, Placed, AuthInv, CredentialsWhole
<1>7. ASSUME NEW g \in Caller, SendNothing(g)
      PROVE  AuthInv'
  BY <1>7 DEF SendNothing, Return, callVars, minerVars, readVars, AuthInv, CredentialsWhole
<1>8. ASSUME NEW g \in Caller, Answer(g)
      PROVE  AuthInv'
  BY <1>8 DEF Answer, Return, callVars, minerVars, readVars, AuthInv, CredentialsWhole
<1>9. ASSUME NEW g \in Caller, GiveUp(g)
      PROVE  AuthInv'
  BY <1>9 DEF GiveUp, Return, callVars, minerVars, readVars, AuthInv, CredentialsWhole
<1>10. ASSUME NEW g \in Caller, Finish(g)
      PROVE  AuthInv'
  BY <1>10 DEF Finish, callVars, minerVars, readVars, IInv, TypeOK, Placed, AuthInv,
     CredentialsWhole
<1>11. ASSUME NEW g \in Caller, BeginSetAuth(g)
      PROVE  AuthInv'
  BY <1>11 DEF BeginSetAuth, Numbered, minerVars, readVars, AuthInv, CredentialsWhole
<1>12. ASSUME NEW g \in Caller, RejectAuth(g)
      PROVE  AuthInv'
  BY <1>12 DEF RejectAuth, callVars, minerVars, readVars, IInv, TypeOK, Placed, AuthInv,
     CredentialsWhole
<1>13. ASSUME NEW g \in Caller, WriteUser(g)
      PROVE  AuthInv'
  BY <1>13 DEF WriteUser, callVars, minerVars, readVars, IInv, TypeOK, Placed, AuthInv,
     CredentialsWhole
<1>14. ASSUME NEW g \in Caller, WritePassword(g)
      PROVE  AuthInv'
  BY <1>14 DEF WritePassword, callVars, minerVars, readVars, IInv, TypeOK, Placed, AuthInv,
     CredentialsWhole
<1>15. ASSUME NEW k \in Call, Apply(k)
      PROVE  AuthInv'
  BY <1>15 DEF Apply, callVars, readVars, AuthInv, CredentialsWhole
<1>16. ASSUME NEW k \in Call, Refuse(k)
      PROVE  AuthInv'
  BY <1>16 DEF Refuse, callVars, readVars, AuthInv, CredentialsWhole
<1> QED
  BY <1>1, <1>2, <1>3, <1>4, <1>5, <1>6, <1>7, <1>8, <1>9, <1>10, <1>11, <1>12, <1>13,
     <1>14, <1>15, <1>16 DEF Next, Step

\* Where the client lets SetAuth run alone, as the code cannot see to itself, no
\* request is sent under the user name of one call and the password of another.
THEOREM CredentialsAreWhole ==
  ASSUME AuthAlone
  PROVE  Spec => []CredentialsWhole
<1>1. Init => AuthInv
  BY DEF Init, AuthInv, CredentialsWhole
<1>2. IInv /\ AuthInv /\ [Next]_vars => AuthInv'
  <2>1. IInv /\ AuthInv /\ Next => AuthInv'
    BY AuthStep
  <2>2. AuthInv /\ UNCHANGED vars => AuthInv'
    BY DEF AuthInv, CredentialsWhole, vars, callVars, minerVars, readVars
  <2> QED
    BY <2>1, <2>2
<1>3. AuthInv => CredentialsWhole
  BY DEF AuthInv
<1> QED
  BY <1>1, <1>2, <1>3, Invariance, PTL DEF Spec

-----------------------------------------------------------------------------
(* Refinement of RemoteSetting: the miner's Apply is the write, Finish the *)
(* return; a call that hands nothing over does not exist there.            *)

\* Nothing has happened in the beginning.
LEMMA RemoteInit == Init => Remote!Init
BY DEF Init, Remote!Init, HandsOver, Call

\* What RemoteSetting sees of two states is the same if they differ in calls
\* that hand nothing over and in requests that are under way.
LEMMA RemoteUnseen ==
  ASSUME \A n \in Call :
           /\ arg[n] # Nothing <=> arg'[n] # Nothing
           /\ arg[n] # Nothing =>
                owner'[n] = owner[n] /\ meant'[n] = meant[n] /\ report'[n] = report[n]
           /\ status'[n] = status[n] \/ {status[n], status'[n]} = {"none", "sent"},
         setting' = setting,
         setting # 0 => got'[setting] = got[setting]
  PROVE  UNCHANGED Remote!vars
<1> USE DEF HandsOver, Remote!vars
<1>1. \A n \in Call : (arg'[n] # Nothing) = (arg[n] # Nothing)
  OBVIOUS
<1>2. /\ UNCHANGED [n \in Call |-> IF arg[n] # Nothing THEN owner[n] ELSE Nil]
      /\ UNCHANGED [n \in Call |-> IF arg[n] # Nothing THEN meant[n] ELSE Nothing]
      /\ UNCHANGED [n \in Call |-> IF arg[n] # Nothing THEN report[n] ELSE "none"]
  OBVIOUS
<1>3. UNCHANGED [n \in Call |-> IF status[n] = "sent" THEN "none" ELSE status[n]]
  <2>1. \A n \in Call : (IF status'[n] = "sent" THEN "none" ELSE status'[n])
                          = (IF status[n] = "sent" THEN "none" ELSE status[n])
    OBVIOUS
  <2> QED
    BY <2>1
<1>4. UNCHANGED (IF setting = 0 THEN Nothing ELSE got[setting])
  OBVIOUS
<1> QED
  BY <1>2, <1>3, <1>4

\* A call that hands something over begins, any other is not seen.
LEMMA RemoteBegin ==
  ASSUME IInv, NEW g \in Caller, NEW a \in AnyArg, NEW m \in AnyMeaning,
         MayCall(g), Numbered(g, a, m), UNCHANGED minerVars,
         UNCHANGED report \/ (a = Nothing /\ \E r : report' = [report EXCEPT ![calls + 1] = r])
  PROVE  [Remote!Next]_(Remote!vars)
<1>0. PICK k \in Call : k = calls + 1
  BY NewCall
<1>1. /\ owner[k] = Nil /\ arg[k] = Nothing
      /\ owner' = [owner EXCEPT ![k] = g]
      /\ arg' = [arg EXCEPT ![k] = a]
      /\ meant' = [meant EXCEPT ![k] = m]
      /\ \A n \in Call : owner[n] # Nil => n < k
      /\ pc[g] = "idle"
  <2>1. calls \in Nat /\ pc[g] = "idle"
    BY CallAssumption DEF IInv, TypeOK, MayCall
  <2> QED
    BY <1>0, <2>1 DEF IInv, Ordered, Numbered, Call
<1>2. UNCHANGED <<got, status, setting>>
  BY DEF minerVars
<1>3. CASE a = Nothing
  <2>1. \A n \in Call : arg'[n] = arg[n]
    BY <1>1, <1>3 DEF IInv, TypeOK
  <2>2. \A n \in Call : arg[n] # Nothing => n # k
    BY <1>1
  <2>3. \A n \in Call : n # k =>
          owner'[n] = owner[n] /\ meant'[n] = meant[n] /\ report'[n] = report[n]
    BY <1>0, <1>1 DEF IInv, TypeOK
  <2> QED
    BY <1>2, <2>1, <2>2, <2>3, RemoteUnseen
<1>4. CASE a # Nothing
  <2>1. UNCHANGED report
    BY <1>4
  <2>2. \A n \in Call :
          IF n = k THEN HandsOver(n)' /\ owner'[n] = g /\ meant'[n] = m
                        /\ ~HandsOver(n) /\ report[n] = "none"
          ELSE /\ HandsOver(n)' = HandsOver(n)
               /\ owner'[n] = owner[n] /\ meant'[n] = meant[n]
    BY <1>1, <1>4 DEF IInv, TypeOK, Ordered, HandsOver
  <2>3. \A n \in Call : HandsOver(n) => owner[n] # Nil
    BY DEF IInv, Ordered, HandsOver
  <2>4. \A n \in Call : (IF HandsOver(n) THEN owner[n] ELSE Nil) = g => HandsOver(n) /\ owner[n] = g
    BY CallAssumption
  <2>5. \A n \in Call : owner[n] = g => report[n] # "none"
    BY <1>1 DEF IInv, Ordered
  <2>6. [n \in Call |-> IF HandsOver(n) THEN owner[n] ELSE Nil]'
          = [[n \in Call |-> IF HandsOver(n) THEN owner[n] ELSE Nil] EXCEPT ![k] = g]
    BY <2>2
  <2>7. [n \in Call |-> IF HandsOver(n) THEN meant[n] ELSE Nothing]'
          = [[n \in Call |-> IF HandsOver(n) THEN meant[n] ELSE Nothing] EXCEPT ![k] = m]
    BY <2>2
  <2>8. UNCHANGED [n \in Call |-> IF HandsOver(n) THEN report[n] ELSE "none"]
    BY <2>1, <2>2
  <2>9. UNCHANGED <<[n \in Call |-> IF status[n] = "sent" THEN "none" ELSE status[n]],
                    setting, IF setting = 0 THEN Nothing ELSE got[setting]>>
    BY <1>2
  <2>10. Remote!Begin(g, k)
    BY <1>1, <2>3, <2>4, <2>5, <2>6, <2>7, <2>8, <2>9 DEF Remote!Begin
  <2> QED
    BY <2>10 DEF Remote!Next
<1> QED
  BY <1>3, <1>4

\* Finish returns what the miner has done so far, if only that it may yet do it.
LEMMA RemoteReturn ==
  ASSUME IInv, NEW g \in Caller, Finish(g)
  PROVE  [Remote!Next]_(Remote!vars)
<1>0. PICK k \in Call : k = cur[g]
  BY DEF Finish, IInv, Placed
<1>1. /\ owner[k] = g /\ report[k] = "none"
      /\ code[g] = 1 => status[k] = "applied"
      /\ code[g] = 0 => status[k] \in {"none", "refused"}
      /\ code[g] \in {-1, 0, 1}
  BY <1>0 DEF Finish, IInv, TypeOK, Placed
<1>2. PICK r \in {"true", "false", "error"} : r = ControlResult(code[g])
  BY <1>1 DEF ControlResult
<1>3. /\ report' = [report EXCEPT ![k] = r] /\ UNCHANGED <<callVars, minerVars>>
      /\ r = "true" => status[k] = "applied"
      /\ r = "false" => status[k] # "applied"
  BY <1>0, <1>1, <1>2 DEF Finish, ControlResult
<1>4. UNCHANGED <<arg, owner, meant, status, setting, got>>
  BY <1>3 DEF callVars, minerVars
<1>5. CASE ~HandsOver(k)
  BY <1>1, <1>3, <1>4, <1>5, RemoteUnseen DEF HandsOver, IInv, TypeOK
<1>6. CASE HandsOver(k)
  <2>1. \A n \in Call : HandsOver(n)' = HandsOver(n)
    BY <1>4 DEF HandsOver
  <2>2. [n \in Call |-> IF HandsOver(n) THEN report[n] ELSE "none"]'
          = [[n \in Call |-> IF HandsOver(n) THEN report[n] ELSE "none"] EXCEPT ![k] = r]
    BY <1>1, <1>3, <1>6, <2>1 DEF IInv, TypeOK
  <2>3. /\ UNCHANGED [n \in Call |-> IF HandsOver(n) THEN owner[n] ELSE Nil]
        /\ UNCHANGED [n \in Call |-> IF HandsOver(n) THEN meant[n] ELSE Nothing]
        /\ UNCHANGED [n \in Call |-> IF status[n] = "sent" THEN "none" ELSE status[n]]
        /\ UNCHANGED <<setting, IF setting = 0 THEN Nothing ELSE got[setting]>>
    BY <1>4, <2>1
  <2>4. g # Nil
    BY CallAssumption
  <2>5. Remote!Return(k, r)
    BY <1>1, <1>3, <1>6, <2>2, <2>3, <2>4 DEF Remote!Return
  <2> QED
    BY <2>5 DEF Remote!Next
<1> QED
  BY <1>5, <1>6

\* The miner takes or refuses a request whose call has not returned, or not
\* known what became of it.
LEMMA RemoteTake ==
  ASSUME IInv, NEW k \in Call, Apply(k) \/ Refuse(k)
  PROVE  [Remote!Next]_(Remote!vars)
<1>1. status[k] = "sent" /\ UNCHANGED <<arg, owner, meant, report, got>>
  BY DEF Apply, Refuse, callVars
<1>2. /\ HandsOver(k) /\ owner[k] # Nil
      /\ report[k] \in {"none", "error"}
      /\ meant[k] # Nothing => got[k] = meant[k]
  BY <1>1 DEF IInv, TypeOK, Ordered, Requests, ReportedAsHappened, DeliveredAsMeant, HandsOver
<1>3. \A n \in Call : HandsOver(n)' = HandsOver(n)
  BY <1>1 DEF HandsOver
<1>4. /\ UNCHANGED [n \in Call |-> IF HandsOver(n) THEN owner[n] ELSE Nil]
      /\ UNCHANGED [n \in Call |-> IF HandsOver(n) THEN meant[n] ELSE Nothing]
      /\ UNCHANGED [n \in Call |-> IF HandsOver(n) THEN report[n] ELSE "none"]
  BY <1>1, <1>3
<1>5. ASSUME NEW e \in {"applied", "refused"}, status' = [status EXCEPT ![k] = e]
      PROVE  Remote!Take(k, e)
  <2>1. [n \in Call |-> IF status[n] = "sent" THEN "none" ELSE status[n]]'
          = [[n \in Call |-> IF status[n] = "sent" THEN "none" ELSE status[n]] EXCEPT ![k] = e]
    BY <1>5 DEF IInv, TypeOK
  <2> QED
    BY <1>1, <1>2, <1>4, <2>1 DEF Remote!Take
<1>6. CASE Apply(k)
  <2>1. setting' = k /\ k # 0 /\ Remote!Take(k, "applied")
    BY <1>5, <1>6 DEF Apply, Call
  <2>2. got[k] \in AnyMeaning \ {Nothing}
    BY <1>1 DEF IInv, TypeOK, Requests
  <2>3. Remote!Write(k)
    BY <1>1, <1>2, <2>1, <2>2 DEF Remote!Write
  <2> QED
    BY <2>3 DEF Remote!Next
<1>7. CASE Refuse(k)
  <2>1. Remote!Refuse(k)
    BY <1>1, <1>5, <1>7 DEF Refuse, Remote!Refuse
  <2> QED
    BY <2>1 DEF Remote!Next
<1> QED
  BY <1>6, <1>7

\* Every other step is one that RemoteSetting does not see.
LEMMA RemoteNext ==
  ASSUME IInv, [Next]_vars
  PROVE  [Remote!Next]_(Remote!vars)
<1>1. ASSUME NEW g \in Caller,
             \/ GetData(g) \/ GetDataJSON(g) \/ Reject(g) \/ SendNothing(g)
             \/ Answer(g) \/ GiveUp(g) \/ WriteUser(g)
      PROVE  UNCHANGED Remote!vars
  <2>1. UNCHANGED <<arg, owner, meant, report, status, setting, got>>
    BY <1>1 DEF GetData, GetDataJSON, Reject, SendNothing, Answer, GiveUp, WriteUser,
       Return, callVars, minerVars
  <2> QED
    BY <2>1, RemoteUnseen
<1>2. ASSUME NEW g \in Caller, RejectAuth(g) \/ WritePassword(g)
      PROVE  UNCHANGED Remote!vars
  <2>1. /\ UNCHANGED <<arg, owner, meant, status, setting, got>>
        /\ arg[cur[g]] = Nothing
        /\ \A n \in Call : n # cur[g] => report'[n] = report[n]
    BY <1>2 DEF RejectAuth, WritePassword, callVars, minerVars, IInv, TypeOK, Placed
  <2> QED
    BY <2>1, RemoteUnseen
<1>3. ASSUME NEW g \in Caller, Send(g)
      PROVE  UNCHANGED Remote!vars
  <2>1. /\ cur[g] \in Call /\ status[cur[g]] = "none"
        /\ status' = [status EXCEPT ![cur[g]] = "sent"]
        /\ got' = [got EXCEPT ![cur[g]] = Parsed(g)]
        /\ UNCHANGED <<arg, owner, meant, report, setting>>
    BY <1>3 DEF Send, callVars, IInv, Placed
  <2>2. setting # cur[g]
    BY <2>1 DEF IInv, Requests
  <2>3. \A n \in Call : n # cur[g] => status'[n] = status[n]
    BY <2>1 DEF IInv, TypeOK
  <2>4. status'[cur[g]] = "sent"
    BY <2>1 DEF IInv, TypeOK
  <2>5. setting # 0 => got'[setting] = got[setting]
    BY <2>1, <2>2 DEF IInv, TypeOK, Call
  <2> QED
    BY <2>1, <2>3, <2>4, <2>5, RemoteUnseen
<1>4. ASSUME NEW g \in Caller, SetTuningConfig(g)
      PROVE  [Remote!Next]_(Remote!vars)
  <2>1. PICK json \in Text \cup {Nothing}, m \in AnyMeaning : TuningCall(g, json, m)
    BY <1>4, Tuning
  <2>2. (IF json = Nothing THEN Nothing ELSE <<"json", json>>) \in AnyArg
    BY DEF AnyArg
  <2> QED
    BY <2>1, <2>2, RemoteBegin DEF TuningCall
<1>5. ASSUME NEW g \in Caller, Pause(g)
      PROVE  [Remote!Next]_(Remote!vars)
  <2>1. PICK at \in At \cup {Nil} :
          Numbered(g, <<"seconds", IF at = Nil THEN -1 ELSE at>>, Asked(at))
    BY <1>5 DEF Pause
  <2>2. <<"seconds", IF at = Nil THEN -1 ELSE at>> \in AnyArg /\ Asked(at) \in AnyMeaning
    BY DEF AnyArg, Asked, AnyMeaning
  <2> QED
    BY <1>5, <2>1, <2>2, RemoteBegin DEF Pause
<1>6. ASSUME NEW g \in Caller, BeginSetAuth(g)
      PROVE  [Remote!Next]_(Remote!vars)
  <2>1. Nothing \in AnyArg /\ Nothing \in AnyMeaning
    BY DEF AnyArg, AnyMeaning
  <2> QED
    BY <1>6, <2>1, RemoteBegin DEF BeginSetAuth
<1>7. CASE UNCHANGED vars
  BY <1>7, RemoteUnseen DEF vars, callVars, minerVars
<1> QED
  BY <1>1, <1>2, <1>3, <1>4, <1>5, <1>6, <1>7, RemoteReturn, RemoteTake DEF Next, Step

\* A control call is one write of what its argument stands for, at a moment
\* between the call and its return, or after an error also later: for any
\* number of goroutines, calls and values.
THEOREM Refinement == Spec => RefinesRemoteSetting
<1>1. IInv /\ [Next]_vars => [Remote!Next]_(Remote!vars)
  BY RemoteNext
<1> QED
  BY <1>1, RemoteInit, Invariance, PTL DEF Spec, RefinesRemoteSetting, Remote!Spec
=============================================================================
