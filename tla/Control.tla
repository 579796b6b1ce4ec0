------------------------------ MODULE Control ------------------------------
(***************************************************************************)
(* Goroutines of a client that control one miner through its open handle.  *)
(* They read a snapshot (GetData, or GetDataJSON decoded into the variable *)
(* of the last one), send a tuning target they have read or made, pause or *)
(* resume, and change the credentials.                                     *)
(*                                                                         *)
(* A control call encodes its argument, crosses to the library, which      *)
(* parses it and sends one request, and reports 1, 0 or -1.  The miner and *)
(* asic-rs are outside the repository: a request may be applied, refused   *)
(* or lost, its answer may come or not, and the call may give up at any    *)
(* moment with the request still under way.                                *)
(***************************************************************************)
EXTENDS Codecs

CONSTANTS
  Caller,        \* the goroutines
  MaxCalls,      \* bound on the calls of all of them
  Reply,         \* the snapshots the library may return
  At,            \* the times Pause and Resume are asked for, in seconds
  AuthAlone      \* does the client let SetAuth run alone?

ASSUME CallAssumption ==
  /\ MaxCalls \in Nat
  /\ Reply \subseteq [target : Text, uptime : UptimeText]
  /\ At \subseteq Int
  /\ Nil \notin Caller
  /\ Nothing \notin ({"json"} \X Text) \cup ({"seconds"} \X Int)
  /\ AuthAlone \in BOOLEAN

Call == 1 .. MaxCalls

VARIABLES
  pc,        \* where a goroutine is in a method
  cur,       \* the call it made last, or 0
  code,      \* the code its call returns
  calls,     \* the number of calls made
  owner,     \* who made each control call
  arg,       \* what each call hands to the library
  meant,     \* what its Go argument stands for
  got,       \* what the miner is sent
  under,     \* the credentials it is sent under
  status,    \* "none", "sent", "applied" or "refused"
  report,    \* what each call has returned: "none", "true", "false", "error"
  setting,   \* the call whose setting is in force at the miner, or 0
  creds,     \* the credentials in the box: the calls that set each half
  snapshot,  \* the client's MinerData
  said       \* the reply it was decoded from, if that succeeded

callVars == <<cur, calls, owner, arg, meant>>
minerVars == <<got, under, status, setting>>
readVars == <<snapshot, said>>
vars == <<pc, code, report, creds, callVars, minerVars, readVars>>

-----------------------------------------------------------------------------
(* Reading.                                                                *)

MayCall(g) ==
  /\ pc[g] = "idle" /\ calls < MaxCalls
  /\ AuthAlone => \A h \in Caller : pc[h] \notin {"auth", "user"}

NewSnapshot == [target |-> Nil, uptime |-> Nil]

\* A null makes the pointer nil, anything else is decoded into what it points
\* to, which is new if it was nil.
DecodePointer(t, text) ==
  IF text.shape = "null"
    THEN [ok |-> TRUE, var |-> Nil]
    ELSE Decode(IF t = Nil THEN Fresh ELSE t, text)

\* The tuning target comes before the uptime, and an error of its decoder ends
\* the decoding.
DecodeSnapshot(s, reply) ==
  LET t == DecodePointer(s.target, reply.target)
      u == DecodeUptime(s.uptime, reply.uptime)
  IN  [ok |-> t.ok /\ u.ok,
       var |-> [target |-> t.var, uptime |-> IF t.ok THEN u.var ELSE s.uptime]]

\* GetData decodes into a MinerData of its own and returns none on an error.
GetData(g) ==
  /\ MayCall(g)
  /\ \E reply \in Reply :
       LET d == DecodeSnapshot(NewSnapshot, reply)
       IN  /\ d.ok
           /\ snapshot' = d.var
           /\ said' = reply
  /\ calls' = calls + 1
  /\ UNCHANGED <<pc, code, report, creds, cur, owner, arg, meant, minerVars>>

\* GetDataJSON, and the client's json.Unmarshal into the last snapshot.
GetDataJSON(g) ==
  /\ MayCall(g)
  /\ \E reply \in Reply :
       LET d == DecodeSnapshot(snapshot, reply)
       IN  /\ snapshot' = d.var
           /\ said' = IF d.ok THEN reply ELSE Nothing
  /\ calls' = calls + 1
  /\ UNCHANGED <<pc, code, report, creds, cur, owner, arg, meant, minerVars>>

-----------------------------------------------------------------------------
(* The Go side of a control call.                                          *)

\* The next call, of g, with what it hands over and what that stands for.
Numbered(g, a, m) ==
  /\ calls' = calls + 1
  /\ cur' = [cur EXCEPT ![g] = calls + 1]
  /\ owner' = [owner EXCEPT ![calls + 1] = g]
  /\ arg' = [arg EXCEPT ![calls + 1] = a]
  /\ meant' = [meant EXCEPT ![calls + 1] = m]

\* A client that heeds errors sends a target only from a snapshot that was
\* decoded without one; it may also make one itself, and leave out its value.
Choices ==
  {<<[Fresh EXCEPT !.kind = kind], Nothing>> : kind \in Tag \cup {"none"}}
    \cup IF said # Nothing /\ snapshot.target # Nil
           THEN {<<snapshot.target, Says(said.target)>>}
           ELSE {}

\* SetTuningConfig; where json.Marshal fails, nothing is handed over.
SetTuningConfig(g) ==
  /\ MayCall(g)
  /\ \E choice \in Choices :
       LET json == Encode(choice[1])
       IN  \/ /\ json = Nothing
              /\ Numbered(g, Nothing, choice[2])
              /\ report' = [report EXCEPT ![calls + 1] = "error"]
              /\ UNCHANGED pc
           \/ /\ json # Nothing
              /\ Numbered(g, <<"json", json>>, choice[2])
              /\ pc' = [pc EXCEPT ![g] = "tuning"]
              /\ UNCHANGED report
  /\ UNCHANGED <<code, creds, minerVars, readVars>>

\* A nil time asks for now.  What a negative one asks for is said nowhere.
Asked(at) ==
  IF at = Nil THEN <<"now">> ELSE IF at < 0 THEN Nothing ELSE <<"at", at>>

\* Pause and Resume; nil becomes -1 seconds.
Pause(g) ==
  /\ MayCall(g)
  /\ \E at \in At \cup {Nil} :
       Numbered(g, <<"seconds", IF at = Nil THEN -1 ELSE at>>, Asked(at))
  /\ pc' = [pc EXCEPT ![g] = "pause"]
  /\ UNCHANGED <<code, report, creds, minerVars, readVars>>

-----------------------------------------------------------------------------
(* The library.                                                            *)

\* What the library makes of its argument.
Parsed(g) ==
  LET a == arg[cur[g]][2]
  IN  IF pc[g] = "tuning" THEN Parse(a)
      ELSE IF a < 0 THEN <<"now">> ELSE <<"at", a>>

Return(g, rc) ==
  /\ pc' = [pc EXCEPT ![g] = "return"]
  /\ code' = [code EXCEPT ![g] = rc]

\* The JSON is not one of the type.
Reject(g) ==
  /\ pc[g] = "tuning"
  /\ Parsed(g) = Nothing
  /\ Return(g, -1)
  /\ UNCHANGED <<report, creds, callVars, minerVars, readVars>>

\* block_on starts the future, which sends the request.
Send(g) ==
  /\ pc[g] \in {"tuning", "pause"}
  /\ Parsed(g) # Nothing
  /\ got' = [got EXCEPT ![cur[g]] = Parsed(g)]
  /\ under' = [under EXCEPT ![cur[g]] = creds]
  /\ status' = [status EXCEPT ![cur[g]] = "sent"]
  /\ pc' = [pc EXCEPT ![g] = "wait"]
  /\ UNCHANGED <<code, report, setting, creds, callVars, readVars>>

\* The backend does not support the command (0) or cannot send it (-1).
SendNothing(g) ==
  /\ pc[g] \in {"tuning", "pause"}
  /\ Parsed(g) # Nothing
  /\ \E rc \in {0, -1} : Return(g, rc)
  /\ UNCHANGED <<report, creds, callVars, minerVars, readVars>>

\* The miner, which may be late.
Apply(n) ==
  /\ status[n] = "sent"
  /\ status' = [status EXCEPT ![n] = "applied"]
  /\ setting' = n
  /\ UNCHANGED <<pc, code, report, creds, callVars, got, under, readVars>>

Refuse(n) ==
  /\ status[n] = "sent"
  /\ status' = [status EXCEPT ![n] = "refused"]
  /\ UNCHANGED <<pc, code, report, creds, callVars, got, under, setting, readVars>>

\* Mutant: a request that is on its way counts as done.
AnswerEarly(g) ==
  /\ pc[g] = "wait"
  /\ status[cur[g]] \in {"sent", "applied", "refused"}
  /\ Return(g, IF status[cur[g]] = "refused" THEN 0 ELSE 1)
  /\ UNCHANGED <<report, creds, callVars, minerVars, readVars>>

\* The library has the miner's answer.
Answer(g) ==
  /\ pc[g] = "wait"
  /\ status[cur[g]] \in {"applied", "refused"}
  /\ Return(g, IF status[cur[g]] = "applied" THEN 1 ELSE 0)
  /\ UNCHANGED <<report, creds, callVars, minerVars, readVars>>

\* Mutant: a request without an answer counts as refused.
GiveUpRefused(g) ==
  /\ pc[g] = "wait"
  /\ Return(g, 0)
  /\ UNCHANGED <<report, creds, callVars, minerVars, readVars>>

\* A timeout or a broken connection, wherever the request is by now.
GiveUp(g) ==
  /\ pc[g] = "wait"
  /\ Return(g, -1)
  /\ UNCHANGED <<report, creds, callVars, minerVars, readVars>>

\* Mutant: any code but an error is a success.
ControlResultOfSign(rc) == IF rc >= 0 THEN "true" ELSE "error"

ControlResult(rc) ==
  CASE rc = 1 -> "true"
    [] rc = 0 -> "false"
    [] OTHER -> "error"

Finish(g) ==
  /\ pc[g] = "return"
  /\ report' = [report EXCEPT ![cur[g]] = ControlResult(code[g])]
  /\ pc' = [pc EXCEPT ![g] = "idle"]
  /\ UNCHANGED <<code, creds, callVars, minerVars, readVars>>

-----------------------------------------------------------------------------
(* SetAuth.                                                                *)

BeginSetAuth(g) ==
  /\ MayCall(g)
  /\ AuthAlone => \A h \in Caller : pc[h] = "idle"
  /\ Numbered(g, Nothing, Nothing)
  /\ pc' = [pc EXCEPT ![g] = "auth"]
  /\ UNCHANGED <<code, report, creds, minerVars, readVars>>

\* Mutant: the user name is stored before the password has been read.
RejectAuthHalfway(g) ==
  /\ pc[g] = "auth"
  /\ creds' = [creds EXCEPT !.user = cur[g]]
  /\ report' = [report EXCEPT ![cur[g]] = "error"]
  /\ pc' = [pc EXCEPT ![g] = "idle"]
  /\ UNCHANGED <<code, callVars, minerVars, readVars>>

\* One of the strings is not UTF-8.
RejectAuth(g) ==
  /\ pc[g] = "auth"
  /\ report' = [report EXCEPT ![cur[g]] = "error"]
  /\ pc' = [pc EXCEPT ![g] = "idle"]
  /\ UNCHANGED <<code, creds, callVars, minerVars, readVars>>

\* The MinerAuth is overwritten in place, which is not atomic.
WriteUser(g) ==
  /\ pc[g] = "auth"
  /\ creds' = [creds EXCEPT !.user = cur[g]]
  /\ pc' = [pc EXCEPT ![g] = "user"]
  /\ UNCHANGED <<code, report, callVars, minerVars, readVars>>

WritePassword(g) ==
  /\ pc[g] = "user"
  /\ creds' = [creds EXCEPT !.password = cur[g]]
  /\ report' = [report EXCEPT ![cur[g]] = "true"]
  /\ pc' = [pc EXCEPT ![g] = "idle"]
  /\ UNCHANGED <<code, callVars, minerVars, readVars>>

-----------------------------------------------------------------------------

Init ==
  /\ pc = [g \in Caller |-> "idle"]
  /\ cur = [g \in Caller |-> 0]
  /\ code = [g \in Caller |-> 0]
  /\ calls = 0
  /\ owner = [n \in Call |-> Nil]
  /\ arg = [n \in Call |-> Nothing]
  /\ meant = [n \in Call |-> Nothing]
  /\ got = [n \in Call |-> Nothing]
  /\ under = [n \in Call |-> Nil]
  /\ status = [n \in Call |-> "none"]
  /\ report = [n \in Call |-> "none"]
  /\ setting = 0
  /\ creds = [user |-> 0, password |-> 0]
  /\ snapshot = NewSnapshot
  /\ said = Nothing

Step(g) ==
  \/ GetData(g)
  \/ GetDataJSON(g)
  \/ SetTuningConfig(g)
  \/ Pause(g)
  \/ Reject(g)
  \/ Send(g)
  \/ SendNothing(g)
  \/ Answer(g)
  \/ GiveUp(g)
  \/ Finish(g)
  \/ BeginSetAuth(g)
  \/ RejectAuth(g)
  \/ WriteUser(g)
  \/ WritePassword(g)

Next ==
  \/ \E g \in Caller : Step(g)
  \/ \E n \in Call : Apply(n) \/ Refuse(n)

Spec == Init /\ [][Next]_vars

-----------------------------------------------------------------------------
(* Properties.                                                             *)

\* What a Go argument may stand for: a target, a time, or nothing in particular.
AnyMeaning == Meaning \cup {<<"at", at>> : at \in At} \cup {<<"now">>, Nothing}

\* Every variable keeps its type; in particular a call never hands the library
\* something else than a text or a time, and waits only for a request it sent.
TypeOK ==
  /\ pc \in [Caller -> {"idle", "tuning", "pause", "wait", "return", "auth", "user"}]
  /\ code \in [Caller -> {-1, 0, 1}]
  /\ calls \in 0 .. MaxCalls
  /\ cur \in [Caller -> 0 .. MaxCalls]
  /\ \A g \in Caller : pc[g] = "wait" => status[cur[g]] # "none"
  /\ owner \in [Call -> Caller \cup {Nil}]
  /\ arg \in [Call -> ({"json"} \X Text) \cup ({"seconds"} \X (At \cup {-1})) \cup {Nothing}]
  /\ meant \in [Call -> AnyMeaning]
  /\ got \in [Call -> AnyMeaning]
  /\ status \in [Call -> {"none", "sent", "applied", "refused"}]
  /\ report \in [Call -> {"none", "true", "false", "error"}]
  /\ setting \in 0 .. MaxCalls
  /\ creds \in [user : 0 .. MaxCalls, password : 0 .. MaxCalls]
  /\ under \in [Call -> [user : 0 .. MaxCalls, password : 0 .. MaxCalls] \cup {Nil}]
  /\ snapshot \in [target : Target \cup {Nil}, uptime : Uptime \cup {Nil}]
  /\ said \in Reply \cup {Nothing}

\* A call that reports true has been applied by the miner, one that reports
\* false never is; only after an error may either be the case, also later on.
ReportedAsHappened ==
  \A n \in Call : arg[n] # Nothing =>
    /\ report[n] = "true" => status[n] = "applied"
    /\ report[n] = "false" => status[n] \in {"none", "refused"}

\* What the miner is sent is what the Go argument stands for: the target that a
\* reply named, through whatever variable it was decoded and whatever the
\* variable held before, or the time asked for.
DeliveredAsMeant ==
  \A n \in Call :
    meant[n] # Nothing /\ status[n] # "none" => got[n] = meant[n]

\* What a snapshot shows of a reply.
Shows(s, reply) ==
  /\ s.target = Nil <=> reply.target.shape = "null"
  /\ Says(reply.target) # Nothing => Parse(Encode(s.target)) = Says(reply.target)
  /\ s.uptime = Nil <=> reply.uptime.form = "null"
  /\ reply.uptime.form # "null" =>
       LET secs == reply.uptime.secs
           nanos == IF reply.uptime.form = "bare" THEN 0 ELSE reply.uptime.nanos
       IN  /\ Duration(s.uptime) = Signed(UptimeOf(secs) + nanos)
           /\ secs * Second + nanos < Half =>
                Duration(s.uptime) = secs * Second + nanos

\* A snapshot decoded without an error shows the reply: it has a target and an
\* uptime where the reply has, the target can be sent back as it is, and the
\* uptime is exact as long as a time.Duration can hold it, and up to its
\* fraction that of GetUptime even beyond.
SnapshotAsSaid == said # Nothing => Shows(snapshot, said)

\* An older setting of a goroutine comes back over a newer one that the miner
\* has applied only if the older call has reported an error.
OldSettingsOnlyAfterErrors ==
  \A n, m \in Call :
    /\ n < m /\ owner[n] = owner[m]
    /\ status[m] = "applied"
    /\ setting = n
    => report[n] = "error"

\* Every request is sent under the user name and the password of one SetAuth,
\* which has succeeded, or under the initial ones.
CredentialsWhole ==
  \A n \in Call : status[n] # "none" =>
    /\ under[n].user = under[n].password
    /\ under[n].user = 0 \/ report[under[n].user] = "true"

-----------------------------------------------------------------------------
(* The calls that hand something over, as RemoteSetting sees them; what is *)
(* under way has no effect yet.                                            *)

HandsOver(n) == arg[n] # Nothing

Remote == INSTANCE RemoteSetting WITH
  Meaning <- AnyMeaning \ {Nothing},
  Nobody  <- Nil,
  owner   <- [n \in Call |-> IF HandsOver(n) THEN owner[n] ELSE Nil],
  meant   <- [n \in Call |-> IF HandsOver(n) THEN meant[n] ELSE Nothing],
  effect  <- [n \in Call |-> IF status[n] = "sent" THEN "none" ELSE status[n]],
  report  <- [n \in Call |-> IF HandsOver(n) THEN report[n] ELSE "none"],
  writer  <- setting,
  value   <- IF setting = 0 THEN Nothing ELSE got[setting]

\* A control call is one write of what its argument stands for, between the
\* call and its return, or after an error also later; nothing else writes.
RefinesRemoteSetting == Remote!Spec
=============================================================================
