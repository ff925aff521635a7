--------------------------- MODULE ForwardProofs ---------------------------
(***************************************************************************)
(* Proofs about Forward for every set of configurations, requests and      *)
(* upstream responses: types and scope of what leaves the proxy, the       *)
(* implementation of Exchange, and the log.                                *)
(***************************************************************************)
EXTENDS Forward, Stream, AdmissionProofs, FiniteSetTheorems

USE MaxInformationalAssumption

\* A message exists only for a request that passed every check, and the
\* message is the one forwardTo builds.
OutAdmitted == out # NoOut => out = Outbound(server, req) /\ Admitted(server, req)

----------------------------------------------------------------------------
(* Steps of the model, by what they leave alone                            *)

\* Nothing but Init chooses the configuration and the request, and nothing but
\* ForwardTo builds a message.
LEMMA StepsKeep ==
    ASSUME [Next]_vars
    PROVE  /\ server' = server /\ req' = req
           /\ out' = out \/ (out' = Outbound(server, req) /\ Admitted(server, req))
  <1>1. CASE ServeOther
    BY <1>1 DEF ServeOther
  <1>2. CASE \E k \in 1..Len(Checks) : Reject(k)
    BY <1>2 DEF Reject
  <1>3. CASE MissingTargetHost
    BY <1>3 DEF MissingTargetHost, ErrorHandler
  <1>4. CASE ForwardTo
    BY <1>4 DEF ForwardTo
  <1>5. CASE Finish
    BY <1>5 DEF Finish
  <1>6. CASE Cancelled \/ DialRefused \/ DialFails \/ UpstreamDrops
    BY <1>6 DEF Cancelled, DialRefused, DialFails, UpstreamDrops, ErrorHandler
  <1>7. CASE CopyCancelled \/ ReadError \/ WriteError
    BY <1>7 DEF CopyCancelled, ReadError, WriteError, AbortRecovered
  <1>8. CASE CopyDone
    BY <1>8 DEF CopyDone
  <1>9. CASE Connect \/ Repeat \/ SendBody \/ BodyEnds
    BY <1>9 DEF Connect, Repeat, SendBody, BodyEnds
  <1>10. CASE BodyOverflow \/ BodyReadFails
    BY <1>10 DEF BodyOverflow, BodyReadFails, BodyError, ErrorHandler
  <1>11. CASE Informational \/ CopyChunk \/ ClientDisconnect
    BY <1>11 DEF Informational, CopyChunk, ClientDisconnect
  <1>12. CASE \E p \in Responses : Respond(p)
    BY <1>12 DEF Respond
  <1>13. CASE Done \/ UNCHANGED vars
    BY <1>13 DEF Done, vars
  <1> QED
    BY <1>1, <1>2, <1>3, <1>4, <1>5, <1>6, <1>7, <1>8, <1>9, <1>10, <1>11, <1>12, <1>13
    DEF Next, Handler, Unblock, Environment

\* OutAdmitted is an invariant.
LEMMA MessagesAdmitted == Spec => [](OutAdmitted /\ server \in Servers /\ req \in Requests)
  <1> DEFINE I == OutAdmitted /\ server \in Servers /\ req \in Requests
  <1>1. Init => I
    BY DEF Init, OutAdmitted
  <1>2. I /\ [Next]_vars => I'
    BY StepsKeep DEF OutAdmitted
  <1> QED
    BY <1>1, <1>2, PTL DEF Spec

\* A message that has been built is one the policy permits.
LEMMA OutPermitted ==
    Spec => [](out # NoOut => Permits(server, req, out))
  <1>1. OutAdmitted /\ server \in Servers /\ req \in Requests
          => (out # NoOut => Permits(server, req, out))
    BY MessagePermitted, RequestsAssumption, ServersAssumption DEF OutAdmitted, WellFormed
  <1> QED
    BY <1>1, MessagesAdmitted, PTL

\* A credential leaves the proxy only within the bounds its seal sets
\* (CredentialScoped).
THEOREM CredentialsStayScoped == Spec => []CredentialScoped
  <1>1. (out # NoOut => Permits(server, req, out)) => CredentialScoped
    BY DEF Permits, CredentialScoped
  <1> QED
    BY <1>1, OutPermitted, PTL

\* Next to a credential the upstream sees no identity of the client's choice
\* (OneIdentity).
THEOREM IdentityIsSingle == Spec => []OneIdentity
  <1>1. (out # NoOut => Permits(server, req, out)) => OneIdentity
    BY DEF Permits, OneIdentity
  <1> QED
    BY <1>1, OutPermitted, PTL

\* Of the client's headers those travel on that should, and no other
\* (HeadersStripped).
THEOREM HeadersAreStripped == Spec => []HeadersStripped
  <1>1. (out # NoOut => Permits(server, req, out)) => HeadersStripped
    BY DEF Permits, HeadersStripped
  <1> QED
    BY <1>1, OutPermitted, PTL

----------------------------------------------------------------------------
(* Types                                                                   *)

Writer == [status : 100..599, written : BOOLEAN]
View == [gone : BOOLEAN, status : 0..599, got : Nat, end : {"open", "complete", "cut"}]

\* A status goes to the status writer and to the client.
LEMMA WrittenType ==
    ASSUME NEW w \in Writer, NEW c \in View, NEW st \in 100..599
    PROVE  /\ WriteHeader(w, st) \in Writer
           /\ Shown(c, st) \in View
  BY DEF Writer, View, WriteHeader, Shown

\* What logForwardOutcome logs is a log line.
LEMMA OutcomeType ==
    ASSUME NEW st \in 100..599
    PROVE  Outcome(TRUE, st) \in LogLine /\ Outcome(FALSE, st) \in LogLine
  BY DEF Outcome, Line, LogLine, Outcomes, Event, TruncatedEvent

\* A warning without a status is a log line.
LEMMA WarningType ==
    ASSUME NEW e \in Warnings
    PROVE  Line(e, 0) \in LogLine
  BY DEF Line, LogLine

\* Lines are added to the log at its end.
LEMMA LogType ==
    ASSUME NEW l \in Seq(LogLine), NEW w \in Seq(LogLine), NEW x \in LogLine
    PROVE  /\ l \o w \in Seq(LogLine)
           /\ Append(l, x) \in Seq(LogLine)
           /\ l \o w \o <<x>> \in Seq(LogLine)
  <1>1. l \o w \in Seq(LogLine) /\ <<x>> \in Seq(LogLine)
    OBVIOUS
  <1> QED
    BY <1>1

\* The warning of a seal opened with the previous key, or nothing.
LEMMA FallbackType ==
    ASSUME NEW k
    PROVE  FallbackLine(k) \in Seq(LogLine)
  <1>1. Line("seal_opened_via_previous_key", 0) \in LogLine
    BY WarningType DEF Warnings
  <1>2. <<>> \in Seq(LogLine) /\ <<Line("seal_opened_via_previous_key", 0)>> \in Seq(LogLine)
    BY <1>1
  <1> QED
    BY <1>2, Zenon DEF FallbackLine

\* Every early return of handleForward answers with a status of its own.
LEMMA StatusType ==
    ASSUME NEW k \in 1..Len(Checks)
    PROVE  StatusOf[Checks[k]] \in 100..599
  BY DEF Checks, StatusOf

\* What is left of TypeOK once StepsKeep has dealt with the message.
RunTypes ==
    /\ pc \in {"serve", "dial", "roundtrip", "copy", "finish", "done"}
    /\ heads \in Nat
    /\ upload \in [sent : 0..req.body, st : {"idle", "sending", "complete", "overflow", "failed"}]
    /\ resp \in Responses \cup {NoResp}
    /\ infos \in 0..MaxInformational
    /\ sw \in Writer
    /\ readErr \in BOOLEAN
    /\ client \in View
    /\ log \in Seq(LogLine)

\* Every step keeps the types.
LEMMA RunTypesStep ==
    ASSUME RunTypes, server \in Servers, req \in Requests, [Next]_vars
    PROVE  RunTypes'
  <1> DEFINE Upload == [sent : 0..req.body, st : {"idle", "sending", "complete", "overflow", "failed"}]
  <1>0. /\ req.body \in Nat /\ server' = server /\ req' = req
        /\ upload \in Upload /\ sw \in Writer /\ client \in View /\ log \in Seq(LogLine)
    BY RequestsAssumption, StepsKeep DEF RunTypes
  <1>1. CASE ServeOther
    <2>1. client' = Shown(client, 404) \/ client' = Shown(client, 200)
      BY <1>1 DEF ServeOther
    <2>2. client' \in View
      <3>1. CASE client' = Shown(client, 404)
        BY <1>0, <3>1 DEF Shown, View
      <3>2. CASE client' = Shown(client, 200)
        BY <1>0, <3>2 DEF Shown, View
      <3> QED
        BY <2>1, <3>1, <3>2
    <2> QED
      BY <1>1, <2>2 DEF ServeOther, RunTypes
  <1>2. ASSUME NEW k \in 1..Len(Checks), Reject(k)
        PROVE  RunTypes'
    <2>1. StatusOf[Checks[k]] \in 100..599
      BY StatusType
    <2>2. client' \in View
      BY <1>0, <1>2, <2>1, WrittenType DEF Reject
    <2>3. Line("proxy_reject", StatusOf[Checks[k]]) \in LogLine
      BY <2>1 DEF Line, LogLine, Outcomes
    <2>4. log' \in Seq(LogLine)
      BY <1>0, <1>2, <2>3, LogType, FallbackType DEF Reject
    <2> QED
      BY <1>2, <2>2, <2>4 DEF Reject, RunTypes
  <1>3. ASSUME NEW w \in Seq(LogLine), NEW st \in 100..599, ErrorHandler(w, st), upload' \in Upload
        PROVE  RunTypes'
    <2>1. sw' \in Writer /\ client' \in View
      BY <1>0, <1>3, WrittenType DEF ErrorHandler
    <2>2. sw'.status \in 100..599
      BY <2>1 DEF Writer
    <2>3. Outcome(FALSE, sw'.status) \in LogLine
      BY <2>2, OutcomeType
    <2>4. log' = log \o w \o <<Outcome(FALSE, sw'.status)>>
      BY <1>3 DEF ErrorHandler
    <2>5. log' \in Seq(LogLine)
      BY <1>0, <1>3, <2>3, <2>4, LogType
    <2>6. /\ pc' = "finish" /\ req' = req
          /\ heads' = heads /\ resp' = resp /\ infos' = infos /\ readErr' = readErr
      BY <1>3 DEF ErrorHandler
    <2> QED
      BY <1>3, <2>1, <2>5, <2>6 DEF RunTypes
  <1>4. /\ <<Line("upstream_error", 0)>> \in Seq(LogLine)
        /\ <<Line("request_too_large_streamed", 0)>> \in Seq(LogLine)
        /\ <<Line("egress_refused", 0), Line("egress_refused_at_dial", 0)>> \in Seq(LogLine)
        /\ AdmissionLines \in Seq(LogLine)
        /\ 400 \in 100..599 /\ 403 \in 100..599 /\ 413 \in 100..599 /\ 502 \in 100..599
    BY WarningType, FallbackType DEF Warnings, AdmissionLines
  <1>5. CASE MissingTargetHost
    <2>1. ErrorHandler(AdmissionLines, 400) /\ upload' \in Upload
      BY <1>0, <1>5 DEF MissingTargetHost
    <2> QED
      BY <1>3, <1>4, <2>1, Zenon
  <1>6. CASE ForwardTo
    <2>1. log' \in Seq(LogLine)
      BY <1>0, <1>6, LogType, FallbackType, WarningType DEF ForwardTo, AdmissionLines, Warnings
    <2> QED
      BY <1>6, <2>1 DEF ForwardTo, RunTypes
  <1>7. CASE DialRefused
    <2>1. /\ ErrorHandler(<<Line("egress_refused", 0), Line("egress_refused_at_dial", 0)>>, 403)
          /\ upload' \in Upload
      BY <1>0, <1>7 DEF DialRefused
    <2> QED
      BY <1>3, <1>4, <2>1, Zenon
  <1>8. CASE DialFails \/ UpstreamDrops \/ Cancelled
    <2>1. ErrorHandler(<<Line("upstream_error", 0)>>, 502) /\ upload' \in Upload
      BY <1>0, <1>8 DEF DialFails, UpstreamDrops, Cancelled
    <2> QED
      BY <1>3, <1>4, <2>1, Zenon
  <1>9. CASE Connect \/ Repeat
    <2>1. CASE Connect
      BY <1>0, <2>1 DEF Connect, RunTypes
    <2>2. CASE Repeat
      BY <1>0, <2>2 DEF Repeat, RunTypes
    <2> QED
      BY <1>9, <2>1, <2>2
  <1>10. CASE SendBody \/ BodyEnds
    <2>1. upload' \in Upload
      BY <1>0, <1>10 DEF SendBody, BodyEnds
    <2> QED
      BY <1>0, <1>10, <2>1 DEF SendBody, BodyEnds, RunTypes
  <1>11. CASE BodyOverflow
    <2>1. upload' \in Upload
      BY <1>0, <1>11 DEF BodyOverflow, BodyError
    <2>2. CASE pc = "copy" /\ UNCHANGED <<pc, heads, resp, infos, sw, readErr, client, log>>
      BY <1>0, <2>1, <2>2 DEF RunTypes
    <2>3. CASE ErrorHandler(<<Line("request_too_large_streamed", 0)>>, 413)
      BY <1>3, <1>4, <2>1, <2>3, Zenon
    <2> QED
      BY <1>11, <2>2, <2>3 DEF BodyOverflow, BodyError
  <1>12. CASE BodyReadFails
    <2>1. upload' \in Upload
      BY <1>0, <1>12 DEF BodyReadFails, BodyError
    <2>2. CASE pc = "copy" /\ UNCHANGED <<pc, heads, resp, infos, sw, readErr, client, log>>
      BY <1>0, <2>1, <2>2 DEF RunTypes
    <2>3. CASE ErrorHandler(<<Line("upstream_error", 0)>>, 502)
      BY <1>3, <1>4, <2>1, <2>3, Zenon
    <2> QED
      BY <1>12, <2>2, <2>3 DEF BodyReadFails, BodyError
  <1>13. CASE Informational
    <2>1. sw' \in Writer
      BY <1>0, <1>13 DEF Informational, WriteHeader, Writer
    <2> QED
      BY <1>13, <2>1 DEF Informational, RunTypes
  <1>14. ASSUME NEW p \in Responses, Respond(p)
         PROVE  RunTypes'
    <2>1. p.status \in 100..599
      BY ResponsesAssumption
    <2>2. sw' \in Writer /\ client' \in View
      BY <1>0, <1>14, <2>1, WrittenType DEF Respond
    <2> QED
      BY <1>14, <2>2 DEF Respond, RunTypes
  <1>15. CASE CopyChunk
    <2>1. client' \in View
      <3>1. client.got + 1 \in Nat
        BY <1>0 DEF View
      <3> QED
        BY <1>0, <1>15, <3>1 DEF CopyChunk, View
    <2> QED
      BY <1>15, <2>1 DEF CopyChunk, RunTypes
  <1>16. /\ Append(log, Outcome(TRUE, sw.status)) \in Seq(LogLine)
         /\ Append(log, Outcome(FALSE, sw.status)) \in Seq(LogLine)
    <2>1. Outcome(TRUE, sw.status) \in LogLine /\ Outcome(FALSE, sw.status) \in LogLine
      BY <1>0, OutcomeType DEF Writer
    <2> QED
      BY <1>0, <2>1, LogType
  <1>17. CASE CopyDone
    BY <1>16, <1>17 DEF CopyDone, RunTypes
  <1>18. CASE ReadError \/ CopyCancelled
    BY <1>16, <1>18 DEF ReadError, CopyCancelled, AbortRecovered, RunTypes
  <1>19. CASE WriteError
    BY <1>16, <1>19 DEF WriteError, AbortRecovered, RunTypes
  <1>20. CASE ClientDisconnect
    <2>1. client' \in View
      BY <1>0, <1>20 DEF ClientDisconnect, View
    <2> QED
      BY <1>20, <2>1 DEF ClientDisconnect, RunTypes
  <1>21. CASE Finish
    <2>1. \/ client' = [client EXCEPT !.end = "complete"]
          \/ client' = [client EXCEPT !.end = "cut"]
      BY <1>21 DEF Finish
    <2>2. client' \in View
      <3>1. CASE client' = [client EXCEPT !.end = "complete"]
        BY <1>0, <3>1 DEF View
      <3>2. CASE client' = [client EXCEPT !.end = "cut"]
        BY <1>0, <3>2 DEF View
      <3> QED
        BY <2>1, <3>1, <3>2
    <2> QED
      BY <1>21, <2>2 DEF Finish, RunTypes
  <1>22. CASE Done \/ UNCHANGED vars
    BY <1>22 DEF Done, vars, RunTypes
  <1> QED
    BY <1>1, <1>2, <1>5, <1>6, <1>7, <1>8, <1>9, <1>10, <1>11, <1>12, <1>13, <1>14, <1>15,
       <1>17, <1>18, <1>19, <1>20, <1>21, <1>22
    DEF Next, Handler, Unblock, Environment

\* The state keeps its types (TypeOK): among others the upstream is sent no
\* more of a body than the client has, and every line of the log is one that
\* the code can write.
THEOREM TypeCorrect == Spec => []TypeOK
  <1> DEFINE I == RunTypes /\ OutAdmitted /\ server \in Servers /\ req \in Requests
  <1>1. Init => I
    <2> SUFFICES ASSUME Init PROVE I
      OBVIOUS
    <2>1. OutAdmitted /\ server \in Servers /\ req \in Requests /\ req.body \in Nat
      BY RequestsAssumption DEF Init, OutAdmitted
    <2>2. sw \in Writer /\ client \in View
      BY DEF Init, Writer, View
    <2>3. /\ upload \in [sent : 0..req.body, st : {"idle", "sending", "complete", "overflow", "failed"}]
          /\ infos \in 0..MaxInformational /\ log \in Seq(LogLine)
      BY <2>1 DEF Init
    <2> QED
      BY <2>1, <2>2, <2>3 DEF Init, RunTypes
  <1>2. I /\ [Next]_vars => I'
    BY StepsKeep, RunTypesStep DEF OutAdmitted
  <1>3. I => TypeOK
    BY DEF RunTypes, OutAdmitted, TypeOK, Writer, View
  <1> QED
    BY <1>1, <1>2, <1>3, PTL DEF Spec

----------------------------------------------------------------------------
(* The implementation of Exchange                                          *)

\* What the mapping needs to know of a state, by the stage it stands for:
\* nothing is shown before an upstream or the proxy has answered, and only a
\* forwarded exchange has stages of its own.
StageInv ==
    /\ pc = "serve" => out = NoOut /\ upload.sent = 0
    /\ pc \in {"serve", "dial", "roundtrip"} =>
           client.status = 0 /\ client.got = 0 /\ resp = NoResp
    /\ pc \in {"dial", "roundtrip", "copy"} => req.route = "forward"

\* The state as Exchange sees it, from which every step starts.
Known == StageInv /\ TypeOK /\ server' = server /\ req' = req

----------------------------------------------------------------------------
(* What the mapping makes of a log and of a status                         *)

\* The line that is added last is the last line.
LEMMA LastLine ==
    ASSUME NEW l \in Seq(LogLine), NEW w \in Seq(LogLine), NEW x \in LogLine
    PROVE  /\ (l \o w \o <<x>>)[Len(l \o w \o <<x>>)] = x
           /\ Append(l, x)[Len(Append(l, x))] = x
  <1>1. ASSUME NEW k \in Seq(LogLine)
        PROVE  (k \o <<x>>)[Len(k \o <<x>>)] = x
    <2>1. Len(k \o <<x>>) = Len(k) + 1 /\ Len(k) \in Nat
      BY <1>1
    <2>2. (k \o <<x>>)[Len(k) + 1] = <<x>>[1]
      BY <1>1
    <2> QED
      BY <2>1, <2>2
  <1>2. l \o w \in Seq(LogLine)
    OBVIOUS
  <1>3. Append(l, x)[Len(Append(l, x))] = x
    OBVIOUS
  <1> QED
    BY <1>1, <1>2, <1>3

\* A client is shown a status once.
LEMMA ShownOnce ==
    ASSUME NEW c \in View, NEW st
    PROVE  /\ Shown(c, st).got = c.got
           /\ Shown(c, st).status \in {c.status, st}
  BY DEF Shown, View

\* A log of one warning.
LEMMA WarningLog ==
    ASSUME NEW e \in Warnings
    PROVE  <<Line(e, 0)>> \in Seq(LogLine)
  <1>1. Line(e, 0) \in LogLine
    BY WarningType
  <1> QED
    BY <1>1

\* The kinds of the outcome lines.
LEMMA KindOfOutcome ==
    ASSUME NEW st
    PROVE  /\ Kind(Outcome(FALSE, st).event) = "forwarded"
           /\ Kind(Outcome(TRUE, st).event) = "truncated"
           /\ Kind(Line("proxy_reject", st).event) = "refused"
  BY DEF Kind, Outcome, Line, Event, TruncatedEvent

----------------------------------------------------------------------------
(* The initial state                                                       *)

\* A request that has just arrived is one the proxy promised nothing for yet.
LEMMA InitImplements == Init => Exchange!Init
  BY DEF Init, Exchange!Init, Stage, StageOf, Report

----------------------------------------------------------------------------
(* Steps                                                                   *)

\* ErrorHandler answers for an upstream that gave no response.
LEMMA AnswersItself ==
    ASSUME Known, req.route = "forward", pc \in {"serve", "dial", "roundtrip"},
           NEW w \in Seq(LogLine), NEW st \in 200..599, ErrorHandler(w, st),
           upload'.sent = upload.sent
    PROVE  Exchange!Decline \/ Exchange!Fail
  <1>0. /\ client \in View /\ log \in Seq(LogLine) /\ sw \in Writer
        /\ client.status = 0 /\ st \in 100..599
    BY DEF Known, TypeOK, StageInv, View, Writer
  <1>1. sw' \in Writer
    BY <1>0, WrittenType DEF ErrorHandler
  <1>2. Outcome(FALSE, sw'.status) \in LogLine
    BY <1>1, OutcomeType DEF Writer
  <1>3. Report' = "forwarded"
    <2> DEFINE x == Outcome(FALSE, sw'.status)
    <2>1. log' = log \o w \o <<x>> /\ pc' = "finish" /\ req' = req
      BY DEF ErrorHandler
    <2>2. log'[Len(log')] = x
      BY <1>0, <1>2, <2>1, LastLine
    <2> QED
      BY <2>1, <2>2, KindOfOutcome DEF Report
  <1>4. client'.got = client.got /\ client'.status \in {client.status, st}
    <2>1. client' = Shown(client, st)
      BY DEF ErrorHandler
    <2> QED
      BY <1>0, <2>1, ShownOnce, Zenon
  <1>5. Stage' = "settled" /\ Stage \in {"received", "released"}
    BY DEF Stage, StageOf, ErrorHandler
  <1>6. Exchange!Show(st)
    BY <1>0, <1>4 DEF Exchange!Show
  <1>7. UNCHANGED <<server, req, out, upload.sent, resp, client.got>>
    BY <1>4 DEF ErrorHandler
  <1>8. req.route = "forward" /\ st \in 200..599
    OBVIOUS
  <1> HIDE DEF Stage, Report
  <1>9. CASE Stage = "received"
    BY <1>3, <1>5, <1>6, <1>7, <1>8, <1>9 DEF Exchange!Decline, Reportable
  <1>10. CASE Stage = "released"
    BY <1>3, <1>5, <1>6, <1>7, <1>8, <1>10 DEF Exchange!Fail
  <1> QED
    BY <1>5, <1>9, <1>10

\* A response of the upstream ends, in part or in full, with a line that says
\* which.
LEMMA CopyFinishes ==
    ASSUME Known, pc = "copy", pc' = "finish", NEW cut \in BOOLEAN,
           log' = Append(log, Outcome(cut, sw.status)),
           UNCHANGED <<server, req, out, upload, resp, client>>,
           ~ cut => client.got = resp.size
    PROVE  Exchange!Settle
  <1>1. log \in Seq(LogLine) /\ Outcome(cut, sw.status) \in LogLine
    BY OutcomeType DEF Known, TypeOK
  <1>2. log'[Len(log')] = Outcome(cut, sw.status)
    BY <1>1, LastLine
  <1>3. req.route = "forward"
    BY DEF Known, StageInv
  <1>4. Report' = IF cut THEN "truncated" ELSE "forwarded"
    BY <1>2, <1>3, KindOfOutcome DEF Report
  <1>5. Stage = "answered" /\ Stage' = "settled"
    BY DEF Stage, StageOf
  <1> HIDE DEF Stage, Report
  <1> QED
    BY <1>4, <1>5 DEF Exchange!Settle

\* Every step of the proxy is a step of Exchange, or one it does not see.
LEMMA StepImplements ==
    ASSUME StageInv, TypeOK, server \in Servers, req \in Requests, [Next]_vars
    PROVE  [Exchange!Next]_(Exchange!vars)
  <1>0. Known
    BY StepsKeep DEF Known
  <1>1. client \in View /\ log \in Seq(LogLine) /\ upload.sent \in Nat
    BY RequestsAssumption DEF TypeOK, View
  <1>2. CASE ServeOther
    <2>1. Exchange!Decline
      <3>1. /\ Stage = "received" /\ Stage' = "settled" /\ Report = "none" /\ Report' = "none"
            /\ ~ Reportable(req) /\ client.status = 0
            /\ UNCHANGED <<server, req, out, upload.sent, resp>>
        BY <1>0, <1>2 DEF ServeOther, Known, StageInv, Stage, StageOf, Report, Reportable
      <3>2. PICK st \in 200..599 : client' = Shown(client, st)
        BY <1>2 DEF ServeOther
      <3>3. client'.got = client.got /\ client'.status \in {client.status, st}
        BY <1>1, <3>2, ShownOnce, Zenon
      <3> HIDE DEF Stage, Report
      <3> QED
        BY <3>1, <3>3 DEF Exchange!Decline, Exchange!Show
    <2> QED
      BY <2>1 DEF Exchange!Next
  <1>3. CASE \E k \in 1..Len(Checks) : Reject(k)
    <2> PICK k \in 1..Len(Checks) : Reject(k)
      BY <1>3
    <2> DEFINE st == StatusOf[Checks[k]]
               x  == Line("proxy_reject", st)
    <2>1. st \in 200..599
      BY DEF Checks, StatusOf
    <2>2. x \in LogLine
      BY <2>1 DEF Line, LogLine, Outcomes
    <2>3. log'[Len(log')] = x /\ pc' = "finish" /\ pc = "serve"
      BY <1>1, <2>2, FallbackType, LastLine DEF Reject
    <2>4. Report' = "refused" /\ Stage = "received" /\ Stage' = "settled" /\ Reportable(req)
      <3>1. req'.route = "forward" /\ req.route = "forward"
        BY <1>0 DEF Reject, Known
      <3>2. Kind(x.event) = "refused"
        BY KindOfOutcome, Zenon
      <3>3. Report' = "refused"
        BY <2>3, <3>1, <3>2 DEF Report
      <3> QED
        BY <2>3, <3>1, <3>3 DEF Stage, StageOf, Reportable
    <2>5. client'.got = client.got /\ Exchange!Show(st)
      <3>1. client' = Shown(client, st) /\ client.status = 0
        BY <2>3 DEF Reject, StageInv
      <3> QED
        <4>1. client'.got = client.got /\ client'.status \in {client.status, st}
          BY <1>1, <2>1, <3>1, ShownOnce, Zenon
        <4> QED
          BY <3>1, <4>1 DEF Exchange!Show
    <2>6. UNCHANGED <<server, req, out, upload.sent, resp, client.got>>
      BY <2>5 DEF Reject
    <2> HIDE DEF Stage, Report, st
    <2>7. Exchange!Decline
      BY <2>1, <2>4, <2>5, <2>6 DEF Exchange!Decline
    <2> QED
      BY <2>7 DEF Exchange!Next
  <1>4. CASE ForwardTo
    <2>1. Permits(server, req, out')
      <3>1. Admitted(server, req) /\ out' = Outbound(server, req)
        BY <1>4 DEF ForwardTo
      <3> QED
        BY <3>1, MessagePermitted, RequestsAssumption, ServersAssumption DEF WellFormed
    <2>2. Exchange!Release
      BY <1>0, <1>4, <2>1
      DEF ForwardTo, Exchange!Release, Stage, StageOf, Report, Reportable, Known
    <2> QED
      BY <2>2 DEF Exchange!Next
  <1>5. CASE MissingTargetHost \/ DialRefused \/ DialFails \/ UpstreamDrops \/ Cancelled
    <2>0. 400 \in 200..599 /\ 403 \in 200..599 /\ 502 \in 200..599
      OBVIOUS
    <2>1. /\ req.route = "forward" /\ pc \in {"serve", "dial", "roundtrip"}
          /\ upload'.sent = upload.sent
      BY <1>5
      DEF MissingTargetHost, DialRefused, DialFails, UpstreamDrops, Cancelled, StageInv
    <2>2. ASSUME ErrorHandler(AdmissionLines, 400)
          PROVE  Exchange!Decline \/ Exchange!Fail
      <3>1. AdmissionLines \in Seq(LogLine)
        BY FallbackType, Zenon DEF AdmissionLines
      <3> QED
        BY <1>0, <2>0, <2>1, <2>2, <3>1, AnswersItself, Zenon
    <2>3. ASSUME ErrorHandler(<<Line("egress_refused", 0), Line("egress_refused_at_dial", 0)>>, 403)
          PROVE  Exchange!Decline \/ Exchange!Fail
      <3>1. <<Line("egress_refused", 0), Line("egress_refused_at_dial", 0)>> \in Seq(LogLine)
        <4>1. /\ Line("egress_refused", 0) \in LogLine
              /\ Line("egress_refused_at_dial", 0) \in LogLine
          BY WarningType DEF Warnings
        <4> QED
          BY <4>1
      <3> QED
        BY <1>0, <2>0, <2>1, <2>3, <3>1, AnswersItself, Zenon
    <2>4. ASSUME ErrorHandler(<<Line("upstream_error", 0)>>, 502)
          PROVE  Exchange!Decline \/ Exchange!Fail
      <3>1. <<Line("upstream_error", 0)>> \in Seq(LogLine)
        BY WarningLog DEF Warnings
      <3> QED
        BY <1>0, <2>0, <2>1, <2>4, <3>1, AnswersItself, Zenon
    <2> QED
      BY <1>5, <2>2, <2>3, <2>4, Zenon
      DEF MissingTargetHost, DialRefused, DialFails, UpstreamDrops, Cancelled, Exchange!Next
  <1>6. CASE Connect \/ Repeat \/ BodyEnds \/ Informational \/ ClientDisconnect
    <2>1. /\ upload'.sent = upload.sent /\ client'.got = client.got
          /\ client'.status = client.status /\ UNCHANGED <<out, resp, log>>
      BY <1>1, <1>6 DEF Connect, Repeat, BodyEnds, Informational, ClientDisconnect, TypeOK, View
    <2>2. UNCHANGED <<Stage, Report>>
      BY <1>0, <1>6, <2>1
      DEF Connect, Repeat, BodyEnds, Informational, ClientDisconnect, Stage, StageOf, Report, Known
    <2> QED
      BY <1>0, <2>1, <2>2 DEF Exchange!vars, Known
  <1>7. CASE SendBody
    <2>1. /\ upload'.sent = upload.sent + 1 /\ WithinLimit(upload.sent + 1)
          /\ pc \in {"roundtrip", "copy"}
          /\ UNCHANGED <<pc, out, resp, client, log>>
      BY <1>7 DEF SendBody, Uploading
    <2>2. Stage \in {"released", "answered"} /\ UNCHANGED <<Stage, Report>>
      BY <1>0, <2>1 DEF Stage, StageOf, Report, Known
    <2> HIDE DEF Stage, Report
    <2>3. Exchange!Send
      BY <1>0, <2>1, <2>2 DEF Exchange!Send, Known, WithinLimit, BodyLimit
    <2> QED
      BY <2>3 DEF Exchange!Next
  <1>8. CASE BodyOverflow \/ BodyReadFails
    <2>1. upload'.sent = upload.sent
      BY <1>8 DEF BodyOverflow, BodyReadFails, BodyError, TypeOK
    <2>2. CASE pc = "copy" /\ UNCHANGED <<pc, out, resp, client, log>>
      BY <1>0, <2>1, <2>2 DEF Exchange!vars, Known, Stage, Report
    <2>3. ASSUME pc = "roundtrip",
                 NEW e \in {"request_too_large_streamed", "upstream_error"}, NEW st \in {413, 502},
                 ErrorHandler(<<Line(e, 0)>>, st)
          PROVE  Exchange!Next
      <3>1. <<Line(e, 0)>> \in Seq(LogLine)
        BY WarningLog DEF Warnings
      <3>2. req.route = "forward" /\ st \in 200..599
        BY <2>3 DEF StageInv
      <3> QED
        BY <1>0, <2>1, <2>3, <3>1, <3>2, AnswersItself, Zenon DEF Exchange!Next
    <2> QED
      BY <1>8, <2>2, <2>3 DEF BodyOverflow, BodyReadFails, BodyError
  <1>9. CASE \E p \in Responses : Respond(p)
    <2> PICK p \in Responses : Respond(p)
      BY <1>9
    <2>1. /\ pc = "roundtrip" /\ pc' = "copy" /\ resp' = p /\ client' = Shown(client, p.status)
          /\ UNCHANGED <<out, upload>>
      BY DEF Respond
    <2>2. client'.got = client.got /\ client'.status \in {client.status, p.status}
      BY <1>1, <2>1, ShownOnce, Zenon
    <2>3. Stage = "released" /\ Stage' = "answered" /\ Report = "none" /\ Report' = "none"
      BY <2>1 DEF Stage, StageOf, Report
    <2>4. client.status = 0
      BY <2>1 DEF StageInv
    <2> HIDE DEF Stage, Report
    <2>5. Exchange!Answer
      BY <1>0, <2>1, <2>2, <2>3, <2>4 DEF Exchange!Answer, Exchange!Show, Known
    <2> QED
      BY <2>5 DEF Exchange!Next
  <1>10. CASE CopyChunk
    <2>1. /\ pc = "copy" /\ pc' = pc /\ client.got < resp.size
          /\ client'.got = client.got + 1 /\ client'.status = client.status
          /\ UNCHANGED <<out, upload, resp>>
      BY <1>1, <1>10 DEF CopyChunk, View
    <2>2. Stage = "answered" /\ Stage' = Stage /\ Report = "none" /\ Report' = "none"
      BY <2>1 DEF Stage, StageOf, Report
    <2> HIDE DEF Stage, Report
    <2>3. Exchange!Relay
      BY <1>0, <2>1, <2>2 DEF Exchange!Relay, Known
    <2> QED
      BY <2>3 DEF Exchange!Next
  <1>11. CASE CopyDone
    <2>1. Exchange!Settle
      BY <1>0, <1>11, CopyFinishes DEF CopyDone
    <2> QED
      BY <2>1 DEF Exchange!Next
  <1>12. CASE ReadError \/ CopyCancelled \/ WriteError
    <2>1. Exchange!Settle
      BY <1>0, <1>12, CopyFinishes DEF ReadError, CopyCancelled, WriteError, AbortRecovered
    <2> QED
      BY <2>1 DEF Exchange!Next
  <1>13. CASE Finish
    <2>1. /\ pc = "finish" /\ pc' = "done" /\ UNCHANGED <<out, upload, resp, log>>
          /\ client'.got = client.got /\ client'.status = client.status
      BY <1>1, <1>13 DEF Finish, View
    <2>2. Stage = "settled" /\ Stage' = "closed" /\ Report' = Report
      BY <1>0, <2>1 DEF Stage, StageOf, Report, Known
    <2> HIDE DEF Stage, Report
    <2>3. Exchange!Close
      BY <1>0, <2>1, <2>2 DEF Exchange!Close, Known
    <2> QED
      BY <2>3 DEF Exchange!Next
  <1>14. CASE Done \/ UNCHANGED vars
    BY <1>14 DEF Done, vars, Exchange!vars, Stage, Report
  <1> QED
    BY <1>2, <1>3, <1>4, <1>5, <1>6, <1>7, <1>8, <1>9, <1>10, <1>11, <1>12, <1>13, <1>14
    DEF Next, Handler, Unblock, Environment

\* StageInv is kept.
LEMMA StageInvStep ==
    ASSUME StageInv, TypeOK, [Next]_vars
    PROVE  StageInv'
  <1> USE DEF StageInv
  <1>0. req' = req /\ upload.sent \in Nat /\ client \in View
    BY StepsKeep, RequestsAssumption DEF TypeOK, View
  <1>1. CASE pc' \in {"finish", "done"}
    BY <1>1
  <1>2. CASE ForwardTo
    BY <1>0, <1>2 DEF ForwardTo
  <1>3. CASE \/ Connect \/ Repeat \/ SendBody \/ BodyEnds \/ Informational
             \/ \E p \in Responses : Respond(p)
    BY <1>0, <1>3 DEF Connect, Repeat, SendBody, BodyEnds, Uploading, Informational, Respond
  <1>4. CASE CopyChunk
    BY <1>0, <1>4 DEF CopyChunk
  <1>5. CASE ClientDisconnect
    BY <1>0, <1>5 DEF ClientDisconnect, View
  <1>6. CASE BodyOverflow \/ BodyReadFails
    BY <1>0, <1>1, <1>6 DEF BodyOverflow, BodyReadFails, BodyError, ErrorHandler
  <1>7. CASE Done \/ UNCHANGED vars
    BY <1>0, <1>7 DEF Done, vars
  <1>8. CASE ServeOther \/ (\E k \in 1..Len(Checks) : Reject(k)) \/ CopyDone \/ Finish
    BY <1>1, <1>8 DEF ServeOther, Reject, CopyDone, Finish
  <1>9. CASE MissingTargetHost \/ DialRefused \/ DialFails \/ UpstreamDrops \/ Cancelled
    BY <1>1, <1>9, Zenon
    DEF MissingTargetHost, DialRefused, DialFails, UpstreamDrops, Cancelled, ErrorHandler
  <1>10. CASE ReadError \/ CopyCancelled \/ WriteError
    BY <1>1, <1>10 DEF ReadError, CopyCancelled, WriteError, AbortRecovered
  <1> QED
    BY <1>2, <1>3, <1>4, <1>5, <1>6, <1>7, <1>8, <1>9, <1>10
    DEF Next, Handler, Unblock, Environment

\* StageInv is an invariant.
LEMMA StageInvariant == Spec => []StageInv
  <1>1. Init => StageInv
    BY DEF Init, StageInv
  <1>2. StageInv /\ TypeOK /\ [Next]_vars => StageInv'
    BY StageInvStep
  <1> QED
    BY <1>1, <1>2, TypeCorrect, PTL DEF Spec

\* The proxy, however its client, its upstream and its transport interleave,
\* keeps the promises of Exchange (KeepsPromises).
THEOREM ForwardImplementsExchange == Spec => KeepsPromises
  <1>1. TypeOK => server \in Servers /\ req \in Requests
    BY DEF TypeOK
  <1>2. StageInv /\ TypeOK /\ [Next]_vars => [Exchange!Next]_(Exchange!vars)
    BY <1>1, StepImplements
  <1> QED
    BY <1>2, StageInvariant, InitImplements, TypeCorrect, PTL DEF Spec, KeepsPromises, Exchange!Spec

----------------------------------------------------------------------------
(* What the log of an exchange says                                        *)

\* The events of a log.
EventsOf(l) == {l[n].event : n \in 1..Len(l)}

\* The warning that only a seal opened with the previous key leaves.
Fallback == "seal_opened_via_previous_key"

\* A log that ends with its only outcome line.
Ended(l) == l # <<>> /\ \A n \in 1..Len(l) : l[n].event \in Outcomes <=> n = Len(l)

Last == log[Len(log)]

\* Some check is the first that fails.
Refused == \E k \in 1..Len(Checks) : RefusedAt(server, req, k)

\* A log of no other events than these and the fallback warning.
Only(events) == EventsOf(log) \subseteq {Fallback} \cup events

\* The ways an exchange over /v1/forward ends, each with the lines it leaves:
\* a check refused it,
EndsRefused ==
    /\ Refused
    /\ Only({"proxy_reject"})
    /\ resp = NoResp /\ upload = [sent |-> 0, st |-> "idle"] /\ heads = 0

\* guardedDial refused it,
EndsUndialled ==
    /\ Only({Event, "egress_refused", "egress_refused_at_dial"})
    /\ "egress_refused" \in EventsOf(log)
    /\ resp = NoResp /\ upload.sent = 0 /\ upload.st # "overflow"
    /\ heads > 0 => out.host \in MovingNames /\ req.body = 0

\* its body ran over the cap,
EndsTooLarge ==
    /\ Only({Event, "request_too_large_streamed"})
    /\ "request_too_large_streamed" \in EventsOf(log)
    /\ resp = NoResp /\ upload.st = "overflow"

\* there was no upstream to answer it,
EndsUnanswered ==
    /\ Only({Event, "upstream_error"})
    /\ resp = NoResp /\ upload.st # "overflow"

\* or the response was copied, in part or in full.
EndsCopied ==
    /\ Only({Event, TruncatedEvent})
    /\ resp # NoResp
    /\ client.got < resp.size \/ readErr => TruncatedEvent \in EventsOf(log)

LogInv ==
    /\ pc = "serve" => log = <<>> /\ heads = 0 /\ upload = [sent |-> 0, st |-> "idle"]
    /\ pc = "dial" => upload.sent = 0 /\ (heads > 0 => req.body = 0)
    /\ pc \in {"dial", "roundtrip"} => upload.st # "overflow"
    /\ pc \in {"dial", "roundtrip", "copy"} => Only({})
    /\ pc = "copy" => resp # NoResp
    /\ pc \notin {"finish", "done"} => ~ readErr
    /\ heads > 0 => out.host \notin RefusedNames
    /\ pc \in {"finish", "done"} /\ req.route # "forward" =>
         log = <<>> /\ resp = NoResp /\ upload.st = "idle"
    /\ pc \in {"finish", "done"} /\ req.route = "forward" =>
         /\ Ended(log)
         /\ EndsRefused \/ EndsUndialled \/ EndsTooLarge \/ EndsUnanswered \/ EndsCopied

\* The status of the writer, of the client and of the outcome line: one and the
\* same, unless a 1xx response came first and is the one the writer kept.
StatusInv ==
    /\ infos = 0 =>
         /\ pc \in {"serve", "dial", "roundtrip"} => ~ sw.written
         /\ pc = "copy" => client.status \in {0, sw.status}
         /\ pc \in {"finish", "done"} /\ req.route = "forward" => client.status \in {0, Last.status}
    /\ infos # 0 =>
         /\ pc # "serve" /\ sw.written /\ sw.status = 103
         /\ pc \in {"finish", "done"} => Last.status = 103

----------------------------------------------------------------------------
(* Logs                                                                    *)

\* What lines do to the events of a log.
LEMMA EventsAdded ==
    ASSUME NEW l \in Seq(LogLine), NEW w \in Seq(LogLine), NEW x \in LogLine
    PROVE  /\ EventsOf(l \o w) = EventsOf(l) \cup EventsOf(w)
           /\ EventsOf(Append(l, x)) = EventsOf(l) \cup {x.event}
           /\ l \o w \in Seq(LogLine)
           /\ l \o w \o <<x>> = Append(l \o w, x)
  <1>1. l \o w \in Seq(LogLine) /\ Len(l \o w) = Len(l) + Len(w)
    OBVIOUS
  <1>2. /\ \A n \in 1..Len(l) : (l \o w)[n] = l[n]
        /\ \A n \in 1..Len(w) : (l \o w)[Len(l) + n] = w[n]
        /\ \A n \in (Len(l) + 1)..(Len(l) + Len(w)) : (l \o w)[n] = w[n - Len(l)]
    OBVIOUS
  <1>3. EventsOf(l \o w) \subseteq EventsOf(l) \cup EventsOf(w)
    <2> SUFFICES ASSUME NEW n \in 1..Len(l \o w)
                 PROVE  (l \o w)[n].event \in EventsOf(l) \cup EventsOf(w)
      BY DEF EventsOf
    <2>1. CASE n \in 1..Len(l)
      BY <1>2, <2>1 DEF EventsOf
    <2>2. CASE n \notin 1..Len(l)
      <3>1. n \in (Len(l) + 1)..(Len(l) + Len(w)) /\ n - Len(l) \in 1..Len(w)
        BY <1>1, <2>2
      <3> QED
        BY <1>2, <3>1 DEF EventsOf
    <2> QED
      BY <2>1, <2>2
  <1>4. EventsOf(l) \subseteq EventsOf(l \o w)
    BY <1>1, <1>2 DEF EventsOf
  <1>5. EventsOf(w) \subseteq EventsOf(l \o w)
    <2> SUFFICES ASSUME NEW n \in 1..Len(w) PROVE w[n].event \in EventsOf(l \o w)
      BY DEF EventsOf
    <2>1. Len(l) + n \in 1..Len(l \o w)
      BY <1>1
    <2> QED
      BY <1>2, <2>1 DEF EventsOf
  <1>6. EventsOf(Append(l, x)) = EventsOf(l) \cup {x.event}
    <2>1. /\ Len(Append(l, x)) = Len(l) + 1 /\ Append(l, x)[Len(l) + 1] = x
          /\ \A n \in 1..Len(l) : Append(l, x)[n] = l[n]
      OBVIOUS
    <2> QED
      BY <2>1 DEF EventsOf
  <1>7. l \o w \o <<x>> = Append(l \o w, x)
    BY <1>1
  <1> QED
    BY <1>1, <1>3, <1>4, <1>5, <1>6, <1>7

\* A log without an outcome line that gets one has one, at its end.
LEMMA EndedBy ==
    ASSUME NEW l \in Seq(LogLine), EventsOf(l) \cap Outcomes = {},
           NEW x \in LogLine, x.event \in Outcomes
    PROVE  Ended(Append(l, x))
  <1>1. /\ Append(l, x) \in Seq(LogLine) /\ Len(Append(l, x)) = Len(l) + 1
        /\ Append(l, x)[Len(l) + 1] = x /\ Len(l) \in Nat
        /\ \A n \in 1..Len(l) : Append(l, x)[n] = l[n]
    OBVIOUS
  <1>2. \A n \in 1..Len(l) : l[n].event \notin Outcomes
    BY DEF EventsOf
  <1>3. Append(l, x) # <<>>
    BY <1>1
  <1> QED
    BY <1>1, <1>2, <1>3 DEF Ended

\* The events of the warnings.
LEMMA WarningEvents ==
    /\ EventsOf(<<>>) = {}
    /\ \A e \in Warnings : EventsOf(<<Line(e, 0)>>) = {e}
    /\ EventsOf(<<Line("egress_refused", 0), Line("egress_refused_at_dial", 0)>>)
         = {"egress_refused", "egress_refused_at_dial"}
    /\ \A k : EventsOf(FallbackLine(k)) \subseteq {Fallback}
  <1>1. EventsOf(<<>>) = {}
    BY DEF EventsOf
  <1>2. ASSUME NEW e
        PROVE  EventsOf(<<Line(e, 0)>>) = {e}
    BY DEF EventsOf, Line
  <1>3. EventsOf(<<Line("egress_refused", 0), Line("egress_refused_at_dial", 0)>>)
          = {"egress_refused", "egress_refused_at_dial"}
    <2> DEFINE l == <<Line("egress_refused", 0), Line("egress_refused_at_dial", 0)>>
    <2>1. /\ Len(l) = 2 /\ l[1].event = "egress_refused"
          /\ l[2].event = "egress_refused_at_dial"
      BY DEF Line
    <2> HIDE DEF l
    <2>2. EventsOf(l) = {l[1].event, l[2].event}
      <3>1. 1..Len(l) = {1, 2}
        BY <2>1
      <3> QED
        BY <3>1 DEF EventsOf
    <2> QED
      BY <2>1, <2>2 DEF l
  <1>4. ASSUME NEW k
        PROVE  EventsOf(FallbackLine(k)) \subseteq {Fallback}
    <2>1. FallbackLine(k) \in {<<>>, <<Line(Fallback, 0)>>}
      BY Zenon DEF FallbackLine, Fallback
    <2> QED
      BY <1>1, <1>2, <2>1
  <1> QED
    BY <1>1, <1>2, <1>3, <1>4

----------------------------------------------------------------------------
(* Steps                                                                   *)

\* The state a step starts from.
Before == LogInv /\ StatusInv /\ StageInv /\ TypeOK /\ server' = server /\ req' = req

\* Neither Event nor TruncatedEvent changes, and both are outcomes.
LEMMA OutcomeEvents ==
    ASSUME server' = server, req' = req
    PROVE  /\ Event' = Event /\ TruncatedEvent' = TruncatedEvent
           /\ Event \in Outcomes /\ TruncatedEvent \in Outcomes
           /\ "proxy_reject" \in Outcomes
           /\ \A st : /\ Outcome(FALSE, st).event = Event /\ Outcome(FALSE, st).status = st
                      /\ Outcome(TRUE, st).event = TruncatedEvent /\ Outcome(TRUE, st).status = st
  BY DEF Event, TruncatedEvent, Outcomes, Outcome, Line

\* What ErrorHandler leaves: the warnings, then the outcome line with the
\* status of the answer.
LEMMA ErrorHandlerLog ==
    ASSUME Before, req.route = "forward", pc \in {"serve", "dial", "roundtrip"},
           NEW w \in Seq(LogLine), EventsOf(w) \cap Outcomes = {},
           NEW st \in 200..599, ErrorHandler(w, st)
    PROVE  /\ Ended(log')
           /\ EventsOf(log') \subseteq {Fallback, Event} \cup EventsOf(w)
           /\ EventsOf(w) \subseteq EventsOf(log')
           /\ StatusInv'
           /\ pc' = "finish" /\ resp' = NoResp /\ req'.route = "forward" /\ Event' = Event
           /\ UNCHANGED <<out, heads, infos, readErr>>
  <1>0. /\ client \in View /\ log \in Seq(LogLine) /\ sw \in Writer
        /\ client.status = 0 /\ st \in 100..599 /\ resp = NoResp
    BY DEF Before, TypeOK, StageInv, View, Writer
  <1>1. EventsOf(log) \subseteq {Fallback}
    BY WarningEvents DEF Before, LogInv, Only
  <1>2. Fallback \notin Outcomes
    BY DEF Fallback, Outcomes
  <1>3. sw' \in Writer /\ client' = Shown(client, st) /\ sw' = WriteHeader(sw, st)
    BY <1>0, WrittenType DEF ErrorHandler
  <1> DEFINE x == Outcome(FALSE, sw'.status)
  <1>4. x \in LogLine /\ x.event = Event /\ x.event \in Outcomes /\ x.status = sw'.status
    <2>1. sw'.status \in 100..599
      BY <1>3 DEF Writer
    <2>2. x \in LogLine
      BY <2>1, OutcomeType
    <2>3. Event \in Outcomes /\ x.event = Event /\ x.status = sw'.status
      BY OutcomeEvents, Zenon DEF Before
    <2> QED
      BY <2>2, <2>3
  <1>5. log' = Append(log \o w, x) /\ log \o w \in Seq(LogLine)
    <2>1. log' = log \o w \o <<x>>
      BY DEF ErrorHandler
    <2> HIDE DEF x
    <2> QED
      BY <1>0, <1>4, <2>1, EventsAdded
  <1>6. EventsOf(log \o w) = EventsOf(log) \cup EventsOf(w)
    BY <1>0, EventsAdded, <1>4
  <1> HIDE DEF x
  <1>7. Ended(log')
    BY <1>1, <1>2, <1>4, <1>5, <1>6, EndedBy
  <1>8. EventsOf(log') = EventsOf(log) \cup EventsOf(w) \cup {Event}
    BY <1>4, <1>5, <1>6, EventsAdded
  <1>9. pc' = "finish" /\ resp' = NoResp /\ UNCHANGED <<out, heads, infos, readErr>>
    BY <1>0 DEF ErrorHandler
  <1>10. StatusInv'
    <2>1. Last' = x
      BY <1>4, <1>5 DEF Last
    <2>2. client'.status \in {0, st}
      BY <1>0, <1>3, ShownOnce
    <2>3. CASE infos = 0
      <3>1. sw'.status = st
        BY <1>0, <1>3, <2>3 DEF WriteHeader, Before, StatusInv
      <3> QED
        BY <1>4, <1>9, <2>1, <2>2, <2>3, <3>1 DEF StatusInv
    <2>4. CASE infos # 0
      <3>1. sw' = sw /\ sw.written /\ sw.status = 103
        BY <1>3, <2>4 DEF WriteHeader, Before, StatusInv
      <3> QED
        BY <1>4, <1>9, <2>1, <2>4, <3>1 DEF StatusInv
    <2> QED
      BY <2>3, <2>4
  <1>11. req'.route = "forward" /\ Event' = Event
    BY OutcomeEvents DEF Before
  <1> QED
    BY <1>1, <1>7, <1>8, <1>9, <1>10, <1>11

\* What the end of a copy leaves.
LEMMA CopyLog ==
    ASSUME Before, pc = "copy", pc' = "finish", NEW cut \in BOOLEAN,
           log' = Append(log, Outcome(cut, sw.status)),
           UNCHANGED <<out, heads, upload, resp, infos, sw, client>>,
           cut \/ (client.got = resp.size /\ readErr' = readErr)
    PROVE  LogInv' /\ StatusInv'
  <1>0. /\ log \in Seq(LogLine) /\ sw.status \in 100..599 /\ resp # NoResp /\ ~ readErr
        /\ client.got \in Nat /\ req.route = "forward" /\ EventsOf(log) \subseteq {Fallback}
        /\ resp \in Responses
    BY DEF Before, LogInv, StageInv, TypeOK, Only
  <1> DEFINE x == Outcome(cut, sw.status)
  <1>1. /\ x \in LogLine /\ x.event \in Outcomes /\ x.status = sw.status
        /\ x.event = IF cut THEN TruncatedEvent ELSE Event
    BY <1>0, OutcomeType, OutcomeEvents DEF Before
  <1>2. log' = Append(log, x)
    OBVIOUS
  <1> HIDE DEF x
  <1>3. Ended(log')
    <2>1. Fallback \notin Outcomes
      BY DEF Fallback, Outcomes
    <2> QED
      BY <1>0, <1>1, <1>2, <2>1, EndedBy
  <1>4. EventsOf(log') = EventsOf(log) \cup {x.event}
    BY <1>0, <1>1, <1>2, EventsAdded
  <1>5. Event' = Event /\ TruncatedEvent' = TruncatedEvent
    BY OutcomeEvents DEF Before
  <1>6. EndsCopied'
    <2>1. Only({Event, TruncatedEvent})'
      BY <1>0, <1>1, <1>4, <1>5 DEF Only
    <2>2. ASSUME client'.got < resp'.size \/ readErr'
          PROVE  TruncatedEvent' \in EventsOf(log')
      <3>1. cut
        <4>1. resp.size \in Nat
          BY <1>0, ResponsesAssumption
        <4> QED
          BY <1>0, <2>2, <4>1
      <3> QED
        BY <1>1, <1>4, <1>5, <3>1
    <2> QED
      BY <1>0, <2>1, <2>2 DEF EndsCopied
  <1>7. StatusInv'
    <2>1. Last' = x
      BY <1>0, <1>1, <1>2 DEF Last
    <2> QED
      BY <1>1, <2>1 DEF StatusInv, Before
  <1>8. LogInv'
    <2>1. heads > 0 => out.host \notin RefusedNames
      BY DEF Before, LogInv
    <2>2. req'.route = "forward"
      BY <1>0 DEF Before
    <2> QED
      BY <1>3, <1>6, <2>1, <2>2 DEF LogInv
  <1> QED
    BY <1>7, <1>8

\* Every step keeps the two invariants: the warnings of an exchange and its
\* outcome line are told apart by how it ended.
LEMMA LogStep ==
    ASSUME Before, [Next]_vars, server \in Servers, req \in Requests
    PROVE  LogInv' /\ StatusInv'
  <1>0. /\ client \in View /\ log \in Seq(LogLine) /\ sw \in Writer
        /\ server' = server /\ req' = req /\ heads \in Nat
        /\ Event' = Event /\ TruncatedEvent' = TruncatedEvent
    BY OutcomeEvents DEF Before, TypeOK, View, Writer
  <1>1. CASE ServeOther
    BY <1>0, <1>1 DEF ServeOther, Before, LogInv, StatusInv, StageInv
  <1>2. CASE \E k \in 1..Len(Checks) : Reject(k)
    <2> PICK k \in 1..Len(Checks) : Reject(k)
      BY <1>2
    <2> DEFINE st == StatusOf[Checks[k]]
               x  == Line("proxy_reject", st)
    <2>1. st \in 200..599 /\ x \in LogLine /\ x.event = "proxy_reject" /\ x.status = st
      BY DEF Checks, StatusOf, Line, LogLine, Outcomes
    <2>2. /\ pc = "serve" /\ pc' = "finish" /\ req.route = "forward"
          /\ log' = log \o FallbackLine(k) \o <<x>> /\ client' = Shown(client, st)
          /\ UNCHANGED <<heads, upload, resp, out, readErr, infos>>
      BY DEF Reject
    <2> HIDE DEF x, st
    <2>3. log = <<>> /\ heads = 0 /\ upload = [sent |-> 0, st |-> "idle"]
          /\ client.status = 0 /\ resp = NoResp
      BY <2>2 DEF Before, LogInv, StageInv
    <2>4. /\ log' = Append(log \o FallbackLine(k), x) /\ log \o FallbackLine(k) \in Seq(LogLine)
          /\ EventsOf(log \o FallbackLine(k)) = EventsOf(log) \cup EventsOf(FallbackLine(k))
      BY <1>0, <2>1, <2>2, FallbackType, EventsAdded
    <2>5. EventsOf(log) = {} /\ EventsOf(FallbackLine(k)) \subseteq {Fallback}
      BY <2>3, WarningEvents
    <2>6. Ended(log')
      <3>1. Fallback \notin Outcomes /\ "proxy_reject" \in Outcomes
        BY DEF Fallback, Outcomes
      <3> QED
        BY <2>1, <2>4, <2>5, <3>1, EndedBy
    <2>7. EventsOf(log') \subseteq {Fallback, "proxy_reject"}
      <3> DEFINE l == log \o FallbackLine(k)
      <3>1. l \in Seq(LogLine) /\ log' = Append(l, x) /\ EventsOf(l) \subseteq {Fallback}
        BY <2>4, <2>5
      <3> HIDE DEF l
      <3>2. EventsOf(Append(l, x)) = EventsOf(l) \cup {x.event}
        BY <2>1, <3>1, EventsAdded
      <3> QED
        BY <2>1, <3>1, <3>2
    <2>8. EndsRefused'
      <3>1. Refused'
        BY <1>0 DEF Reject, Refused
      <3> QED
        BY <2>2, <2>3, <2>7, <3>1 DEF EndsRefused, Only
    <2>9. LogInv'
      BY <1>0, <2>2, <2>3, <2>6, <2>8 DEF LogInv
    <2>10. StatusInv'
      <3>1. Last' = x
        BY <2>1, <2>4 DEF Last
      <3>2. client'.status \in {0, st}
        BY <1>0, <2>2, <2>3, ShownOnce
      <3>3. infos = 0
        BY <2>2 DEF Before, StatusInv
      <3> QED
        BY <2>1, <2>2, <3>1, <3>2, <3>3 DEF StatusInv
    <2> QED
      BY <2>9, <2>10
  <1>3. CASE MissingTargetHost
    <2>1. /\ ErrorHandler(AdmissionLines, 400) /\ pc = "serve" /\ req.route = "forward"
          /\ upload' = upload
      BY <1>3 DEF MissingTargetHost
    <2>2. AdmissionLines \in Seq(LogLine) /\ EventsOf(AdmissionLines) \subseteq {Fallback}
      BY FallbackType, WarningEvents, Zenon DEF AdmissionLines
    <2>3. EventsOf(AdmissionLines) \cap Outcomes = {}
      BY <2>2 DEF Fallback, Outcomes
    <2>4. /\ Ended(log') /\ EventsOf(log') \subseteq {Fallback, Event} \cup EventsOf(AdmissionLines)
          /\ StatusInv' /\ pc' = "finish" /\ resp' = NoResp /\ req'.route = "forward"
          /\ UNCHANGED <<out, heads, infos, readErr>>
      BY <2>1, <2>2, <2>3, ErrorHandlerLog
    <2>5. upload = [sent |-> 0, st |-> "idle"] /\ heads = 0
      BY <2>1 DEF Before, LogInv
    <2>6. EndsUnanswered'
      BY <1>0, <2>1, <2>2, <2>4, <2>5 DEF EndsUnanswered, Only
    <2> QED
      BY <2>4, <2>5, <2>6 DEF LogInv
  <1>4. CASE ForwardTo
    <2>1. /\ log' = log \o AdmissionLines /\ pc = "serve" /\ pc' = "dial"
          /\ UNCHANGED <<heads, upload, resp, infos, sw, readErr, client>>
      BY <1>4 DEF ForwardTo
    <2>2. log = <<>> /\ heads = 0 /\ upload = [sent |-> 0, st |-> "idle"]
      BY <2>1 DEF Before, LogInv
    <2>3. EventsOf(log') = EventsOf(log) \cup EventsOf(AdmissionLines)
      <3>1. AdmissionLines \in Seq(LogLine)
        BY FallbackType, Zenon DEF AdmissionLines
      <3>2. Line(Fallback, 0) \in LogLine
        BY WarningType DEF Warnings, Fallback
      <3> QED
        BY <1>0, <2>1, <3>1, <3>2, EventsAdded
    <2>4. EventsOf(log') \subseteq {Fallback}
      BY <2>2, <2>3, WarningEvents DEF AdmissionLines
    <2>5. LogInv'
      BY <2>1, <2>2, <2>4 DEF Before, LogInv, Only
    <2>6. StatusInv'
      BY <2>1 DEF Before, StatusInv
    <2> QED
      BY <2>5, <2>6
  <1>5. CASE DialRefused
    <2> DEFINE w == <<Line("egress_refused", 0), Line("egress_refused_at_dial", 0)>>
    <2>1. /\ ErrorHandler(w, 403) /\ pc = "dial" /\ out.host \in RefusedNames \cup MovingNames
          /\ upload' = upload
      BY <1>5 DEF DialRefused
    <2>2. w \in Seq(LogLine) /\ EventsOf(w) = {"egress_refused", "egress_refused_at_dial"}
      <3>1. Line("egress_refused", 0) \in LogLine /\ Line("egress_refused_at_dial", 0) \in LogLine
        BY WarningType DEF Warnings
      <3> QED
        BY <3>1, WarningEvents
    <2> HIDE DEF w
    <2>3. EventsOf(w) \cap Outcomes = {}
      BY <2>2 DEF Outcomes
    <2>4. /\ upload.sent = 0 /\ upload.st # "overflow" /\ req.route = "forward"
          /\ (heads > 0 => out.host \in MovingNames /\ req.body = 0)
          /\ (heads > 0 => out.host \notin RefusedNames)
      BY <2>1, RequestsAssumption DEF Before, LogInv, StageInv
    <2>5. /\ Ended(log') /\ EventsOf(log') \subseteq {Fallback, Event} \cup EventsOf(w)
          /\ EventsOf(w) \subseteq EventsOf(log')
          /\ StatusInv' /\ pc' = "finish" /\ resp' = NoResp /\ req'.route = "forward"
          /\ UNCHANGED <<out, heads, infos, readErr>>
      BY <2>1, <2>2, <2>3, <2>4, ErrorHandlerLog
    <2>6. EndsUndialled'
      BY <1>0, <2>1, <2>2, <2>4, <2>5 DEF EndsUndialled, Only
    <2> QED
      BY <2>4, <2>5, <2>6 DEF LogInv
  <1>6. ASSUME ErrorHandler(<<Line("upstream_error", 0)>>, 502), pc \in {"dial", "roundtrip"},
               upload'.st # "overflow"
        PROVE  LogInv' /\ StatusInv'
    <2> DEFINE w == <<Line("upstream_error", 0)>>
    <2>1. w \in Seq(LogLine) /\ EventsOf(w) = {"upstream_error"} /\ ErrorHandler(w, 502)
      BY <1>6, WarningLog, WarningEvents DEF Warnings
    <2> HIDE DEF w
    <2>2. EventsOf(w) \cap Outcomes = {}
      BY <2>1 DEF Outcomes
    <2>3. req.route = "forward" /\ (heads > 0 => out.host \notin RefusedNames)
      BY <1>6 DEF Before, LogInv, StageInv
    <2>4. /\ Ended(log') /\ EventsOf(log') \subseteq {Fallback, Event} \cup EventsOf(w)
          /\ StatusInv' /\ pc' = "finish" /\ resp' = NoResp /\ req'.route = "forward"
          /\ UNCHANGED <<out, heads, infos, readErr>>
      BY <1>6, <2>1, <2>2, <2>3, ErrorHandlerLog
    <2>5. EndsUnanswered'
      BY <1>0, <1>6, <2>1, <2>4 DEF EndsUnanswered, Only
    <2> QED
      BY <2>3, <2>4, <2>5 DEF LogInv
  <1>7. CASE DialFails \/ UpstreamDrops \/ Cancelled
    <2>1. /\ ErrorHandler(<<Line("upstream_error", 0)>>, 502) /\ pc \in {"dial", "roundtrip"}
          /\ upload' = upload
      BY <1>7 DEF DialFails, UpstreamDrops, Cancelled
    <2>2. upload'.st # "overflow"
      BY <2>1 DEF Before, LogInv
    <2> QED
      BY <1>6, <2>1, <2>2, Zenon
  <1>8. CASE BodyOverflow \/ BodyReadFails
    <2>0. upload'.st = IF BodyOverflow THEN "overflow" ELSE upload'.st
      BY DEF BodyOverflow, BodyError, Before, TypeOK
    <2>1. CASE pc = "copy" /\ UNCHANGED <<pc, out, heads, resp, infos, sw, readErr, client, log>>
      BY <1>0, <2>1 DEF Before, LogInv, StatusInv, Only
    <2>2. CASE BodyReadFails /\ pc = "roundtrip" /\ ErrorHandler(<<Line("upstream_error", 0)>>, 502)
      <3>1. upload'.st # "overflow"
        BY <2>2 DEF BodyReadFails, BodyError, Before, TypeOK
      <3> QED
        BY <1>6, <2>2, <3>1, Zenon
    <2>3. CASE /\ BodyOverflow /\ pc = "roundtrip"
               /\ ErrorHandler(<<Line("request_too_large_streamed", 0)>>, 413)
      <3> DEFINE w == <<Line("request_too_large_streamed", 0)>>
      <3>1. /\ w \in Seq(LogLine) /\ EventsOf(w) = {"request_too_large_streamed"}
            /\ ErrorHandler(w, 413)
        BY <2>3, WarningLog, WarningEvents DEF Warnings
      <3> HIDE DEF w
      <3>2. EventsOf(w) \cap Outcomes = {}
        BY <3>1 DEF Outcomes
      <3>3. req.route = "forward" /\ (heads > 0 => out.host \notin RefusedNames)
        BY <2>3 DEF Before, LogInv, StageInv
      <3>4. /\ Ended(log') /\ EventsOf(log') \subseteq {Fallback, Event} \cup EventsOf(w)
            /\ EventsOf(w) \subseteq EventsOf(log')
            /\ StatusInv' /\ pc' = "finish" /\ resp' = NoResp /\ req'.route = "forward"
            /\ UNCHANGED <<out, heads, infos, readErr>>
        BY <2>3, <3>1, <3>2, <3>3, ErrorHandlerLog
      <3>5. EndsTooLarge'
        BY <1>0, <2>0, <2>3, <3>1, <3>4 DEF EndsTooLarge, Only
      <3> QED
        BY <3>3, <3>4, <3>5 DEF LogInv
    <2> QED
      BY <1>8, <2>1, <2>2, <2>3 DEF BodyOverflow, BodyReadFails, BodyError
  <1>9. CASE Connect
    <2>1. out.host \notin RefusedNames /\ upload'.st # "overflow"
      BY <1>9 DEF Connect, Before, LogInv, TypeOK
    <2> QED
      BY <1>0, <1>9, <2>1 DEF Connect, Before, LogInv, StatusInv, Only
  <1>10. CASE Repeat
    <2>1. req.body = 0
      BY <1>10, RequestsAssumption DEF Repeat
    <2>2. upload.sent = 0 /\ heads' = heads
      BY <1>10, <2>1 DEF Repeat, Before, TypeOK
    <2> QED
      BY <1>0, <1>10, <2>1, <2>2 DEF Repeat, Before, LogInv, StatusInv, Only
  <1>11. CASE SendBody \/ BodyEnds
    <2>1. upload'.st # "overflow" \/ pc = "copy"
      BY <1>11 DEF SendBody, BodyEnds, Uploading, Before, TypeOK
    <2> QED
      BY <1>0, <1>11, <2>1 DEF SendBody, BodyEnds, Uploading, Before, LogInv, StatusInv, Only
  <1>12. CASE Informational
    <2>1. infos' # 0 /\ infos \in Nat
      BY <1>12 DEF Informational, Before, TypeOK
    <2>2. sw'.written /\ sw'.status = 103
      BY <1>12 DEF Informational, WriteHeader, Before, StatusInv
    <2> QED
      BY <1>0, <1>12, <2>1, <2>2 DEF Informational, Before, LogInv, StatusInv, Only
  <1>13. CASE \E p \in Responses : Respond(p)
    <2> PICK p \in Responses : Respond(p)
      BY <1>13
    <2>1. LogInv'
      BY <1>0, NoRespAssumption DEF Respond, Before, LogInv, Only
    <2>2. StatusInv'
      <3>1. client'.status \in {0, p.status}
        BY <1>0, ShownOnce DEF Respond, Before, StageInv
      <3>2. CASE infos = 0
        <4>1. sw'.status = p.status
          BY <3>2 DEF Respond, WriteHeader, Before, StatusInv
        <4> QED
          BY <3>1, <3>2, <4>1 DEF Respond, StatusInv
      <3>3. CASE infos # 0
        <4>1. sw' = sw
          BY <3>3 DEF Respond, WriteHeader, Before, StatusInv
        <4> QED
          BY <3>3, <4>1 DEF Respond, Before, StatusInv
      <3> QED
        BY <3>2, <3>3
    <2> QED
      BY <2>1, <2>2
  <1>14. CASE CopyChunk
    BY <1>0, <1>14 DEF CopyChunk, Before, LogInv, StatusInv, View, Only
  <1>15. CASE CopyDone
    BY <1>15, CopyLog DEF CopyDone
  <1>16. CASE ReadError \/ CopyCancelled \/ WriteError
    BY <1>16, CopyLog DEF ReadError, CopyCancelled, WriteError, AbortRecovered
  <1>17. CASE ClientDisconnect \/ Finish
    <2>1. /\ UNCHANGED <<out, heads, upload, resp, infos, sw, readErr, log>>
          /\ client'.got = client.got /\ client'.status = client.status
          /\ (pc' = pc \/ (pc = "finish" /\ pc' = "done"))
      BY <1>0, <1>17 DEF ClientDisconnect, Finish, View
    <2>2. LogInv'
      BY <1>0, <2>1 DEF Before, LogInv, Ended, Only, Refused, EndsRefused, EndsUndialled, EndsTooLarge,
                        EndsUnanswered, EndsCopied
    <2>3. StatusInv'
      BY <1>0, <2>1 DEF Before, StatusInv, Last
    <2> QED
      BY <2>2, <2>3
  <1>18. CASE Done \/ UNCHANGED vars
    BY <1>0, <1>18 DEF Done, vars, Before, LogInv, StatusInv, Ended, Only, Refused, EndsRefused,
                       EndsUndialled, EndsTooLarge, EndsUnanswered, EndsCopied, Last
  <1> QED
    BY <1>1, <1>2, <1>3, <1>4, <1>5, <1>7, <1>8, <1>9, <1>10, <1>11, <1>12, <1>13, <1>14,
       <1>15, <1>16, <1>17, <1>18
    DEF Next, Handler, Unblock, Environment

\* LogInv and StatusInv are invariants.
LEMMA LogInvariant == Spec => [](LogInv /\ StatusInv)
  <1> DEFINE I == LogInv /\ StatusInv /\ StageInv
  <1>1. Init => I
    BY DEF Init, LogInv, StatusInv, StageInv
  <1>2. I /\ TypeOK /\ [Next]_vars => I'
    <2> SUFFICES ASSUME I, TypeOK, [Next]_vars PROVE I'
      OBVIOUS
    <2>1. Before /\ server \in Servers /\ req \in Requests
      BY StepsKeep DEF Before, TypeOK
    <2> QED
      BY <2>1, LogStep, StageInvStep
  <1> QED
    BY <1>1, <1>2, TypeCorrect, PTL DEF Spec

\* What Logged says is what EventsOf says.
LEMMA LoggedEvents == \A e : Logged(e) <=> e \in EventsOf(log)
  BY DEF Logged, EventsOf

\* What a check or guardedDial refused never reached an upstream, and is not
\* reported as an outage (RefusedStaysInside).
THEOREM RefusedNeverLeaves == Spec => []RefusedStaysInside
  <1>1. TypeOK /\ StageInv /\ LogInv => RefusedStaysInside
    <2> SUFFICES ASSUME TypeOK, StageInv, LogInv, Logged("proxy_reject") \/ Logged("egress_refused")
                 PROVE  /\ upload.sent = 0 /\ resp = NoResp
                        /\ heads > 0 => /\ Logged("egress_refused")
                                             /\ out.host \in MovingNames /\ req.body = 0
                        /\ ~ Logged("upstream_error")
      BY DEF RefusedStaysInside
    <2>1. {"proxy_reject", "egress_refused"} \cap EventsOf(log) # {}
      BY LoggedEvents
    <2>2. pc \in {"finish", "done"} /\ req.route = "forward"
      BY <2>1, WarningEvents DEF LogInv, Only, TypeOK, StageInv, Fallback
    <2>3. EndsRefused \/ EndsUndialled
      BY <2>1, <2>2
      DEF LogInv, EndsTooLarge, EndsUnanswered, EndsCopied, Only, Event, TruncatedEvent, Fallback
    <2>4. "upstream_error" \notin EventsOf(log)
      BY <2>3 DEF EndsRefused, EndsUndialled, Only, Event, Fallback
    <2> QED
      BY <2>3, <2>4, LoggedEvents DEF EndsRefused, EndsUndialled
  <1> QED
    BY <1>1, LogInvariant, StageInvariant, TypeCorrect, PTL

\* A body over the cap is reported as that, unless the response came first
\* (OverflowReported).
THEOREM OverflowsReported == Spec => []OverflowReported
  <1>1. TypeOK /\ StageInv /\ LogInv => OverflowReported
    <2> SUFFICES ASSUME TypeOK, StageInv, LogInv PROVE OverflowReported
      OBVIOUS
    <2>1. CASE pc \in {"finish", "done"} /\ req.route = "forward"
      <3>1. EndsRefused \/ EndsUndialled \/ EndsTooLarge \/ EndsUnanswered \/ EndsCopied
        BY <2>1 DEF LogInv
      <3> QED
        BY <3>1, LoggedEvents
        DEF OverflowReported, EndsRefused, EndsUndialled, EndsTooLarge, EndsUnanswered,
            EndsCopied, Only, Event, TruncatedEvent, Fallback
    <2>2. CASE ~ (pc \in {"finish", "done"} /\ req.route = "forward")
      <3>1. EventsOf(log) \subseteq {Fallback}
        BY <2>2, WarningEvents DEF LogInv, Only, TypeOK
      <3>2. upload.st = "overflow" => resp # NoResp
        BY <2>2 DEF LogInv, TypeOK
      <3> QED
        BY <3>1, <3>2, LoggedEvents DEF OverflowReported, Fallback
    <2> QED
      BY <2>1, <2>2
  <1> QED
    BY <1>1, LogInvariant, StageInvariant, TypeCorrect, PTL

\* Every request to /v1/forward leaves exactly one outcome line (OneOutcome).
THEOREM OneOutcomeLine == Spec => []OneOutcome
  <1>1. TypeOK /\ LogInv => OneOutcome
    <2> SUFFICES ASSUME TypeOK, LogInv, pc = "done"
                 PROVE  Cardinality({n \in 1..Len(log) : log[n].event \in Outcomes})
                          = IF req.route = "forward" THEN 1 ELSE 0
      BY DEF OneOutcome
    <2>1. CASE req.route = "forward"
      <3>1. Ended(log) /\ log \in Seq(LogLine)
        BY <2>1 DEF LogInv, TypeOK
      <3>2. Len(log) \in 1..Len(log)
        BY <3>1 DEF Ended
      <3>3. {n \in 1..Len(log) : log[n].event \in Outcomes} = {Len(log)}
        BY <3>1, <3>2 DEF Ended
      <3> QED
        BY <2>1, <3>3, FS_Singleton
    <2>2. CASE req.route # "forward"
      <3>1. {n \in 1..Len(log) : log[n].event \in Outcomes} = {}
        BY <2>2 DEF LogInv
      <3> QED
        BY <2>2, <3>1, FS_EmptySet
    <2> QED
      BY <2>1, <2>2
  <1> QED
    BY <1>1, LogInvariant, TypeCorrect, PTL

\* A response that was not relayed in full is logged as truncated
\* (TruncationLogged).
THEOREM TruncationsLogged == Spec => []TruncationLogged
  <1>1. LogInv => TruncationLogged
    <2> SUFFICES ASSUME LogInv, pc = "done", resp # NoResp, client.got < resp.size \/ readErr
                 PROVE  Logged(TruncatedEvent)
      BY DEF TruncationLogged
    <2>1. EndsCopied
      BY DEF LogInv, EndsRefused, EndsUndialled, EndsTooLarge, EndsUnanswered
    <2> QED
      BY <2>1, LoggedEvents DEF EndsCopied
  <1> QED
    BY <1>1, LogInvariant, PTL

\* The outcome line has the status the client was shown, or the 103 that came
\* before it (StatusLogged).
THEOREM StatusIsLogged == Spec => []StatusLogged
  <1>1. StatusInv => StatusLogged
    BY DEF StatusInv, StatusLogged, Last
  <1> QED
    BY <1>1, LogInvariant, PTL

\* The address the check is made on is the one the request came from.
LEMMA OriginSeen ==
    ASSUME req \in Requests, Deployed, server.cidrs # {}
    PROVE  ClientAllowed(server, req) <=> req.origin \in server.cidrs
  <1> DEFINE addr == clientIPFromRequest(req, server.terminator, server.cloudflare)
  <1>1. /\ req.origin \notin {"", NoAddr}
        /\ req.via = "direct" => req.peer = req.origin
        /\ req.via = "terminator" => req.xff # <<>> /\ Rightmost(req.xff) = req.origin
        /\ req.via = "cloudflare" => req.cf = req.origin
    BY EdgeAssumption, Zenon DEF Rightmost
  <1>2. parseIPMaybePort(req.origin) = req.origin
    BY <1>1, Zenon DEF parseIPMaybePort
  <1>3. addr = req.origin
    <2>1. CASE server.cloudflare
      BY <1>1, <1>2, <2>1, Zenon DEF Deployed, clientIPFromRequest
    <2>2. CASE ~ server.cloudflare /\ server.terminator
      BY <1>1, <1>2, <2>2, Zenon DEF Deployed, clientIPFromRequest
    <2>3. CASE ~ server.cloudflare /\ ~ server.terminator
      BY <1>1, <1>2, <2>3, Zenon DEF Deployed, clientIPFromRequest
    <2> QED
      BY <2>1, <2>2, <2>3, Zenon
  <1>4. req.origin # NoAddr
    BY <1>1, Zenon
  <1> QED
    BY <1>3, <1>4, Zenon DEF ClientAllowed, ipInPrefixes

\* The allowlist is about where a request really came from (OriginAllowed).
THEOREM OriginIsAllowed == Spec => []OriginAllowed
  <1>1. TypeOK /\ StageInv /\ LogInv /\ OutAdmitted /\ req \in Requests => OriginAllowed
    <2> SUFFICES ASSUME TypeOK, StageInv, LogInv, OutAdmitted, req \in Requests,
                        Deployed, server.cidrs # {}
                 PROVE  /\ out # NoOut => req.origin \in server.cidrs
                        /\ Logged("proxy_reject") /\ req.origin \in server.cidrs =>
                             \E k \in 1..Len(Checks) :
                                 Checks[k] # "client_ip" /\ RefusedAt(server, req, k)
      BY DEF OriginAllowed
    <2>1. ClientAllowed(server, req) <=> req.origin \in server.cidrs
      BY OriginSeen
    <2>2. FailsCheck(server, req, "client_ip") <=> ~ ClientAllowed(server, req)
      BY DEF FailsCheck
    <2>3. ASSUME Admitted(server, req)
          PROVE  ~ FailsCheck(server, req, "client_ip")
      <3>1. 2 \in 1..Len(Checks) /\ Checks[2] = "client_ip"
        BY DEF Checks
      <3>2. ~ Fails(server, req, "client_ip")
        BY <2>3, <3>1 DEF Admitted
      <3> QED
        BY <3>2 DEF Fails, SealChecks
    <2>4. out # NoOut => req.origin \in server.cidrs
      BY <2>1, <2>2, <2>3 DEF OutAdmitted
    <2>5. ASSUME Logged("proxy_reject")
          PROVE  Refused
      <3>1. "proxy_reject" \in EventsOf(log)
        BY <2>5, LoggedEvents
      <3>2. pc \in {"finish", "done"} /\ req.route = "forward"
        BY <3>1, WarningEvents DEF LogInv, Only, TypeOK, StageInv, Fallback
      <3> QED
        BY <3>1, <3>2
        DEF LogInv, EndsRefused, EndsUndialled, EndsTooLarge, EndsUnanswered, EndsCopied,
            Only, Event, TruncatedEvent, Fallback
    <2>6. ASSUME NEW k \in 1..Len(Checks), RefusedAt(server, req, k), req.origin \in server.cidrs
          PROVE  Checks[k] # "client_ip"
      BY <2>1, <2>2, <2>6 DEF RefusedAt, Fails
    <2> QED
      BY <2>4, <2>5, <2>6 DEF Refused
  <1> QED
    BY <1>1, LogInvariant, StageInvariant, MessagesAdmitted, TypeCorrect, PTL

----------------------------------------------------------------------------
(* The step of Forward that writes a byte, in its parts: Stream, for every *)
(* size of the write buffer and every length of a body.                    *)

Wire == [held : Nat, got : Nat, shown : BOOLEAN]

\* Every unit that was copied for a client that stays is either with it or
\* held for it, and the handler leaves the copy with a unit unread only when
\* the client is gone.
StreamInv ==
    /\ produced \in Nat /\ copied \in Nat /\ wire \in Wire /\ gone \in BOOLEAN
    /\ copied <= produced
    /\ ~ gone => wire.got + wire.held = copied
    /\ copier # "copy" => gone \/ (copied = produced /\ upstream # "open")
    /\ copier = "done" /\ ~ gone => wire.held = 0 /\ wire.shown

\* The buffer loses nothing and makes nothing up, whether a write fills it, a
\* flush empties it or neither happens.
LEMMA WireSteps ==
    ASSUME NEW w \in Wire
    PROVE  /\ Flushed(w) \in Wire /\ Flushed(w).held = 0 /\ Flushed(w).shown
           /\ Flushed(w).got = w.got + w.held
           /\ Write(w) \in Wire /\ Write(w).got + Write(w).held = w.got + w.held + 1
           /\ AfterWrite(w) \in Wire
           /\ AfterWrite(w).got + AfterWrite(w).held = w.got + w.held
  BY DEF Wire, Flushed, Write, AfterWrite

\* Before the first unit of the response nothing is held and nothing is missing.
LEMMA StreamInvInit == StreamInit => StreamInv
  <1> SUFFICES ASSUME StreamInit PROVE StreamInv
    OBVIOUS
  <1> DEFINE w == [held |-> 0, got |-> 0, shown |-> FALSE]
  <1>1. w \in Wire /\ w.got + w.held = 0
    BY DEF Wire
  <1>2. wire = AfterWrite(w)
    BY DEF StreamInit
  <1> HIDE DEF w
  <1>3. wire \in Wire /\ wire.got + wire.held = 0
    BY <1>1, <1>2, WireSteps
  <1>4. produced = 0 /\ copied = 0
    BY DEF StreamInit
  <1>5. produced \in Nat /\ copied \in Nat /\ copied <= produced
        /\ wire.got + wire.held = copied
    BY <1>3, <1>4
  <1>6. copier = "copy" /\ gone = FALSE
    BY DEF StreamInit
  <1> QED
    BY <1>3, <1>5, <1>6, Zenon DEF StreamInv

\* No read, write or flush of the copy loses a unit, and no end is taken early.
LEMMA StreamInvStep == StreamInv /\ [StreamNext]_streamVars => StreamInv'
  <1> SUFFICES ASSUME StreamInv, [StreamNext]_streamVars PROVE StreamInv'
    OBVIOUS
  <1> USE DEF StreamInv
  <1>1. CASE Copy
    <2>1. CASE gone
      BY <1>1, <2>1 DEF Copy
    <2>2. CASE ~ gone
      <3>1. wire' \in Wire /\ wire'.got + wire'.held = wire.got + wire.held + 1
        BY <1>1, <2>2, WireSteps DEF Copy
      <3> QED
        BY <1>1, <2>2, <3>1 DEF Copy
    <2> QED
      BY <2>1, <2>2
  <1>2. CASE CopyEnds
    BY <1>2 DEF CopyEnds
  <1>3. CASE CopyFails
    BY <1>3 DEF CopyFails, Recovered
  <1>4. CASE finishRequest
    <2>1. CASE gone
      BY <1>4, <2>1 DEF finishRequest
    <2>2. CASE ~ gone
      <3>1. /\ wire' \in Wire /\ wire'.held = 0 /\ wire'.shown
            /\ wire'.got = wire.got + wire.held
        BY <1>4, <2>2, WireSteps DEF finishRequest
      <3>2. wire.got + wire.held = copied
        BY <2>2
      <3>3. wire'.got + wire'.held = copied
        BY <3>1, <3>2 DEF Wire
      <3> QED
        BY <1>4, <2>2, <3>1, <3>3 DEF finishRequest
    <2> QED
      BY <2>1, <2>2
  <1>5. CASE UpstreamSends
    BY <1>5 DEF UpstreamSends
  <1>6. CASE UpstreamStops
    BY <1>6 DEF UpstreamStops
  <1>7. CASE ClientLeaves
    BY <1>7 DEF ClientLeaves
  <1>8. CASE StreamOver \/ UNCHANGED streamVars
    BY <1>8 DEF StreamOver, streamVars
  <1> QED
    BY <1>1, <1>2, <1>3, <1>4, <1>5, <1>6, <1>7, <1>8 DEF StreamNext, Copier

\* A client that stays gets the status and all that the upstream sent, also
\* when the upstream failed in the middle and forwardTo recovered (HandedOver).
THEOREM HandsOver == StreamSpec => []HandedOver
  <1>1. StreamInv => HandedOver
    BY DEF StreamInv, HandedOver, Wire
  <1> QED
    BY <1>1, StreamInvInit, StreamInvStep, PTL DEF StreamSpec

=============================================================================
