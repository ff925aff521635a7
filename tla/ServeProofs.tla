----------------------------- MODULE ServeProofs -----------------------------
(***************************************************************************)
(* Proofs about Serve for every set of configurations, TLS files and       *)
(* connections, and every number of replacements of the files.             *)
(***************************************************************************)
EXTENDS Serve, TLAPS

Answered == \A c \in Conns : conns[c] \in {"none", "closed"}

\* Where runServe is, by what has happened: nothing listens during the startup,
\* and the listener is closed by Shutdown only.
Ordered ==
    /\ listener # "none" => main \in {"select", "shutdown", "drain", "wait", "exit"}
    /\ shutdown => main \in {"shutdown", "drain", "wait", "exit"}
    /\ main \in {"shutdown", "drain", "wait"} => shutdown
    /\ listener = "closed" => shutdown

\* Once Shutdown has returned in time there is no connection left, and none can
\* come; what runServe knew when it returned 0 stays as it was.
Drained ==
    /\ conns \in [Conns -> {"none", "new", "aged", "active", "idle", "closed"}]
    /\ main \in {"drain", "wait"} => listener # "serving" /\ (~ late => Answered)
    /\ code = "ok" => main = "exit" /\ Answered /\ (listener # "failed" \/ exitAt = "wait")

----------------------------------------------------------------------------
(* Steps of the model, by what they leave alone                            *)

StartupStep == ParseFlags \/ LoadKeys \/ LoadCert \/ CheckDevCert \/ ParseCIDRs

\* A check of the startup goes on to the next one or ends the process.
LEMMA StartupSteps ==
    ASSUME StartupStep
    PROVE  /\ main \in Startup
           /\ \/ main' \in Startup /\ UNCHANGED <<code, exitAt>>
              \/ main' = "exit" /\ code' = "error"
           /\ UNCHANGED <<conf, disk, swaps, warned, listener, served, conns, shutdown, late>>
  <1>1. ASSUME NEW at \in Startup, NEW ok, NEW next \in Startup, Stage(at, ok, next)
        PROVE  /\ main \in Startup
               /\ \/ main' \in Startup /\ UNCHANGED <<code, exitAt>>
                  \/ main' = "exit" /\ code' = "error"
               /\ UNCHANGED <<conf, disk, swaps, warned, listener, served, conns, shutdown, late>>
    BY <1>1 DEF Stage, Exit, ended, files
  <1>2. /\ "flags" \in Startup /\ "keys" \in Startup /\ "cert" \in Startup
        /\ "devcert" \in Startup /\ "cidrs" \in Startup /\ "start" \in Startup
    BY DEF Startup
  <1>3. CASE ParseFlags
    BY <1>1, <1>2, <1>3, Zenon DEF ParseFlags
  <1>4. CASE LoadKeys
    <2>1. (IF conf.terminator THEN "cidrs" ELSE "cert") \in Startup
      BY <1>2
    <2> QED
      BY <1>1, <1>2, <1>4, <2>1, Zenon DEF LoadKeys
  <1>5. CASE LoadCert
    BY <1>1, <1>2, <1>5, Zenon DEF LoadCert
  <1>6. CASE CheckDevCert
    BY <1>1, <1>2, <1>6, Zenon DEF CheckDevCert
  <1>7. CASE ParseCIDRs
    BY <1>1, <1>2, <1>7, Zenon DEF ParseCIDRs
  <1> QED
    BY <1>3, <1>4, <1>5, <1>6, <1>7 DEF StartupStep

\* The listener goes on, serves only before Shutdown was called, and is closed
\* only after that.
LEMMA ListenerSteps ==
    ASSUME ListenerStep \/ AcceptFails
    PROVE  /\ Running /\ listener # "none" /\ listener' # "none"
           /\ listener' = "closed" => shutdown
           /\ listener' = "serving" => ~ shutdown
           /\ UNCHANGED <<conf, disk, swaps, inspected, warned, main, conns, shutdown,
                          late, code, exitAt>>
  <1>1. ASSUME NEW next, Listening(next)
        PROVE  /\ listener' = next
               /\ UNCHANGED <<conf, disk, swaps, inspected, warned, main, conns, shutdown,
                              late, code, exitAt>>
    BY <1>1 DEF Listening, started, files, ended
  <1>2. CASE Bind
    BY <1>1, <1>2 DEF Bind
  <1>3. CASE LoadPair
    <2>1. Listening("loaded") \/ Listening("failed")
      BY <1>3, Zenon DEF LoadPair
    <2>2. Running /\ listener = "bound"
      BY <1>3 DEF LoadPair
    <2> QED
      BY <1>1, <2>1, <2>2
  <1>4. CASE BeginServe
    <2>1. Running /\ listener \in {"bound", "loaded"}
      BY <1>4 DEF BeginServe
    <2>2. (shutdown /\ Listening("closed")) \/ (~ shutdown /\ Listening("serving"))
      BY <1>4, Zenon DEF BeginServe
    <2> QED
      BY <1>1, <2>1, <2>2
  <1>5. CASE AcceptFails
    <2>1. (shutdown /\ Listening("closed")) \/ (~ shutdown /\ Listening("failed"))
      BY <1>5, Zenon DEF AcceptFails
    <2>2. Running /\ listener = "serving"
      BY <1>5 DEF AcceptFails
    <2> QED
      BY <1>1, <2>1, <2>2
  <1> QED
    BY <1>2, <1>3, <1>4, <1>5 DEF ListenerStep

\* A connection changes, and nothing else.
LEMMA ConnSteps ==
    ASSUME NEW c \in Conns, ConnStep(c), Drained
    PROVE  /\ Running
           /\ conns[c] = "none" => listener = "serving"
           /\ conns[c] # "closed"
           /\ conns' \in [Conns -> {"none", "new", "aged", "active", "idle", "closed"}]
           /\ \A d \in Conns : d # c => conns'[d] = conns[d]
           /\ UNCHANGED <<conf, disk, swaps, inspected, warned, main, listener, served, shutdown,
                          late, code, exitAt>>
  <1>1. ASSUME NEW from, NEW to \in {"new", "aged", "active", "idle", "closed"},
               Becomes(c, from, to)
        PROVE  /\ Running /\ conns[c] \in from
               /\ conns' \in [Conns -> {"none", "new", "aged", "active", "idle", "closed"}]
               /\ \A d \in Conns : d # c => conns'[d] = conns[d]
               /\ UNCHANGED <<conf, disk, swaps, inspected, warned, main, listener, served,
                              shutdown, late, code, exitAt>>
    BY <1>1 DEF Becomes, Drained, started, files, ended
  <1>2. CASE Accept(c)
    BY <1>1, <1>2 DEF Accept
  <1>3. CASE Age(c) \/ Request(c) \/ HangUp(c)
    BY <1>1, <1>3 DEF Age, Request, HangUp
  <1>4. CASE Answer(c)
    <2>1. Becomes(c, {"active"}, "closed") \/ Becomes(c, {"active"}, "idle")
      BY <1>4, Zenon DEF Answer
    <2> QED
      BY <1>1, <2>1
  <1> QED
    BY <1>2, <1>3, <1>4 DEF ConnStep

----------------------------------------------------------------------------
(* The order of things, and the end                                        *)

\* Every step of runServe, the listener and the connections keeps Ordered.
LEMMA OrderedStep ==
    ASSUME Ordered, Drained, [Next]_vars
    PROVE  Ordered'
  <1> USE DEF Ordered
  <1>1. CASE StartupStep
    BY <1>1, StartupSteps DEF Startup
  <1>2. CASE Start
    BY <1>2 DEF Start
  <1>3. CASE TakeSignal \/ TakeError \/ Expire
    BY <1>3 DEF TakeSignal, TakeError, Expire, Exit
  <1>4. CASE Drain \/ GiveUp
    <2>1. main \in {"drain", "wait"} /\ main' \in {"wait", "exit"} /\ UNCHANGED <<listener, shutdown>>
      BY <1>4, Zenon DEF Drain, GiveUp, Exit
    <2> QED
      BY <2>1
  <1>5. CASE ListenerStep \/ AcceptFails
    <2>1. /\ listener # "none" /\ UNCHANGED <<main, shutdown>>
          /\ listener' = "closed" => shutdown
      BY <1>5, ListenerSteps
    <2> QED
      BY <2>1
  <1>6. CASE Poll
    <2>1. main = "shutdown" /\ main' \in {"shutdown", "drain"} /\ UNCHANGED <<listener, shutdown>>
      BY <1>6, Zenon DEF Poll
    <2> QED
      BY <2>1
  <1>7. CASE \E c \in Conns : ConnStep(c)
    BY <1>7, ConnSteps
  <1>8. CASE Signal
    <2>1. /\ Running /\ UNCHANGED <<listener, shutdown>>
          /\ \/ main \in Startup /\ main' = "exit"
             \/ main' = main
      BY <1>8, Zenon DEF Signal, Exit
    <2> QED
      BY <2>1 DEF Startup
  <1>9. CASE (\E d \in Disks : Swap(d)) \/ Exited \/ UNCHANGED vars
    BY <1>9 DEF Swap, Exited, vars
  <1> QED
    BY <1>1, <1>2, <1>3, <1>4, <1>5, <1>6, <1>7, <1>8, <1>9
    DEF Next, MainStep, StartupStep

\* Every step keeps Drained: Shutdown returns nil only when none is left.
LEMMA DrainedStep ==
    ASSUME Ordered, Drained, [Next]_vars
    PROVE  Drained'
  <1> USE DEF Drained
  <1>1. CASE StartupStep
    BY <1>1, StartupSteps DEF Startup, Answered
  <1>2. CASE Start \/ TakeSignal
    BY <1>2 DEF Start, TakeSignal, Answered, ended
  <1>3. CASE TakeError
    <2>1. /\ main = "select" /\ main' = "exit" /\ UNCHANGED <<listener, conns>>
          /\ code' = IF listener = "closed" THEN "ok" ELSE "error"
      BY <1>3 DEF TakeError, Exit
    <2>2. listener # "closed"
      BY <2>1 DEF Ordered
    <2> QED
      BY <2>1, <2>2
  <1>4. CASE Poll
    <2>1. /\ main = "shutdown" /\ listener # "serving"
          /\ conns' = [c \in Conns |-> IF conns[c] \in {"aged", "idle"} THEN "closed" ELSE conns[c]]
          /\ main' = IF Quiescent(conns) THEN "drain" ELSE main
          /\ UNCHANGED <<listener, late, code, exitAt>>
      BY <1>4 DEF Poll, ended
    <2>2. main' = "drain" => Answered'
      BY <2>1 DEF Quiescent, Answered
    <2>3. main' \in {"shutdown", "drain"}
      BY <2>1
    <2> QED
      BY <2>1, <2>2, <2>3
  <1>5. CASE Expire
    BY <1>5 DEF Expire
  <1>6. CASE Drain
    <2>1. /\ main \in {"drain", "wait"} /\ UNCHANGED <<listener, conns, late>>
          /\ \/ main' = "wait" /\ UNCHANGED <<code, exitAt>>
             \/ /\ main' = "exit"
                /\ code' = "ok" => ~ late /\ listener # "failed"
      BY <1>6, Zenon DEF Drain, Exit, ended
    <2> QED
      BY <2>1 DEF Answered
  <1>7. CASE GiveUp
    <2>1. /\ main = "wait" /\ main' = "exit" /\ exitAt' = main /\ UNCHANGED <<listener, conns, late>>
          /\ code' = "ok" => ~ late
      BY <1>7, Zenon DEF GiveUp, Exit
    <2> QED
      BY <2>1 DEF Answered
  <1>8. CASE ListenerStep \/ AcceptFails
    <2>1. /\ Running /\ UNCHANGED <<main, conns, shutdown, late, code, exitAt>>
          /\ listener' = "serving" => ~ shutdown
      BY <1>8, ListenerSteps
    <2> QED
      BY <2>1 DEF Running, Answered, Ordered
  <1>9. ASSUME NEW c \in Conns, ConnStep(c)
        PROVE  Drained'
    <2>1. /\ Running /\ UNCHANGED <<main, listener, late, code, exitAt>>
          /\ conns[c] = "none" => listener = "serving"
          /\ conns[c] # "closed"
          /\ conns' \in [Conns -> {"none", "new", "aged", "active", "idle", "closed"}]
      BY <1>9, ConnSteps
    <2>2. main \in {"drain", "wait"} => late
      BY <2>1 DEF Answered
    <2> QED
      BY <2>1, <2>2 DEF Running
  <1>10. CASE Signal
    <2>1. /\ Running /\ UNCHANGED <<listener, conns, late>>
          /\ \/ main' = "exit" /\ code' = "killed"
             \/ UNCHANGED <<main, code, exitAt>>
      BY <1>10, Zenon DEF Signal, Exit, ended
    <2> QED
      BY <2>1 DEF Running, Answered
  <1>11. CASE (\E d \in Disks : Swap(d)) \/ Exited \/ UNCHANGED vars
    BY <1>11 DEF Swap, Exited, vars, Answered, ended
  <1> QED
    BY <1>1, <1>2, <1>3, <1>4, <1>5, <1>6, <1>7, <1>8, <1>9, <1>10, <1>11
    DEF Next, MainStep, StartupStep

\* The two are invariants.
LEMMA EndInvariant == Spec => [](Ordered /\ Drained)
  <1>1. Init => Ordered /\ Drained
    BY DEF Init, Ordered, Drained, Answered
  <1>2. Ordered /\ Drained /\ [Next]_vars => (Ordered /\ Drained)'
    BY OrderedStep, DrainedStep
  <1> QED
    BY <1>1, <1>2, PTL DEF Spec

\* Exit status 0 says that every connection had been answered
\* (ZeroMeansAnswered).
THEOREM ZeroIsClean == Spec => []ZeroMeansAnswered
  <1>1. Drained => ZeroMeansAnswered
    BY DEF Drained, Answered, ZeroMeansAnswered
  <1> QED
    BY <1>1, EndInvariant, PTL

\* A listener that failed is not masked by a signal (FailureShown).
THEOREM FailureIsShown == Spec => []FailureShown
  <1>1. Drained => FailureShown
    BY DEF Drained, FailureShown
  <1> QED
    BY <1>1, EndInvariant, PTL

----------------------------------------------------------------------------
(* What was said and looked at before anybody can connect                  *)

\* The warnings come before the listener, and the listener before connections.
Announced ==
    /\ conf \in Confs
    /\ main = "start" \/ listener # "none" => Entries("bad") = {}
    /\ listener # "none" => warned = IF ShowsWarn THEN Warnings ELSE {}
    /\ \A c \in Conns : conns[c] # "none" => listener # "none"

\* Every step keeps Announced: the warnings come before the listener.
LEMMA AnnouncedStep ==
    ASSUME Announced, Ordered, Drained, [Next]_vars
    PROVE  Announced'
  <1> USE DEF Announced
  <1>0. ASSUME conf' = conf
        PROVE  Entries("bad")' = Entries("bad") /\ Warnings' = Warnings /\ ShowsWarn' = ShowsWarn
    BY <1>0 DEF Entries, Warnings, ShowsWarn
  <1>1. CASE StartupStep
    <2>1. ASSUME main' = "start"
          PROVE  Entries("bad") = {}
      <3>1. CASE ParseCIDRs
        BY <2>1, <3>1 DEF ParseCIDRs, Stage, Exit
      <3>2. CASE ParseFlags \/ LoadCert \/ CheckDevCert
        BY <2>1, <3>2 DEF ParseFlags, LoadCert, CheckDevCert, Stage, Exit
      <3>3. CASE LoadKeys
        <4>1. main' \in {"cidrs", "cert", "exit"}
          BY <3>3, Zenon DEF LoadKeys, Stage, Exit
        <4> QED
          BY <2>1, <4>1
      <3> QED
        BY <1>1, <3>1, <3>2, <3>3 DEF StartupStep
    <2>2. UNCHANGED <<conf, warned, listener, conns>>
      BY <1>1, StartupSteps
    <2> QED
      BY <1>0, <2>1, <2>2
  <1>2. CASE Start
    <2>1. /\ main = "start" /\ main' = "select" /\ UNCHANGED <<conf, conns>>
          /\ warned' = (IF ShowsWarn THEN Warnings ELSE {}) /\ listener' = "starting"
      BY <1>2 DEF Start
    <2> QED
      BY <1>0, <2>1
  <1>3. CASE ListenerStep \/ AcceptFails
    <2>1. listener # "none" /\ listener' # "none" /\ UNCHANGED <<conf, warned, main, conns>>
      BY <1>3, ListenerSteps
    <2> QED
      BY <1>0, <2>1
  <1>4. ASSUME NEW c \in Conns, ConnStep(c)
        PROVE  Announced'
    <2>1. /\ UNCHANGED <<conf, warned, main, listener>>
          /\ conns[c] = "none" => listener = "serving"
          /\ \A d \in Conns : d # c => conns'[d] = conns[d]
      BY <1>4, ConnSteps
    <2> QED
      BY <1>0, <2>1
  <1>5. CASE Poll
    <2>1. /\ UNCHANGED <<conf, warned, listener>> /\ main' \in {"shutdown", "drain"}
          /\ main = "shutdown"
          /\ conns' = [c \in Conns |-> IF conns[c] \in {"aged", "idle"} THEN "closed" ELSE conns[c]]
      BY <1>5, Zenon DEF Poll, started
    <2> QED
      BY <1>0, <2>1
  <1>6. CASE TakeSignal \/ TakeError \/ Expire \/ Drain \/ GiveUp \/ Signal
    <2>1. /\ UNCHANGED <<conf, warned, listener, conns>>
          /\ main' = main \/ main' \in {"shutdown", "drain", "wait", "exit"}
      BY <1>6, Zenon DEF TakeSignal, TakeError, Expire, Drain, GiveUp, Signal, Exit, started
    <2> QED
      BY <1>0, <2>1
  <1>7. CASE (\E d \in Disks : Swap(d)) \/ Exited \/ UNCHANGED vars
    <2>1. UNCHANGED <<conf, warned, listener, conns, main>>
      BY <1>7 DEF Swap, Exited, vars, started
    <2> QED
      BY <1>0, <2>1
  <1> QED
    BY <1>1, <1>2, <1>3, <1>4, <1>5, <1>6, <1>7 DEF Next, MainStep, StartupStep

\* Of a list without bad entries, the blank ones are those that are no network.
LEMMA BlankList ==
    ASSUME conf \in Confs, Entries("bad") = {}
    PROVE  (\A n \in 1..Len(conf.cidrs) : conf.cidrs[n] = "blank") <=> Entries("net") = {}
  <1>1. \A n \in 1..Len(conf.cidrs) : conf.cidrs[n] \in {"net", "blank", "bad"}
    BY ConfsAssumption
  <1>2. \A n \in 1..Len(conf.cidrs) : conf.cidrs[n] # "bad"
    BY DEF Entries
  <1>3. Entries("net") = {} <=> \A n \in 1..Len(conf.cidrs) : conf.cidrs[n] # "net"
    BY DEF Entries
  <1> QED
    BY <1>1, <1>2, <1>3

\* An open relay is announced before anybody can use it (RelayAnnounced).
THEOREM RelayIsAnnounced == Spec => []RelayAnnounced
  <1>1. Announced => RelayAnnounced
    <2> SUFFICES ASSUME Announced, \E c \in Conns : conns[c] # "none", conf.passthrough, ShowsWarn
                 PROVE  (\A n \in 1..Len(conf.cidrs) : conf.cidrs[n] = "blank")
                            <=> "startup_passthrough_open" \in warned
      BY Zenon DEF RelayAnnounced
    <2>1. warned = Warnings /\ conf \in Confs /\ Entries("bad") = {}
      BY Zenon DEF Announced
    <2>2. ASSUME Entries("net") = {}
          PROVE  "startup_passthrough_open" \in Warnings
      <3>1. Warnings = {"startup_passthrough_open"}
                         \cup (IF conf.noAuth THEN {"startup_no_auth_enabled"} ELSE {})
        BY <2>2, Zenon DEF Warnings
      <3> QED
        BY <3>1
    <2>3. ASSUME Entries("net") # {}
          PROVE  "startup_passthrough_open" \notin Warnings
      <3>1. Warnings = {"startup_passthrough_enabled"}
                         \cup (IF conf.noAuth THEN {"startup_no_auth_enabled"} ELSE {})
        BY <2>3, Zenon DEF Warnings
      <3>2. Warnings \subseteq {"startup_passthrough_enabled", "startup_no_auth_enabled"}
        BY <3>1, Zenon
      <3> QED
        BY <3>2
    <2> QED
      BY <2>1, <2>2, <2>3, BlankList
  <1>2. Init => Announced
    BY DEF Init, Announced
  <1>3. Announced /\ Ordered /\ Drained /\ [Next]_vars => Announced'
    BY AnnouncedStep
  <1> QED
    BY <1>1, <1>2, <1>3, EndInvariant, PTL DEF Spec

----------------------------------------------------------------------------
(* The certificate                                                         *)

\* What CheckDevCert saw is what is there, and it let the process go on.
Cleared == inspected = disk /\ (IsDevCert(disk) => conf.allowDev)

Inspected ==
    /\ disk \in Disks /\ swaps \in Nat
    /\ main \in {"cidrs", "start", "select", "shutdown", "drain", "wait"} =>
           conf.terminator \/ swaps > 0 \/ Cleared
    /\ served # NoCert => listener # "none"
    /\ served # NoCert =>
           \/ swaps > 0
           \/ Cleared /\ disk.cert = "present" /\ Certificates(disk) # {} /\ served = Leaf(disk)

\* Every step keeps Inspected: a file replaced after IsDevCert counts as swap.
LEMMA InspectedStep ==
    ASSUME Inspected, Ordered, Drained, [Next]_vars
    PROVE  Inspected'
  <1> USE DEF Inspected
  <1>0. ASSUME UNCHANGED <<conf, disk, inspected>>
        PROVE  Cleared' = Cleared
    BY <1>0 DEF Cleared
  <1>1. CASE StartupStep
    <2>1. served = NoCert /\ served' = served /\ UNCHANGED <<conf, disk, swaps, listener>>
      BY <1>1, StartupSteps DEF Ordered, Startup
    <2>2. ASSUME main' \in {"cidrs", "start", "select", "shutdown", "drain", "wait"}
          PROVE  conf.terminator \/ swaps > 0 \/ Cleared'
      <3>1. CASE CheckDevCert
        <4>1. (IsDevCert(disk) => conf.allowDev) /\ inspected' = disk
          BY <2>2, <3>1 DEF CheckDevCert, Stage, Exit
        <4> QED
          BY <2>1, <4>1, Zenon DEF Cleared
      <3>2. CASE ParseFlags \/ LoadCert
        BY <2>2, <3>2 DEF ParseFlags, LoadCert, Stage, Exit
      <3>3. CASE LoadKeys
        <4>1. main' \in {IF conf.terminator THEN "cidrs" ELSE "cert", "exit"}
          BY <3>3, Zenon DEF LoadKeys, Stage, Exit
        <4>2. conf.terminator
          BY <2>2, <4>1
        <4> QED
          BY <4>2
      <3>4. CASE ParseCIDRs
        <4>1. main = "cidrs" /\ inspected' = inspected
          BY <3>4 DEF ParseCIDRs, Stage
        <4> QED
          BY <1>0, <2>1, <4>1
      <3> QED
        BY <1>1, <3>1, <3>2, <3>3, <3>4 DEF StartupStep
    <2> QED
      BY <2>1, <2>2
  <1>2. CASE LoadPair
    <2>1. /\ listener = "bound" /\ main \in {"select", "shutdown", "drain", "wait"}
          /\ ~ conf.terminator
      BY <1>2 DEF LoadPair, Running, Ordered
    <2>2. listener' # "none" /\ UNCHANGED <<conf, disk, swaps, inspected, main>>
      BY <1>2, ListenerSteps DEF ListenerStep
    <2>3. \/ served' = served
          \/ disk.cert = "present" /\ Certificates(disk) # {} /\ served' = Leaf(disk)
      BY <1>2, Zenon DEF LoadPair
    <2>4. swaps > 0 \/ Cleared
      BY <2>1
    <2>5. Certificates(disk)' = Certificates(disk) /\ Leaf(disk)' = Leaf(disk) /\ Cleared' = Cleared
      BY <1>0, <2>2 DEF Certificates, Leaf
    <2> QED
      BY <2>1, <2>2, <2>3, <2>4, <2>5
  <1>3. ASSUME UNCHANGED <<conf, disk, swaps, inspected, served>>, listener' = listener \/ listener' # "none",
               main' = "exit" \/ main \in {"start", "select", "shutdown", "drain", "wait"} \/ main' = main
        PROVE  Inspected'
    <2>1. Certificates(disk)' = Certificates(disk) /\ Leaf(disk)' = Leaf(disk) /\ Cleared' = Cleared
      BY <1>0, <1>3 DEF Certificates, Leaf
    <2> QED
      BY <1>3, <2>1
  <1>4. CASE Bind \/ BeginServe \/ AcceptFails
    <2>1. listener' # "none" /\ UNCHANGED <<conf, disk, swaps, inspected, main>>
      BY <1>4, ListenerSteps DEF ListenerStep
    <2>2. served' = served
      BY <1>4 DEF Bind, BeginServe, AcceptFails
    <2> QED
      BY <1>3, <2>1, <2>2
  <1>5. CASE \E c \in Conns : ConnStep(c)
    <2>1. UNCHANGED <<conf, disk, swaps, inspected, served, main, listener>>
      BY <1>5, ConnSteps
    <2> QED
      BY <1>3, <2>1
  <1>6. CASE Start \/ TakeSignal \/ TakeError \/ Poll \/ Expire \/ Drain \/ GiveUp
    <2>1. /\ UNCHANGED <<conf, disk, swaps, inspected, served>>
          /\ main \in {"start", "select", "shutdown", "drain", "wait"}
          /\ listener' = listener \/ listener' = "starting"
      BY <1>6, Zenon DEF Start, TakeSignal, TakeError, Poll, Expire, Drain, GiveUp, started, files
    <2> QED
      BY <1>3, <2>1
  <1>7. CASE Signal \/ Exited \/ UNCHANGED vars
    <2>1. /\ UNCHANGED <<conf, disk, swaps, inspected, served, listener>>
          /\ main' = "exit" \/ main' = main
      BY <1>7, Zenon DEF Signal, Exit, Exited, vars, started, files
    <2> QED
      BY <1>3, <2>1
  <1>8. CASE \E d \in Disks : Swap(d)
    BY <1>8 DEF Swap, started
  <1> QED
    BY <1>1, <1>2, <1>4, <1>5, <1>6, <1>7, <1>8
    DEF Next, MainStep, StartupStep, ListenerStep

\* The first block that is a certificate, when the first block is one.
LEMMA FirstLeaf ==
    ASSUME NEW d \in Disks, Certificates(d) # {}, d.blocks[1].type = "CERTIFICATE"
    PROVE  Leaf(d) = d.blocks[1] /\ d.blocks # <<>>
  <1>1. d.blocks \in Seq([type : STRING, dev : BOOLEAN]) /\ Len(d.blocks) \in Nat
    BY DisksAssumption
  <1>2. 1 \in Certificates(d) /\ Certificates(d) \subseteq 1..Len(d.blocks)
    BY <1>1 DEF Certificates
  <1> DEFINE Least(n) == n \in Certificates(d) /\ \A m \in Certificates(d) : n <= m
             k == CHOOSE n \in Certificates(d) : \A m \in Certificates(d) : n <= m
  <1>3. Least(1)
    BY <1>2
  <1>4. k \in Certificates(d) /\ \A m \in Certificates(d) : k <= m
    BY <1>3, Zenon
  <1> HIDE DEF k
  <1>5. k = 1
    BY <1>2, <1>4
  <1>6. d.blocks # <<>>
    BY <1>1, <1>2
  <1> QED
    BY <1>5, <1>6 DEF Leaf, k

\* A development certificate gets around the inspection in two ways only
\* (DevCertOnlyAround).
THEOREM DevCertGoesAround == Spec => []DevCertOnlyAround
  <1>1. Inspected => DevCertOnlyAround
    <2> SUFFICES ASSUME Inspected, served # NoCert, served.dev, ~ conf.allowDev,
                        ~ (swaps > 0), inspected.blocks[1].type = "CERTIFICATE"
                 PROVE  FALSE
      BY Zenon DEF DevCertOnlyAround
    <2>1. /\ inspected = disk /\ (IsDevCert(disk) => conf.allowDev)
          /\ disk \in Disks /\ disk.cert = "present" /\ Certificates(disk) # {} /\ served = Leaf(disk)
      BY Zenon DEF Inspected, Cleared
    <2>2. served = disk.blocks[1] /\ disk.blocks # <<>>
      BY <2>1, FirstLeaf
    <2>3. IsDevCert(disk)
      BY <2>1, <2>2, Zenon DEF IsDevCert
    <2> QED
      BY <2>1, <2>3, Zenon
  <1>2. Init => Inspected
    BY DEF Init, Inspected
  <1>3. Inspected /\ Ordered /\ Drained /\ [Next]_vars => Inspected'
    BY InspectedStep
  <1> QED
    BY <1>1, <1>2, <1>3, EndInvariant, PTL DEF Spec

=============================================================================
