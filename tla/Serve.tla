------------------------------- MODULE Serve -------------------------------
(***************************************************************************)
(* The serve command: runServe of cmd/secret-proxy/main.go from its flags  *)
(* to its return value, with LoadCert and IsDevCert (tlscert.go), the      *)
(* goroutine that listens, the connections net/http tracks, and signals.   *)
(*                                                                         *)
(* A configuration is a record: envOK (the numeric variables parse),       *)
(* cloudflare, terminator, key and prev (the four sources of a private     *)
(* key: fileFlag, hexFlag, fileEnv, hexEnv), certGiven (both TLS flags),   *)
(* allowDev, cidrs (the entries of --allowed-client-cidrs: "net", "blank"  *)
(* or "bad"), passthrough, noAuth, level.                                  *)
(*                                                                         *)
(* The TLS files are a record: cert ("present", "unreadable", "absent"),   *)
(* key (BOOLEAN), blocks (the PEM blocks of the certificate file, each a   *)
(* [type, dev]) and match (the key belongs to the certificate).  They are  *)
(* replaced while the process starts and runs.                             *)
(***************************************************************************)
EXTENDS Keys, Naturals, Sequences

CONSTANTS
    Confs,          \* configurations the operator may start with
    Disks,          \* contents of the TLS files
    Conns,          \* client connections
    MaxSwaps,       \* bound on how often the TLS files are replaced
    NoDisk, NoCert  \* nothing inspected, no certificate loaded

ASSUME MaxSwapsAssumption == MaxSwaps \in Nat
ASSUME KeysAssumption == NoKey # BadKey
ASSUME ConfsAssumption == \A c \in Confs : c.cidrs \in Seq({"net", "blank", "bad"})
ASSUME DisksAssumption == \A d \in Disks : d.blocks \in Seq([type : STRING, dev : BOOLEAN])

VARIABLES
    conf,       \* the configuration
    disk,       \* the TLS files
    swaps,      \* how often they were replaced
    main,       \* where runServe is
    keys,       \* the private key and the previous one, as loaded
    inspected,  \* the TLS files as IsDevCert saw them
    warned,     \* startup warnings that the log shows
    listener,   \* the goroutine: none, starting, bound, loaded, serving, closed, failed
    served,     \* the certificate ServeTLS loaded
    errCh,      \* the listener's error waits in errCh
    conns,      \* connection -> none, new, aged, active, idle, closed
    shutdown,   \* the server is shutting down
    signalled,  \* the context of NotifyContext is done
    late,       \* Shutdown returned the error of its deadline
    code,       \* exit status: none, ok (0), error (1), killed
    exitAt      \* the stage runServe returned from

files == <<disk, swaps>>
started == <<conf, keys, inspected, warned>>
ended == <<late, code, exitAt>>
vars == <<conf, disk, swaps, main, keys, inspected, warned, listener, served, errCh,
          conns, shutdown, signalled, late, code, exitAt>>

Init ==
    /\ conf \in Confs
    /\ disk \in Disks
    /\ swaps = 0
    /\ main = "flags"
    /\ keys = [key |-> NoKey, previous |-> NoKey]
    /\ inspected = NoDisk
    /\ warned = {}
    /\ listener = "none"
    /\ served = NoCert
    /\ errCh = FALSE
    /\ conns = [c \in Conns |-> "none"]
    /\ shutdown = FALSE
    /\ signalled = FALSE
    /\ late = FALSE
    /\ code = "none"
    /\ exitAt = "none"

Running == main # "exit"

\* runServe returns and main exits: every goroutine ends with it.
Exit(status) ==
    /\ main' = "exit"
    /\ code' = status
    /\ exitAt' = main
    /\ UNCHANGED late

----------------------------------------------------------------------------
(* The startup checks, in their order                                      *)

Startup == {"flags", "keys", "cert", "devcert", "cidrs", "start"}

\* A stage of the startup: an error return, or the next stage.
Stage(at, ok, next) ==
    /\ main = at
    /\ \/ ok /\ main' = next /\ UNCHANGED ended
       \/ ~ ok /\ Exit("error")
    /\ UNCHANGED <<conf, files, warned, listener, served, errCh, conns, shutdown, signalled>>

\* Environment defaults, flag.Parse, and the flag that needs another.
ParseFlags ==
    /\ Stage("flags", conf.envOK /\ (conf.cloudflare => conf.terminator), "keys")
    /\ UNCHANGED <<keys, inspected>>

FileSource(s) == FlagOr(s.fileFlag, s.fileEnv)
HexSource(s) == FlagOr(s.hexFlag, s.hexEnv)

LoadKeys ==
    LET key  == loadPrivateKey(FileSource(conf.key), HexSource(conf.key))
        prev == loadPreviousPrivateKey(FileSource(conf.prev), HexSource(conf.prev))
        ok   == key # BadKey /\ prev # BadKey
    IN  /\ Stage("keys", ok, IF conf.terminator THEN "cidrs" ELSE "cert")
        /\ keys' = IF ok THEN [key |-> key, previous |-> prev] ELSE keys
        /\ UNCHANGED inspected

\* Both files are there to stat, readable or not.
Statable(d) == d.cert # "absent" /\ d.key

\* Both flags are there, and LoadCert finds the files.
LoadCert ==
    /\ Stage("cert", conf.certGiven /\ Statable(disk), "devcert")
    /\ UNCHANGED <<keys, inspected>>

\* IsDevCert: the first PEM block of the file is a certificate, the
\* development one.
IsDevCert(d) ==
    /\ d.cert = "present"
    /\ d.blocks # <<>>
    /\ d.blocks[1].type = "CERTIFICATE"
    /\ d.blocks[1].dev

\* Mutant of CheckDevCert: the certificate is not inspected.
CheckDevCertSkipped ==
    /\ Stage("devcert", TRUE, "cidrs")
    /\ inspected' = disk
    /\ UNCHANGED keys

CheckDevCert ==
    /\ Stage("devcert", IsDevCert(disk) => conf.allowDev, "cidrs")
    /\ inspected' = disk
    /\ UNCHANGED keys

Entries(kind) == {n \in 1..Len(conf.cidrs) : conf.cidrs[n] = kind}

\* ParseAllowedClientCIDRs: one bad entry is an error, blank ones are skipped.
ParseCIDRs ==
    /\ Stage("cidrs", Entries("bad") = {}, "start")
    /\ UNCHANGED <<keys, inspected>>

\* The warnings about passthrough and no_auth.
Warnings ==
    (IF ~ conf.passthrough THEN {}
     ELSE IF Entries("net") = {} THEN {"startup_passthrough_open"}
     ELSE {"startup_passthrough_enabled"})
    \cup (IF conf.noAuth THEN {"startup_no_auth_enabled"} ELSE {})

\* newLogger: a WARN line is shown at every level but "error"; an unknown
\* level is "info".
ShowsWarn == conf.level # "error"

\* Mutant of Start: the list is taken as given, blank entries included.
StartCountingBlanks ==
    /\ main = "start"
    /\ warned' = IF ShowsWarn /\ conf.passthrough /\ conf.cidrs = <<>>
                 THEN {"startup_passthrough_open"} ELSE {}
    /\ listener' = "starting"
    /\ main' = "select"
    /\ UNCHANGED <<conf, files, keys, inspected, served, errCh, conns, shutdown, signalled, ended>>

\* The warnings, NotifyContext, and the goroutine that listens.
Start ==
    /\ main = "start"
    /\ warned' = IF ShowsWarn THEN Warnings ELSE {}
    /\ listener' = "starting"
    /\ main' = "select"
    /\ UNCHANGED <<conf, files, keys, inspected, served, errCh, conns, shutdown, signalled, ended>>

----------------------------------------------------------------------------
(* The listener goroutine: ListenAndServe or ListenAndServeTLS             *)

Listening(next) ==
    /\ listener' = next
    /\ errCh' = (next \in {"closed", "failed"})
    /\ UNCHANGED <<started, files, main, conns, shutdown, signalled, ended>>

\* net.Listen, unless the server is shutting down already.
Bind ==
    /\ Running /\ listener = "starting"
    /\ IF shutdown THEN Listening("closed") ELSE Listening("bound") \/ Listening("failed")
    /\ UNCHANGED served

\* Where the certificates of the file are; tls.X509KeyPair skips other blocks.
Certificates(d) == {n \in 1..Len(d.blocks) : d.blocks[n].type = "CERTIFICATE"}

\* The first of them is the one that the listener shows.
Leaf(d) == d.blocks[CHOOSE n \in Certificates(d) : \A m \in Certificates(d) : n <= m]

\* ServeTLS loads the files again.
LoadPair ==
    /\ Running /\ listener = "bound" /\ ~ conf.terminator
    /\ IF disk.cert = "present" /\ disk.key /\ disk.match /\ Certificates(disk) # {}
       THEN served' = Leaf(disk) /\ Listening("loaded")
       ELSE UNCHANGED served /\ Listening("failed")

\* Serve tracks its listener, unless the server is shutting down.
BeginServe ==
    /\ Running /\ listener = (IF conf.terminator THEN "bound" ELSE "loaded")
    /\ Listening(IF shutdown THEN "closed" ELSE "serving")
    /\ UNCHANGED served

\* Accept fails, or the listener was closed by Shutdown.
AcceptFails ==
    /\ Running /\ listener = "serving"
    /\ Listening(IF shutdown THEN "closed" ELSE "failed")
    /\ UNCHANGED served

ListenerStep == Bind \/ LoadPair \/ BeginServe

----------------------------------------------------------------------------
(* Connections, as net/http tracks them                                    *)

Becomes(c, from, to) ==
    /\ Running
    /\ conns[c] \in from
    /\ conns' = [conns EXCEPT ![c] = to]
    /\ UNCHANGED <<started, files, main, listener, served, errCh, shutdown, signalled, ended>>

\* Also after Shutdown closed the listener, when Accept had returned before.
Accept(c) == listener = "serving" /\ Becomes(c, {"none"}, "new")

\* Five seconds without a byte: Shutdown takes it for an idle one.
Age(c) == Becomes(c, {"new"}, "aged")

Request(c) == Becomes(c, {"new", "aged", "idle"}, "active")

\* The handler returned; connections are not kept during a shutdown.
Answer(c) == Becomes(c, {"active"}, IF shutdown THEN "closed" ELSE "idle")

\* The client or a time limit closed it, after its handler returned.
HangUp(c) == Becomes(c, {"new", "aged", "active", "idle"}, "closed")

----------------------------------------------------------------------------
(* The end of runServe                                                     *)

\* Before NotifyContext a signal kills the process; a second one is swallowed.
Signal ==
    /\ Running /\ ~ signalled
    /\ signalled' = TRUE
    /\ IF main \in Startup THEN Exit("killed") ELSE UNCHANGED <<main, ended>>
    /\ UNCHANGED <<started, files, listener, served, errCh, conns, shutdown>>

\* The select chose ctx.Done: Shutdown closes the listener.
TakeSignal ==
    /\ main = "select" /\ signalled
    /\ shutdown' = TRUE
    /\ main' = "shutdown"
    /\ UNCHANGED <<started, files, listener, served, errCh, conns, signalled, ended>>

\* The select chose errCh.
TakeError ==
    /\ main = "select" /\ errCh
    /\ errCh' = FALSE
    /\ Exit(IF listener = "closed" THEN "ok" ELSE "error")
    /\ UNCHANGED <<started, files, listener, served, conns, shutdown, signalled>>

\* A connection that keeps Shutdown from returning.
Quiescent(cs) == \A c \in Conns : cs[c] \notin {"new", "active"}

\* Mutant of Poll: one look at the connections, and Shutdown returns.
PollOnce ==
    /\ main = "shutdown" /\ listener # "serving"
    /\ conns' = [c \in Conns |-> IF conns[c] \in {"aged", "idle"} THEN "closed" ELSE conns[c]]
    /\ main' = "drain"
    /\ UNCHANGED <<started, files, listener, served, errCh, shutdown, signalled, ended>>

\* Shutdown, once Serve has returned: closeIdleConns, again and again.
Poll ==
    /\ main = "shutdown" /\ listener # "serving"
    /\ conns' = [c \in Conns |-> IF conns[c] \in {"aged", "idle"} THEN "closed" ELSE conns[c]]
    /\ main' = IF Quiescent(conns) THEN "drain" ELSE main
    /\ UNCHANGED <<started, files, listener, served, errCh, shutdown, signalled, ended>>

\* Mutant of Expire: Shutdown is given a context without a deadline.
ExpireNever == FALSE /\ UNCHANGED vars

\* The five seconds of shutdownCtx are over.
Expire ==
    /\ main = "shutdown" /\ listener # "serving"
    /\ main' = "drain"
    /\ late' = TRUE
    /\ UNCHANGED <<started, files, listener, served, errCh, conns, shutdown, signalled, code, exitAt>>

\* Mutant of Drain: the listener's error is not looked at.
DrainIgnoring ==
    /\ main = "drain"
    /\ UNCHANGED errCh
    /\ Exit(IF late THEN "error" ELSE "ok")
    /\ UNCHANGED <<started, files, listener, served, conns, shutdown, signalled>>

\* The second select finds the listener's error in the channel or waits for it.
Drain ==
    /\ main \in {"drain", "wait"}
    /\ IF errCh
       THEN /\ errCh' = FALSE
            /\ Exit(IF listener = "failed" \/ late THEN "error" ELSE "ok")
       ELSE /\ main = "drain" /\ main' = "wait"
            /\ UNCHANGED <<errCh, ended>>
    /\ UNCHANGED <<started, files, listener, served, conns, shutdown, signalled>>

\* Another five seconds are over; an error that just arrived can still win.
GiveUp ==
    /\ main = "wait"
    /\ Exit(IF late THEN "error" ELSE "ok")
    /\ UNCHANGED <<started, files, listener, served, errCh, conns, shutdown, signalled>>

----------------------------------------------------------------------------

\* The TLS files are replaced.
Swap(d) ==
    /\ Running /\ swaps < MaxSwaps
    /\ disk' = d
    /\ swaps' = swaps + 1
    /\ UNCHANGED <<started, main, listener, served, errCh, conns, shutdown, signalled, ended>>

Exited == main = "exit" /\ UNCHANGED vars

MainStep ==
    \/ ParseFlags \/ LoadKeys \/ LoadCert \/ CheckDevCert \/ ParseCIDRs \/ Start
    \/ TakeSignal \/ TakeError \/ Expire \/ Drain \/ GiveUp

ConnStep(c) == Accept(c) \/ Age(c) \/ Request(c) \/ Answer(c) \/ HangUp(c)

Next ==
    \/ MainStep \/ ListenerStep \/ AcceptFails \/ Poll
    \/ \E c \in Conns : ConnStep(c)
    \/ Signal
    \/ \E d \in Disks : Swap(d)
    \/ Exited

\* runServe and the listener run on, timers fire, and a closed listener makes
\* Accept return.  Nothing is assumed of handlers and clients.
Spec ==
    /\ Init /\ [][Next]_vars
    /\ WF_vars(MainStep) /\ WF_vars(ListenerStep) /\ WF_vars(AcceptFails /\ shutdown)

----------------------------------------------------------------------------

\* Exit status 0 says that the shutdown was clean: every connection that was
\* ever accepted, also between the signal and the closing of the listener,
\* had been answered or was idle.
ZeroMeansAnswered == code = "ok" => \A c \in Conns : conns[c] \in {"none", "closed"}

\* A listener that failed shows in the exit status, also when a signal came
\* before its error was read ("so a real listener failure isn't masked"); only
\* an error that arrives while the five seconds run out can be missed.
FailureShown == code = "ok" => listener # "failed" \/ exitAt = "wait"

\* A development certificate that is served without --allow-dev-cert came in
\* one of two ways: the files were replaced after they were inspected, or the
\* file begins with a block that is no certificate.  On files left alone the
\* inspection and the second reading by ServeTLS agree.
DevCertOnlyAround ==
    served # NoCert /\ served.dev /\ ~ conf.allowDev =>
        swaps > 0 \/ inspected.blocks[1].type # "CERTIFICATE"

\* Nobody connects to an instance that forwards without a seal and without an
\* ingress allowlist before the log says so, however the list was written
\* ("," is an empty list), at every log level that shows warnings.
RelayAnnounced ==
    (\E c \in Conns : conns[c] # "none") /\ conf.passthrough /\ ShowsWarn =>
        ((\A n \in 1..Len(conf.cidrs) : conf.cidrs[n] = "blank")
            <=> "startup_passthrough_open" \in warned)

\* A signal, or the end of the listener, ends the process, whatever handlers
\* and clients do.
ProcessEnds == (signalled \/ errCh) ~> main = "exit"

=============================================================================
