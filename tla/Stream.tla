------------------------------- MODULE Stream -------------------------------
(***************************************************************************)
(* The way of a response body from the upstream to the client: what        *)
(* Forward takes for one step, writing a byte, in its parts.  The copy     *)
(* loop of httputil.ReverseProxy reads through bodyReadTracker and writes  *)
(* through statusWriter into the write buffer of net/http, which goes to   *)
(* the client when it is full, when it is flushed, and when the handler    *)
(* has returned.                                                           *)
(***************************************************************************)
EXTENDS Naturals

CONSTANTS
    Room,           \* units the write buffer of net/http holds
    MaxUnits        \* bound on the units of a body

ASSUME RoomAssumption == Room \in Nat \ {0}
ASSUME MaxUnitsAssumption == MaxUnits \in Nat

VARIABLES
    kind,       \* of the response: length, chunked or events (text/event-stream)
    produced,   \* units the upstream has sent
    upstream,   \* open, ended or failed
    copier,     \* the handler: copy, finish (it has returned), done
    copied,     \* units written through statusWriter
    wire,       \* the client's side: units held for it, units it got, whether it saw the status
    gone,       \* the client is gone
    logged      \* the outcome line: none, proxied or proxied_truncated

streamVars == <<kind, produced, upstream, copier, copied, wire, gone, logged>>

----------------------------------------------------------------------------
(* Flushing                                                                *)

\* The method set of statusWriter: it embeds an http.ResponseWriter, of which
\* it has the methods of that interface and no others.
statusWriter == {"Header", "Write", "WriteHeader"}

\* http.ResponseController.Flush finds something to call.
CanFlush == statusWriter \cap {"Flush", "FlushError", "Unwrap"} # {}

Flushed(w) == [held |-> 0, got |-> w.got + w.held, shown |-> TRUE]

\* ReverseProxy.flushInterval with the FlushInterval that forwardTo leaves 0.
Immediate == kind \in {"chunked", "events"}

\* maxLatencyWriter flushes after each write, and ignores that it cannot.
AfterWrite(w) == IF Immediate /\ CanFlush THEN Flushed(w) ELSE w

\* A unit goes to the buffer; one that is full is written out first.
Write(w) ==
    IF w.held < Room THEN [w EXCEPT !.held = @ + 1]
    ELSE [held |-> 1, got |-> w.got + w.held, shown |-> TRUE]

----------------------------------------------------------------------------

\* The head of the response has been written: ReverseProxy is about to copy.
StreamInit ==
    /\ kind \in {"length", "chunked", "events"}
    /\ produced = 0 /\ upstream = "open"
    /\ copier = "copy" /\ copied = 0
    /\ wire = AfterWrite([held |-> 0, got |-> 0, shown |-> FALSE])
    /\ gone = FALSE
    /\ logged = "none"

UpstreamSends ==
    /\ upstream = "open" /\ produced < MaxUnits
    /\ produced' = produced + 1
    /\ UNCHANGED <<kind, upstream, copier, copied, wire, gone, logged>>

UpstreamStops ==
    /\ upstream = "open" /\ upstream' \in {"ended", "failed"}
    /\ UNCHANGED <<kind, produced, copier, copied, wire, gone, logged>>

ClientLeaves ==
    /\ ~ gone /\ copier # "done"
    /\ gone' = TRUE
    /\ UNCHANGED <<kind, produced, upstream, copier, copied, wire, logged>>

\* copyBuffer: a read and a write.  What is written for a client that is gone
\* is lost.
Copy ==
    /\ copier = "copy" /\ copied < produced
    /\ copied' = copied + 1
    /\ wire' = IF gone THEN wire ELSE AfterWrite(Write(wire))
    /\ UNCHANGED <<kind, produced, upstream, copier, gone, logged>>

\* io.EOF: forwardTo returns without an error.
CopyEnds ==
    /\ copier = "copy" /\ copied = produced /\ upstream = "ended"
    /\ copier' = "finish" /\ logged' = "proxied"
    /\ UNCHANGED <<kind, produced, upstream, copied, wire, gone>>

\* Mutant of Recovered: the panic is not recovered.  net/http closes the
\* connection, and what it holds is lost.
Unrecovered == copier' = "done" /\ UNCHANGED logged

\* The deferred recover of forwardTo: the handler logs and returns.
Recovered == copier' = "finish" /\ logged' = "proxied_truncated"

\* A read or a write fails, and ReverseProxy panics with ErrAbortHandler.
CopyFails ==
    /\ copier = "copy"
    /\ (upstream = "failed" /\ copied = produced) \/ (gone /\ copied < produced)
    /\ Recovered
    /\ UNCHANGED <<kind, produced, upstream, copied, wire, gone>>

\* finishRequest flushes what is still held.
finishRequest ==
    /\ copier = "finish"
    /\ wire' = IF gone THEN wire ELSE Flushed(wire)
    /\ copier' = "done"
    /\ UNCHANGED <<kind, produced, upstream, copied, gone, logged>>

StreamOver == copier = "done" /\ UNCHANGED streamVars

Copier == Copy \/ CopyEnds \/ CopyFails \/ finishRequest

StreamNext == Copier \/ UpstreamSends \/ UpstreamStops \/ ClientLeaves \/ StreamOver

\* The handler runs on.  Nothing is assumed of the upstream, which may stay
\* silent.
StreamSpec == StreamInit /\ [][StreamNext]_streamVars /\ WF_streamVars(Copier)

----------------------------------------------------------------------------
(* Properties                                                              *)

\* A client that stays has, when the exchange is over, the status and every
\* unit the upstream sent before it ended or failed: what an abort finds in the
\* buffer is not thrown away with it.
HandedOver == copier = "done" /\ ~ gone => wire.shown /\ wire.got = produced

\* Once an upstream has ended or failed, a client that stays gets every unit,
\* however little of the buffer it fills, and the exchange is logged.
EndArrives ==
    \A n \in 0..MaxUnits :
        (produced >= n /\ upstream # "open") ~> ((wire.got >= n /\ logged # "none") \/ gone)

\* What the listener's comment says it leaves out WriteTimeout for, "legitimate
\* streamed responses (server-sent events, large vendor downloads)": what an
\* upstream sends reaches the client while the stream is open.
EventsArrive ==
    \A n \in 1..MaxUnits :
        (kind = "events" /\ produced >= n) ~> (wire.got >= n \/ gone)

=============================================================================
