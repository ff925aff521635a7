------------------------- MODULE EgressGuardProofs -------------------------
(***************************************************************************)
(* Proofs about EgressGuard for any set of requests, hosts and answers of  *)
(* the name server.                                                        *)
(***************************************************************************)
EXTENDS EgressGuard, TLAPS

USE HostsAssumption

\* What a name can be dialed at is an address.
LEMMA DialableType == Dialable \subseteq Address
  <1>1. ASSUME NEW ips \in Answers, NEW k \in 1..Len(ips)
        PROVE  ips[k] \in Address
    BY AnswersAssumption
  <1> QED
    BY <1>1 DEF Dialable

\* strings.ToLower returns a host.
LEMMA ToLowerType ==
    ASSUME NEW h \in Host
    PROVE  ToLower(h) \in Host
  BY DEF Host, ToLower

\* The placeholder of a slot not in use is a host.
LEMMA NoHostType == NoHost \in Host
  <1>1. "" \in Names \cup {""}
    OBVIOUS
  <1> QED
    BY <1>1 DEF NoHost, Host, Plain

\* An address that isPrivateOrLocal lets pass is public.
LEMMA PublicIfVetted ==
    ASSUME NEW ip \in Address, ~ isPrivateOrLocal(ip)
    PROVE  ip.range = "public"
  BY DEF Address, isPrivateOrLocal, StdLocal, ExtraReservedV4

\* A host that passes the self check differs from every name of the proxy in
\* more than case.
LEMMA PassesSelfCheck ==
    ASSUME NEW h \in Host, ToLower(h) \notin AutoSelfHostnames, NEW own \in OwnSpellings
    PROVE  ~ SameButCase(own, h)
  <1> SUFFICES ASSUME SameButCase(own, h) PROVE FALSE
    OBVIOUS
  <1>1. ToLower(own) \in AutoSelfHostnames
    BY DEF AutoSelfHostnames
  <1>2. ToLower(own) = ToLower(h)
    BY DEF ToLower, SameButCase
  <1> QED
    BY <1>1, <1>2

\* The state of the pool and of the dials keeps its types (TypeOK).
THEOREM TypeCorrect == Spec => []TypeOK
  <1>1. Init => TypeOK
    BY NoHostType DEF Init, TypeOK, Finished
  <1>2. TypeOK /\ [Next]_vars => TypeOK'
    <2> SUFFICES ASSUME TypeOK, [Next]_vars PROVE TypeOK'
      OBVIOUS
    <2> USE DEF TypeOK, Finished
    <2> DEFINE Peer == Address \cup {NoAddress}
    <2>0. NoAddress \in Peer /\ Address \subseteq Peer
      OBVIOUS
    <2>1. ASSUME NEW r \in Requests, NEW h \in Hosts, Start(r, h) PROVE TypeOK'
      BY <2>1, ToLowerType DEF Start
    <2>2. ASSUME NEW r \in Requests, NEW h \in Hosts, NEW c \in Requests, StartPooled(r, h, c)
          PROVE TypeOK'
      BY <2>2, ToLowerType DEF StartPooled
    <2>3. ASSUME NEW r \in Requests, NEW c \in Requests, TakeConn(r, c) PROVE TypeOK'
      BY <2>3 DEF TakeConn
    <2>4. ASSUME NEW r \in Requests, Finish(r) \/ Cancel(r) \/ CloseConn(r) PROVE TypeOK'
      <3>1. CASE Finish(r)
        BY <3>1 DEF Finish
      <3>2. CASE Cancel(r)
        BY <3>2 DEF Cancel
      <3>3. CASE CloseConn(r)
        BY <3>3 DEF CloseConn
      <3> QED
        BY <2>4, <3>1, <3>2, <3>3
    <2>5. ASSUME NEW r \in Requests, NEW o \in {"refused", "failed"}, DialError(r, o) PROVE TypeOK'
      <3>1. CASE req[r].st = "wait"
        <4>1. /\ dial' = [dial EXCEPT ![r].st = o]
              /\ req' = [req EXCEPT ![r].st = o]
              /\ UNCHANGED <<disabled, conn>>
          BY <2>5, <3>1 DEF DialError
        <4>2. dial' \in [Requests -> [st : {"none", "self_check", "lookup", "dial_ip", "dial_name",
                                           "connected", "refused", "failed"},
                                     host : Host, addr : Address \cup {NoAddress}]]
          BY <2>5, <4>1
        <4>3. req' \in [Requests -> [st : {"new", "wait", "using"} \cup Finished,
                                    host : Host, via : Requests]]
          BY <2>5, <4>1
        <4> QED
          BY <4>1, <4>2, <4>3
      <3>2. CASE req[r].st # "wait"
        BY <2>5, <3>2 DEF DialError
      <3> QED
        BY <3>1, <3>2
    <2>6. ASSUME NEW r \in Requests, SelfLoop(r) \/ LookupFails(r) \/ ConnectFails(r) PROVE TypeOK'
      BY <2>5, <2>6 DEF SelfLoop, LookupFails, ConnectFails
    <2>7. ASSUME NEW r \in Requests, NotSelf(r) PROVE TypeOK'
      BY <2>7 DEF NotSelf
    <2>8. ASSUME NEW r \in Requests, NEW ips \in Answers, LookupReturns(r, ips) PROVE TypeOK'
      <3>1. ips # <<>>
        BY <2>8 DEF LookupReturns
      <3>2. DialAddr(ips) \in Address
        <4>1. ips \in Seq(Address)
          BY AnswersAssumption
        <4> QED
          BY <3>1, <4>1 DEF DialAddr
      <3>3. CASE Vetted(ips)
        <4>1. /\ dial' = [dial EXCEPT ![r] = [st |-> "dial_ip", host |-> dial[r].host,
                                               addr |-> DialAddr(ips)]]
              /\ UNCHANGED <<disabled, req, conn>>
          BY <2>8, <3>3 DEF LookupReturns
        <4> QED
          BY <3>2, <4>1
      <3>4. CASE ~ Vetted(ips)
        BY <2>5, <2>8, <3>4 DEF LookupReturns
      <3> QED
        BY <3>3, <3>4
    <2>9. ASSUME NEW r \in Requests, NEW ip \in Dialable, Connect(r, ip) PROVE TypeOK'
      BY <2>9, DialableType DEF Connect
    <2>10. CASE Idle \/ UNCHANGED vars
      BY <2>10 DEF Idle, vars
    <2> QED
      BY <2>1, <2>2, <2>3, <2>4, <2>6, <2>7, <2>8, <2>9, <2>10
      DEF Next, DialStep, TransportStep
  <1> QED
    BY <1>1, <1>2, PTL DEF Spec

----------------------------------------------------------------------------
(* The inductive invariant: what a dial under way has established, and     *)
(* what therefore holds of the connections.                                *)

IInv == DialVetted /\ VettedPeer /\ NeverSelf

\* Every step of the transport and of guardedDial preserves IInv.
LEMMA Inductive == TypeOK /\ IInv /\ [Next]_vars => IInv'
  <1> SUFFICES ASSUME TypeOK, IInv, [Next]_vars PROVE IInv'
    OBVIOUS
  <1> USE DEF TypeOK, Finished, IInv, DialVetted, VettedPeer, NeverSelf
  <1>1. ASSUME NEW r \in Requests, NEW h \in Hosts, Start(r, h) PROVE IInv'
    BY <1>1, ToLowerType DEF Start
  <1>2. ASSUME NEW r \in Requests, NEW h \in Hosts, NEW c \in Requests, StartPooled(r, h, c)
        PROVE IInv'
    BY <1>2, ToLowerType DEF StartPooled
  <1>3. ASSUME NEW r \in Requests, NEW c \in Requests, TakeConn(r, c) PROVE IInv'
    BY <1>3 DEF TakeConn
  <1>4. ASSUME NEW r \in Requests, Finish(r) \/ Cancel(r) \/ CloseConn(r) PROVE IInv'
    <2>1. CASE Finish(r)
      BY <2>1 DEF Finish
    <2>2. CASE Cancel(r)
      BY <2>2 DEF Cancel
    <2>3. CASE CloseConn(r)
      BY <2>3 DEF CloseConn
    <2> QED
      BY <1>4, <2>1, <2>2, <2>3
  <1>5. ASSUME NEW r \in Requests, NEW o \in {"refused", "failed"}, DialError(r, o)
        PROVE  IInv'
    <2>1. \A q \in Requests : /\ dial'[q].host = dial[q].host
                              /\ dial'[q].addr = dial[q].addr
                              /\ q # r => dial'[q] = dial[q]
                              /\ dial'[r].st = o
      BY <1>5 DEF DialError
    <2>2. UNCHANGED <<disabled, conn>>
      BY <1>5 DEF DialError
    <2> QED
      BY <2>1, <2>2
  <1>6. ASSUME NEW r \in Requests, SelfLoop(r) \/ LookupFails(r) \/ ConnectFails(r) PROVE IInv'
    BY <1>5, <1>6 DEF SelfLoop, LookupFails, ConnectFails
  <1>7. ASSUME NEW r \in Requests, NotSelf(r) PROVE IInv'
    <2>1. \A own \in OwnSpellings : ~ SameButCase(own, dial[r].host)
      BY <1>7, PassesSelfCheck DEF NotSelf
    <2> QED
      BY <1>7, <2>1 DEF NotSelf
  <1>8. ASSUME NEW r \in Requests, NEW ips \in Answers, LookupReturns(r, ips) PROVE IInv'
    <2>1. CASE Vetted(ips)
      <3>1. DialAddr(ips) \in Address /\ ~ isPrivateOrLocal(DialAddr(ips))
        BY <1>8, <2>1, AnswersAssumption DEF LookupReturns, Vetted, DialAddr
      <3>2. /\ dial[r].st = "lookup"
            /\ dial' = [dial EXCEPT ![r] = [st |-> "dial_ip", host |-> dial[r].host,
                                             addr |-> DialAddr(ips)]]
            /\ UNCHANGED <<disabled, req, conn>>
        BY <1>8, <2>1 DEF LookupReturns
      <3> QED
        BY <3>1, <3>2
    <2>2. CASE ~ Vetted(ips)
      BY <1>5, <1>8, <2>2 DEF LookupReturns
    <2> QED
      BY <2>1, <2>2
  <1>9. ASSUME NEW r \in Requests, NEW ip \in Dialable, Connect(r, ip) PROVE IInv'
    <2>1. \A own \in OwnSpellings : ~ SameButCase(own, dial[r].host)
      BY <1>9 DEF Connect
    <2>2. ~ disabled => ip.range = "public"
      BY <1>9, PublicIfVetted DEF Connect
    <2> QED
      BY <1>9, <2>1, <2>2 DEF Connect
  <1>10. CASE Idle \/ UNCHANGED vars
    BY <1>10 DEF Idle, vars
  <1> QED
    BY <1>1, <1>2, <1>3, <1>4, <1>6, <1>7, <1>8, <1>9, <1>10 DEF Next, DialStep, TransportStep

\* IInv holds from the start on.
LEMMA Invariance == Spec => []IInv
  <1>1. Init => IInv
    BY NoHostType
    DEF Init, IInv, DialVetted, VettedPeer, NeverSelf
  <1> QED
    BY <1>1, Inductive, TypeCorrect, PTL DEF Spec

\* With the guard on, the pool holds connections to public addresses only,
\* whatever the name server answers and however dials interleave (VettedPeer).
THEOREM PoolIsVetted == Spec => []VettedPeer
  <1>1. IInv => VettedPeer
    BY DEF IInv
  <1> QED
    BY <1>1, Invariance, PTL

\* The pool holds no connection made under a name of the proxy itself, in
\* whatever case that name or the client's host was written (NeverSelf).
THEOREM PoolAvoidsSelf == Spec => []NeverSelf
  <1>1. IInv => NeverSelf
    BY DEF IInv
  <1> QED
    BY <1>1, Invariance, PTL

=============================================================================
