------------------------ MODULE TerminalProxyProofs ------------------------
(***************************************************************************)
(* The proxy passes messages on in order and leaves no connection open, for *)
(* any network window, any number of messages and any capacity of the      *)
(* channel.  The invariant follows each message by its number: what a side *)
(* has received, what is on the way to it, what the loop holds and what it *)
(* has not read are consecutive runs of the numbers the other side used.   *)
(***************************************************************************)
EXTENDS TerminalProxy, TLAPS

Types ==
    /\ got \in [Sides -> Seq(Nat)] /\ outbox \in [Sides -> Seq(Nat)]
    /\ held \in [Sides -> Seq(Nat)] /\ inbox \in [Sides -> Seq(Nat)] /\ sent \in [Sides -> Nat]
    /\ loop \in [Sides -> {"off", "read", "write", "report", "done"}]

\* The numbers after k, one after the other.
RunAfter(seq, k) == \A i \in 1..Len(seq) : seq[i] = k + i

\* What was received, is on its way, is held and is unread: the numbers up to n.
Chain(g, o, h, m, n) ==
    /\ RunAfter(g, 0) /\ RunAfter(o, Len(g)) /\ RunAfter(h, Len(g) + Len(o))
    /\ RunAfter(m, Len(g) + Len(o) + Len(h))
    /\ Len(g) + Len(o) + Len(h) + Len(m) = n

\* Delivery from s to the other side.
Delivery(s) ==
    /\ RunAfter(got[Other(s)], 0) /\ RunAfter(outbox[Other(s)], Len(got[Other(s)]))
    /\ Len(held[s]) = IF loop[s] = "write" THEN 1 ELSE 0
    /\ loop[s] \in {"off", "read", "write"} =>
         Chain(got[Other(s)], outbox[Other(s)], held[s], inbox[s], sent[s])

\* What is open at each point of the handler.
Connections ==
    /\ conn \in [Sides -> {"none", "open", "closed"}]
    /\ handler \in {"gate", "dial"} => \A s \in Sides : conn[s] = "none"
    /\ handler \in {"gate", "dial", "upgrade"} => \A s \in Sides : loop[s] = "off"

Inv == Types /\ Connections /\ ClosedOnReturn /\ \A s \in Sides : Delivery(s)

-----------------------------------------------------------------------------
(* Sequences of consecutive numbers *)

\* A run and the run after it make one.
LEMMA RunsJoin ==
    ASSUME NEW p \in Seq(Nat), NEW q \in Seq(Nat), NEW k \in Nat,
           RunAfter(p, k), RunAfter(q, k + Len(p))
    PROVE  /\ p \o q \in Seq(Nat) /\ Len(p \o q) = Len(p) + Len(q) /\ RunAfter(p \o q, k)
<1>1. /\ p \o q \in Seq(Nat) /\ Len(p \o q) = Len(p) + Len(q) /\ Len(p) \in Nat /\ Len(q) \in Nat
      /\ \A i \in 1..(Len(p) + Len(q)) : (p \o q)[i] = IF i <= Len(p) THEN p[i] ELSE q[i - Len(p)]
  OBVIOUS
<1>2. ASSUME NEW i \in 1..(Len(p) + Len(q)) PROVE (p \o q)[i] = k + i
  <2>1. CASE i <= Len(p)
    BY <1>1, <2>1 DEF RunAfter
  <2>2. CASE ~(i <= Len(p))
    <3>1. i - Len(p) \in 1..Len(q) /\ (p \o q)[i] = q[i - Len(p)]
      BY <1>1, <2>2
    <3> QED
      BY <1>1, <3>1 DEF RunAfter
  <2> QED
    BY <2>1, <2>2
<1> QED
  BY <1>1, <1>2 DEF RunAfter

\* A run without its first element is the run after that.
LEMMA RunTail ==
    ASSUME NEW p \in Seq(Nat), NEW k \in Nat, RunAfter(p, k), p /= <<>>
    PROVE  /\ Head(p) = k + 1 /\ Tail(p) \in Seq(Nat) /\ Len(Tail(p)) = Len(p) - 1
           /\ Len(p) \in Nat /\ Len(p) >= 1 /\ RunAfter(Tail(p), k + 1)
<1>1. /\ Tail(p) \in Seq(Nat) /\ Len(Tail(p)) = Len(p) - 1 /\ Len(p) \in Nat /\ Len(p) >= 1
      /\ Head(p) = p[1] /\ \A i \in 1..(Len(p) - 1) : Tail(p)[i] = p[i + 1]
  OBVIOUS
<1> QED
  BY <1>1 DEF RunAfter

\* A run goes on with the next number.
LEMMA RunAppend ==
    ASSUME NEW p \in Seq(Nat), NEW k \in Nat, RunAfter(p, k), NEW n \in Nat, n = k + Len(p) + 1
    PROVE  Append(p, n) \in Seq(Nat) /\ Len(Append(p, n)) = Len(p) + 1 /\ RunAfter(Append(p, n), k)
<1>1. /\ Append(p, n) \in Seq(Nat) /\ Len(Append(p, n)) = Len(p) + 1 /\ Len(p) \in Nat
      /\ Append(p, n)[Len(p) + 1] = n /\ \A i \in 1..Len(p) : Append(p, n)[i] = p[i]
  OBVIOUS
<1> QED
  BY <1>1 DEF RunAfter

\* Lengths are natural numbers, and the empty sequence is a run.
LEMMA Lengths ==
    /\ \A p \in Seq(Nat) : Len(p) \in Nat /\ (Len(p) = 0 => p = <<>>)
    /\ <<>> \in Seq(Nat) /\ Len(<<>>) = 0 /\ \A k \in Nat : RunAfter(<<>>, k)
  BY DEF RunAfter

\* The loop takes the first unread message.
LEMMA ChainRead ==
    ASSUME NEW g \in Seq(Nat), NEW o \in Seq(Nat), NEW h \in Seq(Nat), NEW m \in Seq(Nat), NEW n \in Nat,
           Chain(g, o, h, m, n), Len(h) = 0, m /= <<>>
    PROVE  /\ <<Head(m)>> \in Seq(Nat) /\ Len(<<Head(m)>>) = 1 /\ Tail(m) \in Seq(Nat)
           /\ Chain(g, o, <<Head(m)>>, Tail(m), n)
<1>1. PICK k \in Nat : k = Len(g) + Len(o)
  BY Lengths
<1>2. /\ RunAfter(g, 0) /\ RunAfter(o, Len(g)) /\ RunAfter(m, k) /\ k + Len(m) = n /\ Len(m) \in Nat
  BY <1>1, Lengths DEF Chain
<1>3. /\ Head(m) = k + 1 /\ Tail(m) \in Seq(Nat) /\ Len(Tail(m)) = Len(m) - 1 /\ RunAfter(Tail(m), k + 1)
  BY <1>2, RunTail
<1>4. PICK f \in Nat : f = Head(m)
  BY <1>3
<1>5. <<f>> \in Seq(Nat) /\ Len(<<f>>) = 1 /\ <<f>>[1] = f
  OBVIOUS
<1>6. RunAfter(<<f>>, k)
  BY <1>3, <1>4, <1>5 DEF RunAfter
<1>7. k + 1 + Len(Tail(m)) = n
  <2>1. PICK l \in Nat : l = Len(m)
    BY <1>2
  <2>2. PICK j \in Nat : j = Len(Tail(m))
    BY <1>3, Lengths
  <2>3. k + l = n /\ j = l - 1
    BY <1>2, <1>3, <2>1, <2>2
  <2>4. k + 1 + j = n
    BY <2>3
  <2> QED
    BY <2>2, <2>4
<1>8. k + Len(<<f>>) = k + 1 /\ k + Len(<<f>>) + Len(Tail(m)) = n
  BY <1>5, <1>7
<1> QED
  BY <1>1, <1>2, <1>3, <1>4, <1>5, <1>6, <1>8 DEF Chain

\* The message held is written.
LEMMA ChainWrite ==
    ASSUME NEW g \in Seq(Nat), NEW o \in Seq(Nat), NEW h \in Seq(Nat), NEW m \in Seq(Nat), NEW n \in Nat,
           Chain(g, o, h, m, n)
    PROVE  o \o h \in Seq(Nat) /\ RunAfter(o \o h, Len(g)) /\ Chain(g, o \o h, <<>>, m, n)
<1>1. /\ Len(g) \in Nat /\ Len(o) \in Nat /\ Len(h) \in Nat /\ Len(m) \in Nat /\ Len(<<>>) = 0
  BY Lengths
<1>2. /\ o \o h \in Seq(Nat) /\ Len(o \o h) = Len(o) + Len(h) /\ RunAfter(o \o h, Len(g))
  BY <1>1, RunsJoin DEF Chain
<1>3. /\ Len(g) + Len(o \o h) \in Nat
      /\ Len(g) + Len(o \o h) + Len(<<>>) = Len(g) + Len(o) + Len(h)
  BY <1>1, <1>2
<1>4. RunAfter(<<>>, Len(g) + Len(o \o h))
  BY <1>3, Lengths
<1> QED
  BY <1>2, <1>3, <1>4 DEF Chain

\* One more message is sent.
LEMMA ChainSend ==
    ASSUME NEW g \in Seq(Nat), NEW o \in Seq(Nat), NEW h \in Seq(Nat), NEW m \in Seq(Nat), NEW n \in Nat,
           Chain(g, o, h, m, n)
    PROVE  Chain(g, o, h, Append(m, n + 1), n + 1)
<1>1. PICK k \in Nat : k = Len(g) + Len(o) + Len(h)
  BY Lengths
<1>2. Len(m) \in Nat /\ RunAfter(m, k) /\ k + Len(m) = n
  BY <1>1, Lengths DEF Chain
<1>3. n + 1 \in Nat /\ n + 1 = k + Len(m) + 1
  BY <1>2
<1>4. Len(Append(m, n + 1)) = Len(m) + 1 /\ RunAfter(Append(m, n + 1), k)
  BY <1>2, <1>3, RunAppend
<1>5. k + Len(Append(m, n + 1)) = n + 1
  BY <1>1, <1>2, <1>4
<1> QED
  BY <1>1, <1>4, <1>5 DEF Chain

\* The first message on its way is received.
LEMMA RunsReceive ==
    ASSUME NEW g \in Seq(Nat), NEW o \in Seq(Nat), RunAfter(g, 0), RunAfter(o, Len(g)), o /= <<>>
    PROVE  /\ Append(g, Head(o)) \in Seq(Nat) /\ Tail(o) \in Seq(Nat)
           /\ RunAfter(Append(g, Head(o)), 0) /\ RunAfter(Tail(o), Len(Append(g, Head(o))))
           /\ Len(Append(g, Head(o))) + Len(Tail(o)) = Len(g) + Len(o)
<1>1. Len(g) \in Nat /\ Len(o) \in Nat
  BY Lengths
<1>2. /\ Head(o) = Len(g) + 1 /\ Tail(o) \in Seq(Nat) /\ Len(Tail(o)) = Len(o) - 1
      /\ RunAfter(Tail(o), Len(g) + 1)
  BY <1>1, RunTail
<1>3. PICK f \in Nat : f = Head(o)
  BY <1>1, <1>2
<1>4. f = 0 + Len(g) + 1
  BY <1>1, <1>2, <1>3
<1>5. Append(g, f) \in Seq(Nat) /\ Len(Append(g, f)) = Len(g) + 1 /\ RunAfter(Append(g, f), 0)
  BY <1>4, RunAppend
<1>6. Len(Append(g, f)) + Len(Tail(o)) = Len(g) + Len(o)
  BY <1>1, <1>2, <1>5
<1> QED
  BY <1>2, <1>3, <1>5, <1>6

\* The other side's other side.
LEMMA Sided == \A s \in Sides : Other(s) \in Sides /\ Other(Other(s)) = s /\ Other(s) /= s
  BY DEF Sides, Other

-----------------------------------------------------------------------------
(* Steps *)

\* The handler and the loops' ends leave the messages alone.
LEMMA HandlerStep ==
    ASSUME Inv, Handler \/ \E s \in Sides : ReadFails(s) \/ Report(s) \/ PeerGoes(s)
    PROVE  Inv'
<1>1. /\ UNCHANGED <<got, outbox, held, inbox, sent>>
      /\ conn \in [Sides -> {"none", "open", "closed"}]
      /\ loop \in [Sides -> {"off", "read", "write", "report", "done"}]
  BY DEF Handler, Gate, Dial, Upgrade, ReceiveError, ReadFails, Report, PeerGoes, Inv, Types, Connections
<1>2. /\ loop' \in [Sides -> {"off", "read", "write", "report", "done"}]
      /\ \A s \in Sides : /\ loop'[s] = "write" <=> loop[s] = "write"
                          /\ loop'[s] \in {"off", "read", "write"} => loop[s] \in {"off", "read", "write"}
  <2>1. CASE loop' = loop
    BY <1>1, <2>1
  <2>2. CASE Upgrade
    BY <1>1, <2>2 DEF Upgrade, Inv, Connections
  <2>3. CASE \E s \in Sides : ReadFails(s) \/ Report(s)
    BY <1>1, <2>3 DEF ReadFails, Report
  <2> QED
    BY <2>1, <2>2, <2>3 DEF Handler, Gate, Dial, ReceiveError, PeerGoes
<1>3. Types' /\ \A s \in Sides : Delivery(s)'
  BY <1>1, <1>2 DEF Inv, Types, Delivery
<1>4. Connections' /\ ClosedOnReturn'
  <2>1. CASE Gate
    BY <1>1, <2>1 DEF Gate, Inv, Connections, ClosedOnReturn
  <2>2. CASE Dial
    BY <1>1, <2>2 DEF Dial, Return, Inv, Connections, ClosedOnReturn
  <2>3. CASE Upgrade
    BY <1>1, <2>3 DEF Upgrade, Return, Inv, Connections, ClosedOnReturn
  <2>4. CASE ReceiveError
    BY <1>1, <2>4 DEF ReceiveError, Return, Inv, Connections, ClosedOnReturn
  <2>5. CASE \E s \in Sides : ReadFails(s) \/ Report(s) \/ PeerGoes(s)
    BY <1>1, <2>5 DEF ReadFails, Report, PeerGoes, Inv, Connections, ClosedOnReturn
  <2> QED
    BY <2>1, <2>2, <2>3, <2>4, <2>5 DEF Handler
<1> QED
  BY <1>3, <1>4 DEF Inv

\* The messages move by one place, from s to the other side.
LEMMA MessageStep ==
    ASSUME Inv, NEW s \in Sides,
           \/ ReadMessage(s) \/ WriteMessage(s) \/ WriteFails(s)
           \/ PeerSends(s) \/ PeerReceives(Other(s))
    PROVE  Inv'
<1> DEFINE t == Other(s)
<1>1. /\ s \in Sides /\ t \in Sides /\ Delivery(s)
      /\ got \in [Sides -> Seq(Nat)] /\ outbox \in [Sides -> Seq(Nat)]
      /\ held \in [Sides -> Seq(Nat)] /\ inbox \in [Sides -> Seq(Nat)] /\ sent \in [Sides -> Nat]
      /\ loop \in [Sides -> {"off", "read", "write", "report", "done"}]
  BY Sided DEF Inv, Types
<1>2. /\ got[t] \in Seq(Nat) /\ outbox[t] \in Seq(Nat) /\ held[s] \in Seq(Nat) /\ inbox[s] \in Seq(Nat)
      /\ sent[s] \in Nat /\ RunAfter(got[t], 0) /\ RunAfter(outbox[t], Len(got[t]))
      /\ Len(held[s]) = (IF loop[s] = "write" THEN 1 ELSE 0)
      /\ loop[s] \in {"off", "read", "write"} => Chain(got[t], outbox[t], held[s], inbox[s], sent[s])
  BY <1>1 DEF Delivery
<1>3. UNCHANGED <<handler, conn>>
  BY DEF ReadMessage, WriteMessage, WriteFails, PeerSends, PeerReceives
<1>4. Types' /\ Delivery(s)'
  <2>0. SUFFICES /\ Types' /\ RunAfter(got'[t], 0) /\ RunAfter(outbox'[t], Len(got'[t]))
                 /\ Len(held'[s]) = (IF loop'[s] = "write" THEN 1 ELSE 0)
                 /\ loop'[s] \in {"off", "read", "write"} =>
                      Chain(got'[t], outbox'[t], held'[s], inbox'[s], sent'[s])
    BY DEF Delivery
  <2> HIDE DEF t
  <2>1. CASE ReadMessage(s)
    <3>1. /\ loop[s] = "read" /\ inbox[s] /= <<>> /\ loop'[s] = "write" /\ held'[s] = <<Head(inbox[s])>>
          /\ inbox'[s] = Tail(inbox[s]) /\ UNCHANGED <<got, outbox, sent>>
      BY <1>1, <2>1 DEF ReadMessage
    <3>2. Chain(got[t], outbox[t], held[s], inbox[s], sent[s]) /\ Len(held[s]) = 0
      BY <1>2, <3>1
    <3>3. /\ <<Head(inbox[s])>> \in Seq(Nat) /\ Len(<<Head(inbox[s])>>) = 1 /\ Tail(inbox[s]) \in Seq(Nat)
          /\ Chain(got[t], outbox[t], <<Head(inbox[s])>>, Tail(inbox[s]), sent[s])
      BY <1>2, <3>1, <3>2, ChainRead
    <3>4. Types'
      BY <1>1, <2>1, <3>3 DEF ReadMessage, Types
    <3> QED
      BY <1>2, <3>1, <3>3, <3>4
  <2>2. CASE WriteMessage(s)
    <3>1. /\ loop[s] = "write" /\ loop'[s] = "read" /\ outbox'[t] = outbox[t] \o held[s] /\ held'[s] = <<>>
          /\ UNCHANGED <<got, inbox, sent>>
      BY <1>1, <2>2 DEF WriteMessage, t
    <3>2. /\ outbox[t] \o held[s] \in Seq(Nat) /\ RunAfter(outbox[t] \o held[s], Len(got[t]))
          /\ Chain(got[t], outbox[t] \o held[s], <<>>, inbox[s], sent[s])
      BY <1>2, <3>1, ChainWrite
    <3>3. Types'
      BY <1>1, <2>2, <3>2, Lengths DEF WriteMessage, Types, t
    <3>4. Len(held'[s]) = 0 /\ loop'[s] /= "write"
      BY <3>1, Lengths
    <3> QED
      BY <1>2, <3>1, <3>2, <3>3, <3>4
  <2>3. CASE WriteFails(s)
    <3>1. /\ loop'[s] = "report" /\ held'[s] = <<>> /\ UNCHANGED <<got, outbox, inbox, sent>>
      BY <1>1, <2>3 DEF WriteFails
    <3>2. Types'
      BY <1>1, <2>3, Lengths DEF WriteFails, Types
    <3> QED
      BY <1>2, <3>1, <3>2, Lengths
  <2>4. CASE PeerSends(s)
    <3>1. /\ sent'[s] = sent[s] + 1 /\ inbox'[s] = Append(inbox[s], sent[s] + 1)
          /\ UNCHANGED <<got, outbox, held, loop>>
      BY <1>1, <2>4 DEF PeerSends
    <3>2. Types'
      <4>1. /\ sent' = [sent EXCEPT ![s] = sent[s] + 1]
            /\ inbox' = [inbox EXCEPT ![s] = Append(inbox[s], sent[s] + 1)]
        BY <1>1, <2>4, <3>1 DEF PeerSends, Types
      <4>2. sent[s] + 1 \in Nat /\ Append(inbox[s], sent[s] + 1) \in Seq(Nat)
        BY <1>1 DEF Types
      <4> QED
        BY <1>1, <3>1, <4>1, <4>2 DEF Types
    <3>3. ASSUME loop[s] \in {"off", "read", "write"}
          PROVE  Chain(got[t], outbox[t], held[s], Append(inbox[s], sent[s] + 1), sent[s] + 1)
      BY <1>2, <3>3, ChainSend
    <3> QED
      BY <1>2, <3>1, <3>2, <3>3
  <2>5. CASE PeerReceives(t)
    <3>1. /\ outbox[t] /= <<>> /\ got'[t] = Append(got[t], Head(outbox[t])) /\ outbox'[t] = Tail(outbox[t])
          /\ UNCHANGED <<held, inbox, loop, sent>>
      BY <1>1, <2>5 DEF PeerReceives
    <3>2. /\ got'[t] \in Seq(Nat) /\ outbox'[t] \in Seq(Nat)
          /\ RunAfter(got'[t], 0) /\ RunAfter(outbox'[t], Len(got'[t]))
          /\ Len(got'[t]) + Len(outbox'[t]) = Len(got[t]) + Len(outbox[t])
      BY <1>2, <3>1, RunsReceive
    <3>3. Types'
      BY <1>1, <2>5, <3>1, <3>2 DEF PeerReceives, Types
    <3>4. Chain(got[t], outbox[t], held[s], inbox[s], sent[s]) => Chain(got'[t], outbox'[t], held[s], inbox[s], sent[s])
      BY <3>2 DEF Chain
    <3> QED
      BY <1>2, <3>1, <3>2, <3>3, <3>4
  <2> QED
    BY <2>1, <2>2, <2>3, <2>4, <2>5 DEF t
<1>5. Delivery(t)'
  <2>1. Delivery(t) /\ Other(t) = s /\ t /= s
    BY <1>1, Sided DEF Inv, t
  <2>2. /\ loop'[t] = loop[t] /\ held'[t] = held[t] /\ inbox'[t] = inbox[t] /\ sent'[t] = sent[t]
        /\ outbox'[s] = outbox[s] /\ got'[s] = got[s]
    BY <1>1, <2>1 DEF ReadMessage, WriteMessage, WriteFails, PeerSends, PeerReceives, t
  <2> QED
    BY <2>1, <2>2 DEF Delivery
<1>6. Connections' /\ ClosedOnReturn'
  <2>1. \A u \in Sides : loop[u] = "off" => loop'[u] = "off"
    BY <1>1 DEF ReadMessage, WriteMessage, WriteFails, PeerSends, PeerReceives
  <2> QED
    BY <1>3, <2>1 DEF Inv, Connections, ClosedOnReturn
<1> QED
  BY <1>4, <1>5, <1>6 DEF Inv, Sides, Other, t

-----------------------------------------------------------------------------
(* The invariant *)

\* Nothing has been sent and nothing is open.
LEMMA InitInv == Init => Inv
<1> SUFFICES ASSUME Init PROVE Inv
  OBVIOUS
<1>1. Types /\ Connections /\ ClosedOnReturn
  BY Lengths DEF Init, Types, Connections, ClosedOnReturn
<1>2. ASSUME NEW s \in Sides PROVE Delivery(s)
  <2>1. /\ got[Other(s)] = <<>> /\ outbox[Other(s)] = <<>> /\ held[s] = <<>> /\ inbox[s] = <<>>
        /\ sent[s] = 0 /\ loop[s] = "off"
    BY Sided DEF Init
  <2>2. Chain(<<>>, <<>>, <<>>, <<>>, 0) /\ RunAfter(<<>>, 0) /\ Len(<<>>) = 0
    BY Lengths DEF Chain
  <2> QED
    BY <2>1, <2>2 DEF Delivery
<1> QED
  BY <1>1, <1>2 DEF Inv

\* Every step keeps the invariant.
LEMMA StepInv == Inv /\ [Next]_vars => Inv'
<1> SUFFICES ASSUME Inv, [Next]_vars PROVE Inv'
  OBVIOUS
<1>1. CASE Handler \/ \E s \in Sides : ReadFails(s) \/ Report(s) \/ PeerGoes(s)
  BY <1>1, HandlerStep
<1>2. ASSUME NEW s \in Sides, ReadMessage(s) \/ WriteMessage(s) \/ WriteFails(s) \/ PeerSends(s) PROVE Inv'
  BY <1>2, MessageStep
<1>3. ASSUME NEW s \in Sides, PeerReceives(s) PROVE Inv'
  <2>1. Other(s) \in Sides /\ PeerReceives(Other(Other(s)))
    BY <1>3, Sided
  <2> QED
    BY <2>1, MessageStep
<1>4. CASE UNCHANGED vars
  BY <1>4 DEF vars, Inv, Types, Connections, ClosedOnReturn, Delivery
<1> QED
  BY <1>1, <1>2, <1>3, <1>4 DEF Next, Loop

\* The invariant holds throughout.
LEMMA Invariance == Spec => []Inv
<1> QED
  BY InitInv, StepInv, PTL DEF Spec

\* However the proxy's handler returns (refused, no VM, no upgrade, an error in
\* either loop), no connection is left open.
THEOREM Closed == Spec => []ClosedOnReturn
<1>1. Inv => ClosedOnReturn
  BY DEF Inv
<1> QED
  BY <1>1, Invariance, PTL

\* A sequence that is a run from the start is the function of its numbers.
LEMMA RunIsIdentity ==
    ASSUME NEW p \in Seq(Nat), RunAfter(p, 0)
    PROVE  p = [i \in 1..Len(p) |-> i]
<1>1. Len(p) \in Nat /\ p = [i \in 1..Len(p) |-> p[i]]
  OBVIOUS
<1>2. \A i \in 1..Len(p) : p[i] = i
  BY <1>1 DEF RunAfter
<1> QED
  BY <1>1, <1>2

\* The four parts of a chain make up what was sent.
LEMMA ChainIsAll ==
    ASSUME NEW g \in Seq(Nat), NEW o \in Seq(Nat), NEW h \in Seq(Nat), NEW m \in Seq(Nat), NEW n \in Nat,
           Chain(g, o, h, m, n)
    PROVE  g \o o \o h \o m = [i \in 1..n |-> i]
<1>1. Len(g) \in Nat /\ Len(o) \in Nat /\ Len(h) \in Nat /\ Len(m) \in Nat
  BY Lengths
<1>2. /\ RunAfter(g, 0) /\ RunAfter(o, 0 + Len(g)) /\ RunAfter(h, 0 + (Len(g) + Len(o)))
      /\ RunAfter(m, 0 + (Len(g) + Len(o) + Len(h))) /\ Len(g) + Len(o) + Len(h) + Len(m) = n
  BY <1>1 DEF Chain
<1>3. g \o o \in Seq(Nat) /\ Len(g \o o) = Len(g) + Len(o) /\ RunAfter(g \o o, 0)
  BY <1>1, <1>2, RunsJoin
<1> DEFINE p == g \o o
           q == p \o h
           all == q \o m
<1> HIDE DEF p, q, all
<1>4. q \in Seq(Nat) /\ Len(q) = Len(p) + Len(h) /\ RunAfter(q, 0)
  <2>1. p \in Seq(Nat) /\ RunAfter(p, 0) /\ RunAfter(h, 0 + Len(p))
    BY <1>2, <1>3 DEF p
  <2> QED
    BY <2>1, RunsJoin DEF q
<1>5. Len(p) = Len(g) + Len(o)
  BY <1>3 DEF p
<1>6. all \in Seq(Nat) /\ Len(all) = Len(q) + Len(m) /\ RunAfter(all, 0)
  <2>1. RunAfter(m, 0 + Len(q))
    BY <1>2, <1>4, <1>5
  <2> QED
    BY <1>4, <2>1, RunsJoin DEF all
<1>7. Len(all) = n
  BY <1>2, <1>4, <1>5, <1>6
<1>8. all = [i \in 1..n |-> i]
  BY <1>6, <1>7, RunIsIdentity
<1> QED
  BY <1>8 DEF all, q, p

\* Whatever the window and the number of messages, each side receives the
\* other's messages in order, none twice and none left out, and while the loop
\* runs every message sent is somewhere on the way.
THEOREM Ordered == Spec => []InOrder
<1>1. ASSUME Inv, NEW s \in Sides
      PROVE  /\ \A i \in 1..Len(got[s]) : got[s][i] = i
             /\ loop[s] \in {"read", "write"} =>
                  got[Other(s)] \o outbox[Other(s)] \o held[s] \o inbox[s] = [i \in 1..sent[s] |-> i]
  <2>1. /\ Other(s) \in Sides /\ Other(Other(s)) = s /\ Delivery(s) /\ Delivery(Other(s))
        /\ got \in [Sides -> Seq(Nat)] /\ outbox \in [Sides -> Seq(Nat)]
        /\ held \in [Sides -> Seq(Nat)] /\ inbox \in [Sides -> Seq(Nat)] /\ sent \in [Sides -> Nat]
    BY <1>1, Sided DEF Inv, Types
  <2>2. RunAfter(got[s], 0) /\ got[s] \in Seq(Nat) /\ Len(got[s]) \in Nat
    BY <2>1, Lengths DEF Delivery
  <2>3. \A i \in 1..Len(got[s]) : got[s][i] = i
    BY <2>2 DEF RunAfter
  <2>4. ASSUME loop[s] \in {"read", "write"}
        PROVE  got[Other(s)] \o outbox[Other(s)] \o held[s] \o inbox[s] = [i \in 1..sent[s] |-> i]
    <3>1. Chain(got[Other(s)], outbox[Other(s)], held[s], inbox[s], sent[s])
      BY <2>1, <2>4 DEF Delivery
    <3> QED
      BY <2>1, <3>1, ChainIsAll
  <2> QED
    BY <2>3, <2>4
<1>2. Inv => InOrder
  BY <1>1 DEF InOrder
<1> QED
  BY <1>2, Invariance, PTL
=============================================================================
