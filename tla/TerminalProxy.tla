--------------------------- MODULE TerminalProxy ---------------------------
(***************************************************************************)
(* One WebSocket between a browser and a VM (internal/proxy/proxy.go, for  *)
(* the terminals, the shells and the VNC viewer): the handler dials the    *)
(* VM, upgrades the browser's connection, starts two copy loops, and       *)
(* returns when the first of them reports an error; returning closes both  *)
(* connections.  The loops are goroutines that outlive the handler until   *)
(* they notice.                                                            *)
(***************************************************************************)
EXTENDS Integers, Sequences

CONSTANTS
    Capacity,  \* of the channel the loops report to
    Window,    \* messages the network takes before the receiver reads
    MaxSent    \* bound on the messages each side sends

ASSUME BoundAssumption == Capacity \in Nat /\ Window \in Nat \ {0} /\ MaxSent \in Nat

Sides == {"client", "vm"}
Other(s) == IF s = "client" THEN "vm" ELSE "client"

VARIABLES
    handler,  \* where the handler is: gate, dial, upgrade, wait, returned
    conn,     \* [Sides -> the proxy's end of the connection: none, open, closed]
    peer,     \* [Sides -> the other end: up, gone]
    loop,     \* [Sides -> the loop that reads from this side]
    held,     \* [Sides -> the message that loop is about to write, if any]
    inbox,    \* [Sides -> messages from this side that the proxy has not read]
    outbox,   \* [Sides -> messages written to this side, not received]
    got,      \* [Sides -> messages received by this side]
    sent,     \* [Sides -> how many messages this side has sent]
    errc      \* errors in the channel

vars == <<handler, conn, peer, loop, held, inbox, outbox, got, sent, errc>>

Init ==
    /\ handler = "gate"
    /\ conn = [s \in Sides |-> "none"] /\ peer = [s \in Sides |-> "up"]
    /\ loop = [s \in Sides |-> "off"]
    /\ held = [s \in Sides |-> <<>>] /\ inbox = [s \in Sides |-> <<>>]
    /\ outbox = [s \in Sides |-> <<>>] /\ got = [s \in Sides |-> <<>>]
    /\ sent = [s \in Sides |-> 0] /\ errc = 0

-----------------------------------------------------------------------------
(* The handler *)

\* Returning runs the deferred calls: connections that were made are closed.
Return ==
    /\ handler' = "returned"
    /\ conn' = [s \in Sides |-> IF conn[s] = "open" THEN "closed" ELSE conn[s]]

\* proxyToVM: a session of this user, ready, with a DNS name; or an error.
Gate ==
    /\ handler = "gate"
    /\ handler' \in {"dial", "returned"}
    /\ UNCHANGED <<conn, peer, loop, held, inbox, outbox, got, sent, errc>>

Dial ==
    /\ handler = "dial"
    /\ \/ peer["vm"] = "up" /\ handler' = "upgrade" /\ conn' = [conn EXCEPT !["vm"] = "open"]
       \/ Return  \* terminal not ready
    /\ UNCHANGED <<peer, loop, held, inbox, outbox, got, sent, errc>>

\* (seeded fault) the VM's connection is closed only once there is a browser's
UpgradeLeaks ==
    /\ handler = "upgrade"
    /\ \/ /\ peer["client"] = "up" /\ handler' = "wait"
          /\ conn' = [conn EXCEPT !["client"] = "open"]
          /\ loop' = [s \in Sides |-> "read"]
       \/ handler' = "returned" /\ UNCHANGED <<conn, loop>>
    /\ UNCHANGED <<peer, held, inbox, outbox, got, sent, errc>>

\* A foreign origin or a broken handshake ends it; otherwise the loops start.
Upgrade ==
    /\ handler = "upgrade"
    /\ \/ /\ peer["client"] = "up" /\ handler' = "wait"
          /\ conn' = [conn EXCEPT !["client"] = "open"]
          /\ loop' = [s \in Sides |-> "read"]
       \/ Return /\ UNCHANGED loop
    /\ UNCHANGED <<peer, held, inbox, outbox, got, sent, errc>>

\* <-errc, from the channel's buffer.
ReceiveError ==
    /\ handler = "wait" /\ errc > 0 /\ errc' = errc - 1
    /\ Return
    /\ UNCHANGED <<peer, loop, held, inbox, outbox, got, sent>>

-----------------------------------------------------------------------------
(* The copy loop that reads from side s *)

ReadMessage(s) ==
    /\ loop[s] = "read" /\ inbox[s] /= <<>>
    /\ loop' = [loop EXCEPT ![s] = "write"]
    /\ held' = [held EXCEPT ![s] = <<Head(inbox[s])>>]
    /\ inbox' = [inbox EXCEPT ![s] = Tail(@)]
    /\ UNCHANGED <<handler, conn, peer, outbox, got, sent, errc>>

\* The connection was closed here, or there and everything has been read.
ReadFails(s) ==
    /\ loop[s] = "read"
    /\ conn[s] = "closed" \/ (peer[s] = "gone" /\ inbox[s] = <<>>)
    /\ loop' = [loop EXCEPT ![s] = "report"]
    /\ UNCHANGED <<handler, conn, peer, held, inbox, outbox, got, sent, errc>>

\* (seeded fault) the message is written again after a partial write
WriteTwice(s) ==
    /\ loop[s] = "write" /\ conn[Other(s)] = "open" /\ Len(outbox[Other(s)]) < Window
    /\ outbox' = [outbox EXCEPT ![Other(s)] = @ \o held[s]]
    /\ \/ held' = [held EXCEPT ![s] = <<>>] /\ loop' = [loop EXCEPT ![s] = "read"]
       \/ UNCHANGED <<held, loop>>
    /\ UNCHANGED <<handler, conn, peer, inbox, got, sent, errc>>

\* WriteMessage waits while the receiver does not take more.
WriteMessage(s) ==
    /\ loop[s] = "write" /\ conn[Other(s)] = "open" /\ Len(outbox[Other(s)]) < Window
    /\ outbox' = [outbox EXCEPT ![Other(s)] = @ \o held[s]]
    /\ held' = [held EXCEPT ![s] = <<>>] /\ loop' = [loop EXCEPT ![s] = "read"]
    /\ UNCHANGED <<handler, conn, peer, inbox, got, sent, errc>>

WriteFails(s) ==
    /\ loop[s] = "write"
    /\ conn[Other(s)] = "closed" \/ peer[Other(s)] = "gone"
    /\ loop' = [loop EXCEPT ![s] = "report"] /\ held' = [held EXCEPT ![s] = <<>>]
    /\ UNCHANGED <<handler, conn, peer, inbox, outbox, got, sent, errc>>

\* (seeded fault) a channel without a buffer: the handler has to take the error
ReportToHandler(s) ==
    /\ loop[s] = "report" /\ handler = "wait"
    /\ loop' = [loop EXCEPT ![s] = "done"]
    /\ Return
    /\ UNCHANGED <<peer, held, inbox, outbox, got, sent, errc>>

\* errc <- err waits while the buffer is full.
Report(s) ==
    /\ loop[s] = "report" /\ errc < Capacity /\ errc' = errc + 1
    /\ loop' = [loop EXCEPT ![s] = "done"]
    /\ UNCHANGED <<handler, conn, peer, held, inbox, outbox, got, sent>>

Loop(s) == ReadMessage(s) \/ ReadFails(s) \/ WriteMessage(s) \/ WriteFails(s) \/ Report(s)

-----------------------------------------------------------------------------
(* The browser and the VM *)

PeerSends(s) ==
    /\ peer[s] = "up" /\ conn[s] = "open" /\ sent[s] < MaxSent
    /\ sent' = [sent EXCEPT ![s] = @ + 1]
    /\ inbox' = [inbox EXCEPT ![s] = Append(@, sent'[s])]
    /\ UNCHANGED <<handler, conn, peer, loop, held, outbox, got, errc>>

PeerReceives(s) ==
    /\ peer[s] = "up" /\ outbox[s] /= <<>>
    /\ got' = [got EXCEPT ![s] = Append(@, Head(outbox[s]))]
    /\ outbox' = [outbox EXCEPT ![s] = Tail(@)]
    /\ UNCHANGED <<handler, conn, peer, loop, held, inbox, sent, errc>>

\* A tab is closed, a VM is shut down, a connection breaks.
PeerGoes(s) ==
    /\ peer[s] = "up" /\ peer' = [peer EXCEPT ![s] = "gone"]
    /\ UNCHANGED <<handler, conn, loop, held, inbox, outbox, got, sent, errc>>

-----------------------------------------------------------------------------

Handler == Gate \/ Dial \/ Upgrade \/ ReceiveError

Next ==
    \/ Handler
    \/ \E s \in Sides : Loop(s) \/ PeerSends(s) \/ PeerReceives(s) \/ PeerGoes(s)

Spec == Init /\ [][Next]_vars

\* Goroutines run, and a side that stays takes what it is sent.
FairSpec ==
    /\ Spec
    /\ WF_vars(Handler)
    /\ \A s \in Sides : WF_vars(Loop(s)) /\ WF_vars(PeerReceives(s))

-----------------------------------------------------------------------------
(* Properties *)

\* Each side receives what the other has sent, in order, without gaps and
\* without repetitions, up to the point where the connection ends; and until an
\* error ends a loop, no message is missing on the way through.
InOrder ==
    \A s \in Sides :
      /\ \A i \in 1..Len(got[s]) : got[s][i] = i
      /\ loop[s] \in {"read", "write"} =>
           got[Other(s)] \o outbox[Other(s)] \o held[s] \o inbox[s] = [i \in 1..sent[s] |-> i]

\* When the handler has returned, whichever way, no connection is left open.
ClosedOnReturn == handler = "returned" => \A s \in Sides : conn[s] /= "open"

\* A side that goes takes the other one with it, and both goroutines end: none
\* waits for ever on a message, on a full network or on the channel.
HangUp ==
    \A s \in Sides :
      peer[s] = "gone" /\ handler = "wait" ~>
        /\ handler = "returned"
        /\ \A q \in Sides : conn[q] /= "open" /\ loop[q] \in {"off", "done"}
=============================================================================
