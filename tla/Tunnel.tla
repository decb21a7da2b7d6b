-------------------------------- MODULE Tunnel --------------------------------
(***************************************************************************)
(* One client connection: a WebSocket tied to a TCP connection, and what   *)
(* the user is billed for it.                                              *)
(*                                                                         *)
(* Two workers run this: the edge (vless.ts and index.ts) and the endpoint *)
(* worker that the panel generates and publishes (endpoint-script.ts, "a   *)
(* mirror" of the first).  They differ in when they close and bill.  The   *)
(* client's messages are the chunks 1, 2, ...; the first carries the       *)
(* header and may carry payload.  Events reach the worker one by one, in   *)
(* order, whenever it awaits.                                              *)
(***************************************************************************)
EXTENDS Naturals, Sequences

CONSTANTS
    MaxUp,   \* bound on the chunks the client sends
    MaxDown  \* bound on the chunks the destination sends

(* Assumed where they get their values. *)
ConstantsAssumption == MaxUp \in Nat /\ MaxDown \in Nat

VARIABLES
    kind,       \* which worker this is: "edge" or "endpoint"
    sent,       \* chunks the client has sent
    delivered,  \* message events fired, whoever listened
    gone,       \* the client has closed, or its connection broke
    events,     \* of "close" and "error", those yet to fire
    pc,         \* where handleVlessSession (runSession) awaits
    listening,  \* its listeners are attached
    finished,   \* the endpoint's flag
    ws,         \* this side of the WebSocket
    sock,       \* the TCP connection
    got,        \* what the destination has received, in order
    up,         \* uploaded
    down,       \* downloaded
    billed,     \* total handed to recordTraffic
    unheard     \* history: the "close" event has fired, and nobody listened

vars == <<kind, sent, delivered, gone, events, pc, listening, finished, ws, sock, got, up, down,
          billed, unheard>>
client == <<kind, sent, delivered, gone, events, unheard>>

Init ==
    /\ kind \in {"edge", "endpoint"}
    /\ sent = 0 /\ delivered = 0
    /\ gone = FALSE
    /\ events = {"close", "error"}
    /\ pc = "first"
    /\ listening = FALSE
    /\ finished = FALSE
    /\ ws = "open"
    /\ sock = "none"
    /\ got = <<>>
    /\ up = 0 /\ down = 0
    /\ billed = 0
    /\ unheard = FALSE

-----------------------------------------------------------------------------
(* The client.                                                             *)

Send ==
    /\ ~gone
    /\ sent < MaxUp
    /\ sent' = sent + 1
    /\ UNCHANGED <<kind, delivered, gone, events, pc, listening, finished, ws, sock, got, up, down,
                   billed, unheard>>

(* It leaves, or answers the close of the other side. *)
Leave ==
    /\ ~gone
    /\ gone' = TRUE
    /\ UNCHANGED <<kind, sent, delivered, events, pc, listening, finished, ws, sock, got, up, down,
                   billed, unheard>>

-----------------------------------------------------------------------------
(* Closing.                                                                *)

(* The destination closes, or the connection to it breaks. *)
Hangup ==
    /\ sock \in {"open", "half"}
    /\ sock' = "closed"
    /\ UNCHANGED <<client, pc, listening, finished, ws, got, up, down, billed>>

(* Mutant of Finish: the destination is left to time out. *)
FinishSocketOnly ==
    /\ finished' = (kind = "endpoint" \/ finished)
    /\ ws' = "closed" /\ UNCHANGED sock

(* finish of the endpoint.  Closing the writer ends what is sent to the    *)
(* destination, and nothing closes the socket: its other half stays.       *)
Finish ==
    /\ finished' = (kind = "endpoint" \/ finished)
    /\ ws' = "closed"
    /\ sock' = IF sock = "open" THEN "half" ELSE sock

(* closeAll of the edge, which bills each time it runs. *)
CloseAll == Finish /\ billed' = IF kind = "edge" THEN billed + up + down ELSE billed

(* The handler rejects, and its caller closes the WebSocket. *)
Fail ==
    /\ pc' = "failed"
    /\ ws' = "closed"

-----------------------------------------------------------------------------
(* Events.                                                                 *)

Message == delivered < sent /\ delivered' = delivered + 1 /\ UNCHANGED <<kind, sent, gone, events, unheard>>

(* The first message: parseVlessHeader, and on to authorize. *)
First ==
    /\ pc = "first"
    /\ Message
    /\ \/ pc' = "auth" /\ UNCHANGED ws
       \/ Fail
    /\ UNCHANGED <<listening, finished, sock, got, up, down, billed>>

(* The first listener is gone and the second is not there yet, or never. *)
Dropped ==
    /\ pc # "first" /\ ~listening
    /\ Message
    /\ UNCHANGED <<pc, listening, finished, ws, sock, got, up, down, billed>>

(* A write fails when the writer is closed or the connection broken, and   *)
(* its handler closes the WebSocket; the rest is left to the read loop.    *)
Relay ==
    /\ listening
    /\ Message
    /\ up' = up + 1
    /\ \/ sock = "open" /\ got' = Append(got, delivered') /\ UNCHANGED <<ws, sock>>
       \/ ws' = "closed" /\ sock' \in {sock, "closed"} \ {"open"} /\ UNCHANGED got
    /\ UNCHANGED <<pc, listening, finished, down, billed>>

(* "close" or "error", once the messages before it have been delivered. *)
Close(e) ==
    /\ gone /\ delivered = sent
    /\ e \in events
    /\ events' = events \ {e}
    /\ IF listening THEN CloseAll ELSE UNCHANGED <<finished, billed, ws, sock>>
    /\ unheard' = (unheard \/ (e = "close" /\ ~listening))
    /\ UNCHANGED <<kind, sent, delivered, gone, pc, listening, got, up, down>>

-----------------------------------------------------------------------------
(* The handler.                                                            *)

(* Not allowed, or not TCP. *)
Deny ==
    /\ pc = "auth"
    /\ pc' = "denied"
    /\ ws' = "closed"
    /\ UNCHANGED <<client, listening, finished, sock, got, up, down, billed>>

(* An allowed TCP request is connected; its payload is counted first. *)
Allow(payload) ==
    /\ pc = "auth"
    /\ pc' = "connect"
    /\ sock' = "open"
    /\ up' = payload
    /\ UNCHANGED <<client, listening, finished, ws, got, down, billed>>

(* The first write is through (or there was none): the listeners are       *)
(* attached and the header is answered, which throws if the client is gone *)
(* by then.                                                                *)
Start ==
    /\ pc = "connect"
    /\ listening' = TRUE
    /\ got' = IF up = 0 THEN got ELSE Append(got, 1)
    /\ \/ pc' = "relay" /\ UNCHANGED ws
       \/ gone /\ Fail
    /\ UNCHANGED <<client, finished, sock, up, down, billed>>

(* The destination cannot be reached, or fails the first write. *)
Refuse ==
    /\ pc = "connect"
    /\ Fail
    /\ sock' = "closed"
    /\ UNCHANGED <<client, listening, finished, got, up, down, billed>>

Receive ==
    /\ pc = "relay"
    /\ ws = "open"
    /\ down < MaxDown
    /\ down' = down + 1
    /\ UNCHANGED <<client, pc, listening, finished, ws, sock, got, up, billed>>

(* Mutant of End: the endpoint reports what it downloaded. *)
EndDownOnly ==
    /\ pc = "relay"
    /\ pc' = "done"
    /\ \/ sock = "closed" /\ down' = down
       \/ ws = "closed" /\ down < MaxDown /\ down' = down + 1
    /\ Finish
    /\ billed' = IF kind = "endpoint" THEN down' ELSE billed + up + down'
    /\ UNCHANGED <<client, listening, got, up>>

(* The read loop ends: nothing is left to read; or a chunk arrives, is     *)
(* counted, and the WebSocket no longer takes it.  closeAll or finish, and *)
(* the endpoint, whose session this ends, bills.                           *)
End ==
    /\ pc = "relay"
    /\ pc' = "done"
    /\ \/ sock = "closed" /\ down' = down
       \/ ws = "closed" /\ down < MaxDown /\ down' = down + 1
    /\ Finish
    /\ billed' = IF kind = "endpoint" THEN up + down' ELSE billed + up + down'
    /\ UNCHANGED <<client, listening, got, up>>

Next ==
    \/ Send \/ Leave \/ Hangup
    \/ First \/ Dropped \/ Relay \/ \E e \in {"close", "error"} : Close(e)
    \/ Deny \/ (\E payload \in {0, 1} : Allow(payload)) \/ Start \/ Refuse \/ Receive \/ End

Spec == Init /\ [][Next]_vars

(* The runtime fires the events that are due.  Until "close" has fired the *)
(* worker is kept alive for them: the promise handed to waitUntil resolves *)
(* on it.  Nothing is assumed of the handler, nor of what comes after.     *)
Fairness == WF_vars(First \/ Dropped \/ Relay) /\ WF_vars(Close("close"))

-----------------------------------------------------------------------------
(***************************************************************************)
(* Type invariant; a handler that is relaying has its listeners.           *)
(***************************************************************************)
TypeOK ==
    /\ kind \in {"edge", "endpoint"}
    /\ sent \in 0 .. MaxUp /\ delivered \in 0 .. sent
    /\ gone \in BOOLEAN
    /\ events \subseteq {"close", "error"}
    /\ pc \in {"first", "auth", "denied", "connect", "relay", "done", "failed"}
    /\ listening \in BOOLEAN /\ finished \in BOOLEAN
    /\ ws \in {"open", "closed"}
    /\ sock \in {"none", "open", "half", "closed"}
    /\ got \in Seq(1 .. MaxUp) /\ Len(got) <= MaxUp
    /\ up \in 0 .. MaxUp + 1 /\ down \in 0 .. MaxDown
    /\ billed \in Nat /\ unheard \in BOOLEAN
    /\ pc \in {"relay", "done"} => listening /\ sock # "none"

(***************************************************************************)
(* The destination receives the client's chunks in order, without a gap    *)
(* but one after the first chunk: messages that come while the session is  *)
(* authorized and connected have no listener and are lost, later ones are  *)
(* not.  And what was carried is billed: a session that ran to its end for *)
(* at least all of it, by the endpoint for no more than it received.       *)
(***************************************************************************)
CarriedAndBilled ==
    /\ \A i \in 1 .. Len(got) - 1 : got[i + 1] = got[i] + 1 \/ (i = 1 /\ got[1] = 1)
    /\ pc = "done" => billed >= Len(got) + down
    /\ kind = "endpoint" => billed <= up + down

(***************************************************************************)
(* A destination is told when the client has left: its side of the         *)
(* connection is closed, unless the close was signalled while the session  *)
(* was still being authorized or connected, when nobody listened           *)
(* (vless.ts attaches its listeners after the first write).                *)
(***************************************************************************)
ToldOfLeaving == gone /\ sock = "open" ~> sock # "open" \/ unheard

(***************************************************************************)
(* The endpoint script calls itself a mirror of vless.ts.  It bills a      *)
(* session once; so, then, should the edge.                                *)
(***************************************************************************)
BilledOnce == billed <= up + down
=============================================================================
