---------------------------- MODULE ProxyConnection ---------------------------
(***************************************************************************)
(* What the reverse proxy does with a request (simulator/src/proxy.rs,     *)
(* from resolve_endpoint on): it finds out the address of the backend,     *)
(* connects, and relays the answer, or, for a request with an Upgrade      *)
(* header, sends the request on as it is, reads the head of the answer     *)
(* and then copies both ways until one side ends.                          *)
(*                                                                         *)
(* Requests share nothing but the table (RouteProxy), so one connection at *)
(* a time is enough.  What the sides send on an upgraded connection is a   *)
(* sequence of numbered pieces; the answer of the backend starts with a    *)
(* status line and headers, up to the blank line.  No wait has a timeout.  *)
(***************************************************************************)
EXTENDS Naturals, Sequences, FiniteSets

CONSTANTS
  MaxPieces,  \* bound: pieces sent by a side
  BufSize,    \* pieces that a copy holds
  Room,       \* pieces that a side is sent before it has to read
  None

VARIABLES
  pc,       \* where proxy_request is
  kind,     \* the request: whether it is an upgrade, whether its backend is TLS
  answer,   \* who the client's answer is from: the proxy itself or the backend
  state,    \* of each side: open, ended in order, or reset
  wire,     \* what a side has sent and the proxy has not read
  sent,     \* how many pieces a side has sent
  resp_buf, \* resp_buf of ws_handshake_and_tunnel
  buf,      \* what the copy that starts from a side holds
  got,      \* history: the numbers of the pieces a side was sent
  unread,   \* how many of these it has not read
  ending    \* history: the side whose end of input ended the tunnel

peers == <<state, wire, sent, got, unread>>
vars == <<pc, kind, answer, peers, resp_buf, buf, ending>>

Sides == {"client", "backend"}
Other(s) == IF s = "client" THEN "backend" ELSE "client"

\* The line starts an answer; valid when hyper takes its status and headers.
Line(n, valid) == [what |-> "line", n |-> n, valid |-> valid]
Blank == [what |-> "blank", n |-> 0, valid |-> TRUE]
Data(n) == [what |-> "data", n |-> n, valid |-> TRUE]
Lines == {Line(n, valid) : n \in {101, 200}, valid \in BOOLEAN}
Pieces == Lines \cup {Blank} \cup {Data(n) : n \in 1..MaxPieces}

Kinds == [upgrade : BOOLEAN, tls : BOOLEAN]
Over == {"idle", "answered", "closed"}

TypeOK ==
  /\ pc \in Over \cup {"service", "endpoints", "body", "connect", "tls", "handshake", "send",
                       "collect", "write", "head", "switch", "tunnel"}
  /\ kind \in Kinds /\ answer \in {None, "proxy", "backend"}
  /\ state \in [Sides -> {"open", "eof", "reset"}]
  /\ wire \in [Sides -> Seq(Pieces)] /\ resp_buf \in Seq(Pieces)
  /\ sent \in [Sides -> 0..MaxPieces + 2]
  /\ buf \in [Sides -> Seq(Pieces)] /\ \A s \in Sides : Len(buf[s]) <= BufSize
  /\ got \in [Sides -> Seq(1..MaxPieces)] /\ unread \in [Sides -> 0..Room]
  /\ ending \in Sides \cup {None}

Init ==
  /\ pc = "idle" /\ kind = [upgrade |-> FALSE, tls |-> FALSE] /\ answer = None
  /\ state = [s \in Sides |-> "open"]
  /\ wire = [s \in Sides |-> << >>] /\ sent = [s \in Sides |-> 0]
  /\ resp_buf = << >> /\ buf = [s \in Sides |-> << >>]
  /\ got = [s \in Sides |-> << >>] /\ unread = [s \in Sides |-> 0]
  /\ ending = None

To(next) == pc' = next /\ UNCHANGED <<answer, ending>>
Answer(from) == pc' = "answered" /\ answer' = from /\ UNCHANGED ending

------------------------------------------------------------------------------
(***************************************************************************)
(* Where the request goes to.                                              *)
(***************************************************************************)
Resolved == IF kind.upgrade THEN "connect" ELSE "body"

\* The OAuth server is this process; any other host is looked up in the table.
proxy_request(k) ==
  /\ pc = "idle" /\ kind' = k
  /\ \/ k.tls /\ To(IF k.upgrade THEN "connect" ELSE "body")
     \/ To("service")
     \/ Answer("proxy")
  /\ UNCHANGED <<peers, resp_buf, buf>>

\* The ClusterIP of the Service, or else an address of its Endpoints.
resolve_service ==
  /\ pc = "service"
  /\ To(Resolved) \/ To("endpoints")
  /\ UNCHANGED <<kind, peers, resp_buf, buf>>

resolve_endpoints ==
  /\ pc = "endpoints"
  /\ To(Resolved) \/ Answer("proxy")
  /\ UNCHANGED <<kind, peers, resp_buf, buf>>

\* The body is read to its end before the backend is connected to.
collect_body ==
  /\ pc = "body"
  /\ To("connect")
  /\ UNCHANGED <<kind, peers, resp_buf, buf>>

------------------------------------------------------------------------------
(***************************************************************************)
(* The backend.  Each step fails on its own, with an answer of the proxy.  *)
(***************************************************************************)
Connected == IF kind.upgrade THEN "write" ELSE IF kind.tls THEN "handshake" ELSE "send"

connect ==
  /\ pc = "connect"
  /\ To(IF kind.tls THEN "tls" ELSE Connected) \/ Answer("proxy")
  /\ UNCHANGED <<kind, peers, resp_buf, buf>>

connect_tls ==
  /\ pc = "tls"
  /\ To(Connected) \/ Answer("proxy")
  /\ UNCHANGED <<kind, peers, resp_buf, buf>>

send_request ==
  /\ \/ pc = "handshake" /\ To("send")
     \/ pc = "send" /\ To("collect")
     \/ pc \in {"handshake", "send"} /\ Answer("proxy")
  /\ UNCHANGED <<kind, peers, resp_buf, buf>>

\* A body that breaks off is replaced by an empty one.
collect_response ==
  /\ pc = "collect"
  /\ Answer("backend")
  /\ UNCHANGED <<kind, peers, resp_buf, buf>>

------------------------------------------------------------------------------
(***************************************************************************)
(* ws_handshake_and_tunnel.                                                *)
(***************************************************************************)
write_request ==
  /\ pc = "write"
  /\ To("head") \/ Answer("proxy")
  /\ UNCHANGED <<kind, peers, resp_buf, buf>>

\* The first line counts, whether or not the head is complete.  A status or a
\* header that hyper does not take is a panic, which ends the connection.
Parsed(h) ==
  IF h = << >> THEN Answer("proxy")
  ELSE IF ~h[1].valid THEN To("closed")
  ELSE IF h[1].n # 101 THEN Answer("backend")
  ELSE To("switch")

\* A chunk is whatever has arrived; what follows the blank line in it is not
\* kept.  The end of input ends the loop as well.
read_head_NoEof ==
  /\ pc = "head"
  /\ \/ \E n \in 1..Len(wire["backend"]) :
          LET h == resp_buf \o SubSeq(wire["backend"], 1, n)
          IN /\ resp_buf' = h
             /\ wire' = [wire EXCEPT !["backend"] = SubSeq(@, n + 1, Len(@))]
             /\ IF \E i \in 1..Len(h) : h[i] = Blank THEN Parsed(h) ELSE To("head")
     \/ state["backend"] = "reset" /\ Answer("proxy") /\ UNCHANGED <<wire, resp_buf>>
  /\ UNCHANGED <<kind, state, sent, got, unread, buf>>

read_head ==
  /\ pc = "head"
  /\ \/ \E n \in 1..Len(wire["backend"]) :
          LET h == resp_buf \o SubSeq(wire["backend"], 1, n)
          IN /\ resp_buf' = h
             /\ wire' = [wire EXCEPT !["backend"] = SubSeq(@, n + 1, Len(@))]
             /\ IF \E i \in 1..Len(h) : h[i] = Blank THEN Parsed(h) ELSE To("head")
     \/ /\ wire["backend"] = << >> /\ state["backend"] = "eof"
        /\ Parsed(resp_buf) /\ UNCHANGED <<wire, resp_buf>>
     \/ state["backend"] = "reset" /\ Answer("proxy") /\ UNCHANGED <<wire, resp_buf>>
  /\ UNCHANGED <<kind, state, sent, got, unread, buf>>

\* hyper writes the 101 and hands the connection over, unless the client left.
on_upgrade ==
  /\ pc = "switch"
  /\ \/ state["client"] # "reset" /\ pc' = "tunnel" /\ answer' = "backend"
     \/ state["client"] # "open" /\ pc' = "closed" /\ UNCHANGED answer
  /\ UNCHANGED <<kind, peers, resp_buf, buf, ending>>

\* tokio::io::copy from s to the other side.
copy_read(s) ==
  /\ pc = "tunnel" /\ wire[s] # << >> /\ Len(buf[s]) < BufSize
  /\ wire' = [wire EXCEPT ![s] = Tail(@)]
  /\ buf' = [buf EXCEPT ![s] = Append(@, Head(wire[s]))]
  /\ UNCHANGED <<pc, kind, answer, state, sent, got, unread, resp_buf, ending>>

copy_write(s) ==
  LET to == Other(s)
  IN /\ pc = "tunnel" /\ buf[s] # << >> /\ unread[to] < Room /\ state[to] # "reset"
     /\ buf' = [buf EXCEPT ![s] = Tail(@)]
     /\ got' = [got EXCEPT ![to] = Append(@, Head(buf[s]).n)]
     /\ unread' = [unread EXCEPT ![to] = @ + 1]
     /\ UNCHANGED <<pc, kind, answer, state, wire, sent, resp_buf, ending>>

\* select!: the end of one copy ends both.  A copy ends when its input has
\* ended and all of it is written, or with an error.
copy_ends_AtEof(s) ==
  /\ pc = "tunnel"
  /\ \/ wire[s] = << >> /\ state[s] = "eof" /\ ending' = s
     \/ /\ state[s] = "reset" \/ (buf[s] # << >> /\ state[Other(s)] # "open")
        /\ UNCHANGED ending
  /\ pc' = "closed"
  /\ UNCHANGED <<kind, answer, peers, resp_buf, buf>>

copy_ends(s) ==
  /\ pc = "tunnel"
  /\ \/ wire[s] = << >> /\ buf[s] = << >> /\ state[s] = "eof" /\ ending' = s
     \/ /\ state[s] = "reset" \/ (buf[s] # << >> /\ state[Other(s)] # "open")
        /\ UNCHANGED ending
  /\ pc' = "closed"
  /\ UNCHANGED <<kind, answer, peers, resp_buf, buf>>

------------------------------------------------------------------------------
(***************************************************************************)
(* hyper's side of the connection, the client and the backend.             *)
(***************************************************************************)

\* The connection with the client ended while its request was being served.
Abandon ==
  /\ pc \notin Over \cup {"switch", "tunnel"} /\ state["client"] # "open"
  /\ To("closed")
  /\ UNCHANGED <<kind, peers, resp_buf, buf>>

\* The next request, on this connection or another.
accept ==
  /\ pc \in Over \ {"idle"}
  /\ pc' = "idle" /\ answer' = None /\ kind' = [upgrade |-> FALSE, tls |-> FALSE]
  /\ state' = [s \in Sides |-> "open"]
  /\ wire' = [s \in Sides |-> << >>] /\ sent' = [s \in Sides |-> 0]
  /\ resp_buf' = << >> /\ buf' = [s \in Sides |-> << >>]
  /\ got' = [s \in Sides |-> << >>] /\ unread' = [s \in Sides |-> 0]
  /\ ending' = None

Talking == kind.upgrade /\ pc \in {"head", "switch", "tunnel"}

Sends(s, piece) ==
  /\ Talking /\ state[s] = "open"
  /\ wire' = [wire EXCEPT ![s] = Append(@, piece)]
  /\ sent' = [sent EXCEPT ![s] = @ + 1]
  /\ UNCHANGED <<pc, kind, answer, state, got, unread, resp_buf, buf, ending>>

ClientSends == sent["client"] < MaxPieces /\ Sends("client", Data(sent["client"] + 1))

BackendSends ==
  \/ sent["backend"] = 0 /\ \E line \in Lines : Sends("backend", line)
  \/ sent["backend"] = 1 /\ Sends("backend", Blank)
  \/ /\ sent["backend"] \in 2..(MaxPieces + 1)
     /\ Sends("backend", Data(sent["backend"] - 1))

Reads(s) ==
  /\ Talking /\ unread[s] > 0
  /\ unread' = [unread EXCEPT ![s] = @ - 1]
  /\ UNCHANGED <<pc, kind, answer, state, wire, sent, got, resp_buf, buf, ending>>

Leaves(s) ==
  /\ pc \notin Over /\ state[s] = "open" /\ (s = "backend" => Talking)
  /\ \E how \in {"eof", "reset"} : state' = [state EXCEPT ![s] = how]
  /\ UNCHANGED <<pc, kind, answer, wire, sent, got, unread, resp_buf, buf, ending>>

Copy(s) == copy_read(s) \/ copy_write(s) \/ copy_ends(s)

Next ==
  \/ \E k \in Kinds : proxy_request(k)
  \/ resolve_service \/ resolve_endpoints \/ collect_body
  \/ connect \/ connect_tls \/ send_request \/ collect_response
  \/ write_request \/ read_head \/ on_upgrade
  \/ \E s \in Sides : Copy(s)
  \/ Abandon \/ accept
  \/ ClientSends \/ BackendSends
  \/ \E s \in Sides : Reads(s) \/ Leaves(s)

\* The task of the connection and both of its copies are polled when they can
\* go on, and calls of the API server and to connect are answered.  Nothing is
\* assumed of the client and the backend.
Fairness ==
  /\ WF_vars(resolve_service) /\ WF_vars(resolve_endpoints) /\ WF_vars(connect)
  /\ WF_vars(write_request) /\ WF_vars(read_head) /\ WF_vars(on_upgrade) /\ WF_vars(Abandon)
  /\ \A s \in Sides : WF_vars(Copy(s))

Spec == Init /\ [][Next]_vars
FairSpec == Spec /\ Fairness

------------------------------------------------------------------------------
(***************************************************************************)
(* Properties.                                                             *)
(***************************************************************************)

\* The pieces of the backend that came with the head of its answer.
Swallowed == Cardinality({i \in DOMAIN resp_buf : resp_buf[i].what = "data"})

Numbered(from, to) == [i \in 1..(to - from) |-> from + i]
DataSent == [client |-> sent["client"], backend |-> IF sent["backend"] > 2 THEN sent["backend"] - 2 ELSE 0]

\* ws_handshake_and_tunnel: each side gets what the other sent, in order and
\* without a gap, from the first piece on, except that the client does not get
\* the pieces that came in one chunk with the head.  When the tunnel ended
\* because a side closed its connection in order, the other had got the last of
\* its pieces.
TunnelFaithful ==
  /\ got["backend"] = Numbered(0, Len(got["backend"]))
  /\ got["client"] = Numbered(Swallowed, Swallowed + Len(got["client"]))
  /\ ending = "client" => Len(got["backend"]) = DataSent["client"]
  /\ ending = "backend" => Swallowed + Len(got["client"]) = DataSent["backend"]

\* What only the client or the backend can end.
WaitsForPeer ==
  \/ pc \in {"body", "tls", "handshake", "send", "collect"} /\ state["client"] = "open"
  \/ pc = "head" /\ wire["backend"] = << >> /\ \A s \in Sides : state[s] = "open"
  \/ /\ pc = "tunnel"
     /\ \/ \A s \in Sides : state[s] = "open"
        \/ \E s \in Sides : buf[s] # << >> /\ unread[Other(s)] = Room

\* proxy_request and ws_handshake_and_tunnel: whatever goes wrong on the way and
\* whoever leaves when, a request is answered and a tunnel closed in the end; or
\* else the proxy waits for something that is up to the client or the backend.
NothingHangs == []<>(pc \in Over \/ WaitsForPeer)
==============================================================================
