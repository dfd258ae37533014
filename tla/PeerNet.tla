------------------------------ MODULE PeerNet ------------------------------
(***************************************************************************)
(* Peer actors (src/src/peer.rs and src/src/peer/*.rs) connected pairwise  *)
(* by framed byte streams, with the tasks they spawn.                      *)
(*                                                                         *)
(* Each Peer is an actor: its handlers run one at a time on the messages   *)
(* of its mailbox, so a handler is one atomic step here.  Work outside the *)
(* mailbox is done by tasks: the listen task of Peer::new that turns the   *)
(* incoming stream into Incoming messages, the futures returned by the     *)
(* service map for local services, and the relay task spawned by          *)
(* incoming_call for relayed services.  A connection is two FIFO streams   *)
(* (TCP keeps order and loses nothing while open); wire[p] holds the       *)
(* frames p's sink wrote and Remote[p]'s listen task has not read.         *)
(*                                                                         *)
(* A frame is [sid, cid, pl, op]: the service id, the connection id, the   *)
(* payload abstracted to what the receiver can tell apart ("Good" or "Bad" *)
(* request bytes for the service map, "Resp" for a response, a             *)
(* ConnectionError kind for an error frame) and op, the client operation   *)
(* the payload belongs to (only used by the properties).                   *)
(***************************************************************************)
EXTENDS Integers, Sequences, SequencesExt, FiniteSets

CONSTANTS
    Peers,          \* Peer actors
    Remote,         \* Remote[p]: the peer at the other end of p's connection
    Sids,           \* service ids (non null)
    NullSid,        \* ServiceID::null(): marks an error frame
    NullCid,        \* ConnID::null(): marks a send
    NoOp,           \* op of a frame built by prep_error
    Services,       \* Services[p]: sids of the service map registered on p
    RelayRegs,      \* RegisterRelay requests of the owners: [id, peer, target, sids]
    Ops,            \* client operations: [id, peer, kind, sid, cid, pl]
    Closers,        \* peers whose owner may send CloseConnection{remote:false}
    RegistryFaults, \* failures the service map / executor may report
    Corruptions     \* Corruptions[p]: what p's incoming stream may yield
                    \* that a conforming remote never sends, and "SinkErr"
                    \* if closing p's sink may fail

ConnErrors == {"Deserialize", "InternalServerError", "UnknownService",
               "FailedToRelay", "LostRelayBeforeResponse"}
OpIds == {o.id : o \in Ops}
RegIds == {r.id : r \in RelayRegs}
Cids  == {o.cid : o \in Ops} \ {NullCid}
\* "Garbled": an error frame whose payload is no ConnectionError.
Payloads == {"Good", "Bad", "Resp", "Garbled"} \cup ConnErrors
\* A decode error of the codec, or a garbled error frame.
CorruptInputs == {"StreamErr", "Garbled"}

Frame == [sid : Sids \cup {NullSid}, cid : Cids \cup {NullCid},
          pl : Payloads, op : OpIds \cup {NoOp}]

Msg == [t : {"Incoming", "Out", "Call"}, frame : Frame]
       \cup [t : {"Close"}, remote : BOOLEAN]
       \cup [t : {"RegisterRelay"}, target : Peers, sids : SUBSET Sids]
       \cup [t : {"IncomingErr"}]

Event == [k : {"Error", "RemoteError"}, e : ConnErrors]
         \cup [k : {"Closed", "ClosedByRemote"}, e : {"none"}]

\* What the receiving end of a oneshot channel of a call sees.
Outcome == [st : {"none", "pending", "canceled", "sendErr"}, v : {NoOp}]
           \cup [st : {"ok"}, v : OpIds]
           \cup [st : {"err"}, v : ConnErrors]

RelayTask == [peer : Peers, target : Peers, frame : Frame, st : {"start", "called"}]

VARIABLES
    mailbox,    \* mailbox[p]: messages queued for actor p
    wire,       \* wire[p]: frames written by p's sink, unread by Remote[p]
    outgoing,   \* p.outgoing is Some(sink)
    addr,       \* p.addr is Some(own address)
    listening,  \* the listen task of p is running (listen_handle held)
    services,   \* DOMAIN of p.services (local sids)
    relayed,    \* p.relayed: sid -> relay peer id
    relays,     \* DOMAIN of p.relays (relay peers)
    responses,  \* DOMAIN of p.responses (cids awaiting a response)
    events,     \* PeerEvents p's pharos has sent to observers
    outcome,    \* outcome[<<p, cid>>]: the oneshot receiver of a call on p
    svcTasks,   \* spawned service-map futures: [peer, frame]
    relayTasks, \* spawned relay tasks of incoming_call
    handled,    \* <<peer, op>> each time a local handler ran a request
    issued,     \* client operations already issued
    userClosed, \* owners that sent CloseConnection{remote:false}
    corrupted,  \* <<p, x>>: p's stream has yielded the corrupt input x
    panicked    \* the handler of p panicked: the actor is gone

vars == <<mailbox, wire, outgoing, addr, listening, services, relayed, relays,
          responses, events, outcome, svcTasks, relayTasks, handled, issued,
          userClosed, corrupted, panicked>>

Ev(k, e)       == [k |-> k, e |-> e]
Res(st, v)     == [st |-> st, v |-> v]
CloseMsg(r)    == [t |-> "Close", remote |-> r]
FrameMsg(t, f) == [t |-> t, frame |-> f]
ReqFrame(o)    == [sid |-> o.sid, cid |-> o.cid, pl |-> o.pl, op |-> o.id]
NoRelayed      == [s \in {} |-> NullSid]
GarbledFrame   == [sid |-> NullSid, cid |-> NullCid, pl |-> "Garbled", op |-> NoOp]

\* Peer::prep_error: a null service id marks a ConnectionError frame.
ErrFrame(cid, e) == [sid |-> NullSid, cid |-> cid, pl |-> e, op |-> NoOp]

\* The response the service map builds for a call: same sid and cid.
RespFrame(f) == [f EXCEPT !.pl = "Resp"]

\* The ConnectionError each failure of the service map is reported as.
FaultError == [SpawnFail |-> "InternalServerError", Downcast |-> "InternalServerError",
               UnknownService |-> "UnknownService"]

peerVars == <<outgoing, addr, listening, services, relayed, relays, responses>>
taskVars == <<svcTasks, relayTasks, handled>>
faultVars == <<corrupted, panicked>>
envVars  == <<issued, userClosed, corrupted, panicked>>

TypeOK ==
    /\ mailbox \in [Peers -> Seq(Msg)]
    /\ wire \in [Peers -> Seq(Frame)]
    /\ outgoing \in [Peers -> BOOLEAN] /\ addr \in [Peers -> BOOLEAN]
    /\ listening \in [Peers -> BOOLEAN]
    /\ services \in [Peers -> SUBSET Sids]
    /\ \A p \in Peers : relayed[p] \in [DOMAIN relayed[p] -> Peers]
                        /\ DOMAIN relayed[p] \subseteq Sids
    /\ relays \in [Peers -> SUBSET Peers]
    /\ responses \in [Peers -> SUBSET Cids]
    /\ events \in [Peers -> Seq(Event)]
    /\ outcome \in [Peers \X Cids -> Outcome]
    /\ svcTasks \subseteq [peer : Peers, frame : Frame]
    /\ relayTasks \subseteq RelayTask
    /\ handled \in Seq(Peers \X OpIds)
    /\ issued \subseteq OpIds \cup RegIds /\ userClosed \subseteq Closers
    /\ corrupted \subseteq Peers \X CorruptInputs
    /\ panicked \in [Peers -> BOOLEAN]

\* register_services: every sid of the service map is routed to that map.
RegisterServices(p) == {sid \in Sids : sid \in Services[p]}

(***************************************************************************)
(* Peer::new: sink and own address held, listen task spawned, and the     *)
(* service map registered (register_services runs before the mailbox      *)
(* starts, as in peer_listen of the tests).                                *)
(***************************************************************************)
Init ==
    /\ mailbox = [p \in Peers |-> <<>>]
    /\ wire = [p \in Peers |-> <<>>]
    /\ outgoing = [p \in Peers |-> TRUE]
    /\ addr = [p \in Peers |-> TRUE]
    /\ listening = [p \in Peers |-> TRUE]
    /\ services = [p \in Peers |-> RegisterServices(p)]
    /\ relayed = [p \in Peers |-> NoRelayed]
    /\ relays = [p \in Peers |-> {}]
    /\ responses = [p \in Peers |-> {}]
    /\ events = [p \in Peers |-> <<>>]
    /\ outcome = [k \in Peers \X Cids |-> Res("none", NoOp)]
    /\ svcTasks = {} /\ relayTasks = {} /\ handled = <<>>
    /\ issued = {} /\ userClosed = {}
    /\ corrupted = {} /\ panicked = [p \in Peers |-> FALSE]

-----------------------------------------------------------------------------
(* Clients: a RemoteAddr sends Call (call) or the frame (send) to a peer;  *)
(* the owner may send RegisterRelay and CloseConnection{remote: false}.   *)

ClientCall(o) ==
    /\ o.kind = "call" /\ o.id \notin issued
    /\ IF panicked[o.peer]
         THEN /\ outcome' = [outcome EXCEPT ![<<o.peer, o.cid>>] = Res("sendErr", NoOp)]
              /\ UNCHANGED mailbox
         ELSE /\ mailbox' = [mailbox EXCEPT ![o.peer] = Append(@, FrameMsg("Call", ReqFrame(o)))]
              /\ UNCHANGED outcome
    /\ issued' = issued \cup {o.id}
    /\ UNCHANGED <<wire, events, userClosed>> /\ UNCHANGED peerVars
    /\ UNCHANGED taskVars /\ UNCHANGED faultVars

ClientSend(o) ==
    /\ o.kind = "send" /\ o.id \notin issued
    /\ mailbox' = [mailbox EXCEPT ![o.peer] = Append(@, FrameMsg("Out", ReqFrame(o)))]
    /\ issued' = issued \cup {o.id}
    /\ UNCHANGED <<wire, events, outcome, userClosed>> /\ UNCHANGED peerVars
    /\ UNCHANGED taskVars /\ UNCHANGED faultVars

ClientRegisterRelay(r) ==
    /\ r.id \notin issued
    /\ mailbox' = [mailbox EXCEPT ![r.peer] =
                    Append(@, [t |-> "RegisterRelay", target |-> r.target, sids |-> r.sids])]
    /\ issued' = issued \cup {r.id}
    /\ UNCHANGED <<wire, events, outcome, userClosed>> /\ UNCHANGED peerVars
    /\ UNCHANGED taskVars /\ UNCHANGED faultVars

UserClose(p) ==
    /\ p \notin userClosed
    /\ mailbox' = [mailbox EXCEPT ![p] = Append(@, CloseMsg(FALSE))]
    /\ userClosed' = userClosed \cup {p}
    /\ UNCHANGED <<wire, events, outcome, issued>> /\ UNCHANGED peerVars
    /\ UNCHANGED taskVars /\ UNCHANGED faultVars

-----------------------------------------------------------------------------
(* The listen task of Peer::new: send_all of the incoming stream to the   *)
(* peer's own address, then CloseConnection{remote: true} at end of       *)
(* stream.  Dropping listen_handle stops it at once.                      *)

Listen(p) ==
    LET q == Remote[p] IN
    /\ listening[p] /\ wire[q] # <<>>
    /\ wire' = [wire EXCEPT ![q] = Tail(@)]
    /\ mailbox' = [mailbox EXCEPT ![p] = Append(@, FrameMsg("Incoming", Head(wire[q])))]
    /\ UNCHANGED <<events, outcome>> /\ UNCHANGED peerVars
    /\ UNCHANGED taskVars /\ UNCHANGED envVars

\* The stream of p yields what a conforming remote never produces: a decode
\* error of the codec (Incoming{msg: Err}) or an error frame whose payload
\* does not deserialize.  Each at most once.
ListenCorrupt(p, x) ==
    /\ listening[p] /\ <<p, x>> \notin corrupted
    /\ mailbox' = [mailbox EXCEPT ![p] =
                    Append(@, IF x = "StreamErr" THEN [t |-> "IncomingErr"]
                                                 ELSE FrameMsg("Incoming", GarbledFrame))]
    /\ corrupted' = corrupted \cup {<<p, x>>}
    /\ UNCHANGED <<wire, events, outcome, panicked>> /\ UNCHANGED peerVars
    /\ UNCHANGED taskVars /\ UNCHANGED <<issued, userClosed>>

ListenEnd(p) ==
    /\ listening[p] /\ wire[Remote[p]] = <<>> /\ ~outgoing[Remote[p]]
    /\ mailbox' = [mailbox EXCEPT ![p] = Append(@, CloseMsg(TRUE))]
    /\ listening' = [listening EXCEPT ![p] = FALSE]
    /\ UNCHANGED <<wire, events, outcome, outgoing, addr, services, relayed,
                   relays, responses>>
    /\ UNCHANGED taskVars /\ UNCHANGED envVars

-----------------------------------------------------------------------------
(* Handlers of the Peer actor.  rest is the mailbox without the message   *)
(* being handled.                                                          *)

\* Mutant of ReportError: the close flag is ignored, so a corrupt
\* connection is reported but left open.
ReportErrorNoClose(p, rest, cid, e, close) ==
    /\ events' = [events EXCEPT ![p] = Append(@, Ev("Error", e))]
    /\ wire' = IF outgoing[p] THEN [wire EXCEPT ![p] = Append(@, ErrFrame(cid, e))]
                              ELSE wire
    /\ mailbox' = [mailbox EXCEPT ![p] = rest]

\* pharos.send(PeerEvent::Error(e)) and Peer::send_err(cid, e, close): the
\* error frame goes out if the sink is there, and with close the peer
\* sends itself CloseConnection{remote: false} if it still has its address.
ReportError(p, rest, cid, e, close) ==
    /\ events' = [events EXCEPT ![p] = Append(@, Ev("Error", e))]
    /\ wire' = IF outgoing[p] THEN [wire EXCEPT ![p] = Append(@, ErrFrame(cid, e))]
                              ELSE wire
    /\ mailbox' = [mailbox EXCEPT ![p] = IF outgoing[p] /\ close /\ addr[p]
                                         THEN Append(rest, CloseMsg(FALSE)) ELSE rest]

\* A request for a local service: sm.send_service / sm.call_service, and
\* exec.spawn of the future they return.  Bytes that do not deserialize to
\* the service's message close the connection; the other failures do not.
DispatchLocal(p, f, rest) ==
    \/ /\ f.pl # "Good"
       /\ ReportError(p, rest, f.cid, "Deserialize", TRUE)
       /\ UNCHANGED svcTasks
    \/ /\ f.pl = "Good"
       /\ svcTasks' = svcTasks \cup {[peer |-> p, frame |-> f]}
       /\ mailbox' = [mailbox EXCEPT ![p] = rest]
       /\ UNCHANGED <<wire, events>>
    \/ /\ f.pl = "Good"
       /\ \E fault \in RegistryFaults : ReportError(p, rest, f.cid, FaultError[fault], FALSE)
       /\ UNCHANGED svcTasks

\* incoming_send: local service, relayed service (forwarded as is to the
\* relay's mailbox, which stays open while p holds its address, unless the
\* relay actor panicked: then FailedToRelay), unknown service.
IncomingSend(p, f, rest) ==
    \/ /\ f.sid \in services[p]
       /\ DispatchLocal(p, f, rest)
       /\ UNCHANGED relayTasks
    \/ /\ f.sid \notin services[p] /\ f.sid \in DOMAIN relayed[p]
       /\ ~panicked[relayed[p][f.sid]]
       /\ mailbox' = [mailbox EXCEPT ![p] = rest,
                                     ![relayed[p][f.sid]] = Append(@, FrameMsg("Out", f))]
       /\ UNCHANGED <<wire, events, svcTasks, relayTasks>>
    \/ /\ f.sid \notin services[p] /\ f.sid \in DOMAIN relayed[p]
       /\ panicked[relayed[p][f.sid]]
       /\ ReportError(p, rest, NullCid, "FailedToRelay", FALSE)
       /\ UNCHANGED <<svcTasks, relayTasks>>
    \/ /\ f.sid \notin services[p] \cup DOMAIN relayed[p]
       /\ ReportError(p, rest, NullCid, "UnknownService", FALSE)
       /\ UNCHANGED <<svcTasks, relayTasks>>

\* Mutant: an unknown service in a call closes the connection.
IncomingCallCloseOnUnknown(p, f, rest) ==
    \/ /\ ~addr[p]
       /\ mailbox' = [mailbox EXCEPT ![p] = rest]
       /\ UNCHANGED <<wire, events, svcTasks, relayTasks>>
    \/ /\ addr[p] /\ f.sid \in services[p]
       /\ DispatchLocal(p, f, rest)
       /\ UNCHANGED relayTasks
    \/ /\ addr[p] /\ f.sid \notin services[p] /\ f.sid \in DOMAIN relayed[p]
       /\ relayTasks' = relayTasks \cup {[peer |-> p, target |-> relayed[p][f.sid],
                                          frame |-> f, st |-> "start"]}
       /\ mailbox' = [mailbox EXCEPT ![p] = rest]
       /\ UNCHANGED <<wire, events, svcTasks>>
    \/ /\ addr[p] /\ f.sid \notin services[p] \cup DOMAIN relayed[p]
       /\ ReportError(p, rest, f.cid, "UnknownService", TRUE)
       /\ UNCHANGED <<svcTasks, relayTasks>>

\* incoming_call: nothing at all once the peer dropped its address;
\* otherwise local service, relayed service (a relay task is spawned), or
\* unknown service answered with an error frame quoting the cid.
IncomingCall(p, f, rest) ==
    \/ /\ ~addr[p]
       /\ mailbox' = [mailbox EXCEPT ![p] = rest]
       /\ UNCHANGED <<wire, events, svcTasks, relayTasks>>
    \/ /\ addr[p] /\ f.sid \in services[p]
       /\ DispatchLocal(p, f, rest)
       /\ UNCHANGED relayTasks
    \/ /\ addr[p] /\ f.sid \notin services[p] /\ f.sid \in DOMAIN relayed[p]
       /\ relayTasks' = relayTasks \cup {[peer |-> p, target |-> relayed[p][f.sid],
                                          frame |-> f, st |-> "start"]}
       /\ mailbox' = [mailbox EXCEPT ![p] = rest]
       /\ UNCHANGED <<wire, events, svcTasks>>
    \/ /\ addr[p] /\ f.sid \notin services[p] \cup DOMAIN relayed[p]
       /\ ReportError(p, rest, f.cid, "UnknownService", FALSE)
       /\ UNCHANGED <<svcTasks, relayTasks>>

\* Mutant: the error frame completes the caller's oneshot as a response.
RemoteConnErrAsOk(p, f, rest) ==
    /\ events' = [events EXCEPT ![p] = Append(@, Ev("RemoteError", f.pl))]
    /\ IF f.cid \in responses[p]
         THEN /\ responses' = [responses EXCEPT ![p] = @ \ {f.cid}]
              /\ outcome' = [outcome EXCEPT ![<<p, f.cid>>] = Res("ok", f.pl)]
         ELSE UNCHANGED <<responses, outcome>>
    /\ mailbox' = [mailbox EXCEPT ![p] = rest]

\* remote_conn_err: notify observers, and complete the caller's oneshot
\* with the error if the cid is one of our outstanding calls.
RemoteConnErr(p, f, rest) ==
    /\ events' = [events EXCEPT ![p] = Append(@, Ev("RemoteError", f.pl))]
    /\ IF f.cid \in responses[p]
         THEN /\ responses' = [responses EXCEPT ![p] = @ \ {f.cid}]
              /\ outcome' = [outcome EXCEPT ![<<p, f.cid>>] = Res("err", f.pl)]
         ELSE UNCHANGED <<responses, outcome>>
    /\ mailbox' = [mailbox EXCEPT ![p] = rest]

\* A response to one of our calls: take the oneshot out of responses and
\* complete it with the frame.
IncomingResponse(p, f, rest) ==
    /\ responses' = [responses EXCEPT ![p] = @ \ {f.cid}]
    /\ outcome' = [outcome EXCEPT ![<<p, f.cid>>] = Res("ok", f.op)]
    /\ mailbox' = [mailbox EXCEPT ![p] = rest]

\* Mutant: the known-cid test comes before the null-sid test.
IncomingResponseFirst(p, f, rest) ==
    \/ /\ f.cid # NullCid /\ f.cid \in responses[p]
       /\ IncomingResponse(p, f, rest)
       /\ UNCHANGED <<wire, events, svcTasks, relayTasks>>
    \/ /\ f.cid \notin responses[p] /\ f.sid = NullSid
       /\ RemoteConnErr(p, f, rest)
       /\ UNCHANGED <<wire, svcTasks, relayTasks>>
    \/ /\ f.sid # NullSid /\ f.cid = NullCid
       /\ IncomingSend(p, f, rest)
       /\ UNCHANGED <<responses, outcome>>
    \/ /\ f.sid # NullSid /\ f.cid # NullCid /\ f.cid \notin responses[p]
       /\ IncomingCall(p, f, rest)
       /\ UNCHANGED <<responses, outcome>>

\* The classification of Handler<Incoming>: null sid, null cid, known cid,
\* else a call.
IncomingFrame(p, f, rest) ==
    \/ /\ f.sid = NullSid
       /\ RemoteConnErr(p, f, rest)
       /\ UNCHANGED <<wire, svcTasks, relayTasks>>
    \/ /\ f.sid # NullSid /\ f.cid = NullCid
       /\ IncomingSend(p, f, rest)
       /\ UNCHANGED <<responses, outcome>>
    \/ /\ f.sid # NullSid /\ f.cid # NullCid /\ f.cid \in responses[p]
       /\ IncomingResponse(p, f, rest)
       /\ UNCHANGED <<wire, events, svcTasks, relayTasks>>
    \/ /\ f.sid # NullSid /\ f.cid # NullCid /\ f.cid \notin responses[p]
       /\ IncomingCall(p, f, rest)
       /\ UNCHANGED <<responses, outcome>>

\* A handler of p panics: the actor task unwinds and drops the Peer, so the
\* sink (the remote sees end of stream), the listen handle and the oneshot
\* senders (waiting callers are cancelled) go with it, and no later message
\* of the mailbox is ever handled.
Unwind(p) ==
    /\ panicked' = [panicked EXCEPT ![p] = TRUE]
    /\ mailbox' = [mailbox EXCEPT ![p] = <<>>]
    /\ outgoing' = [outgoing EXCEPT ![p] = FALSE]
    /\ addr' = [addr EXCEPT ![p] = FALSE]
    /\ listening' = [listening EXCEPT ![p] = FALSE]
    /\ services' = [services EXCEPT ![p] = {}]
    /\ relayed' = [relayed EXCEPT ![p] = NoRelayed]
    /\ relays' = [relays EXCEPT ![p] = {}]
    /\ responses' = [responses EXCEPT ![p] = {}]
    /\ outcome' = [k \in DOMAIN outcome |->
                     IF k[1] = p /\ k[2] \in responses[p] /\ outcome[k].st = "pending"
                     THEN Res("canceled", NoOp) ELSE outcome[k]]
    /\ UNCHANGED <<wire, issued, userClosed, corrupted>> /\ UNCHANGED taskVars

\* The unimplemented!() in remote_conn_err: the actor unwinds, no event.
Panic(p) == Unwind(p) /\ UNCHANGED events

\* Handler<Incoming>: a decode error of the stream is corruption (event,
\* error frame, close); an error frame that does not deserialize reaches
\* unimplemented!() in remote_conn_err; any other frame is classified.
Incoming(p) ==
    LET m == Head(mailbox[p])
        rest == Tail(mailbox[p])
        Keep == /\ UNCHANGED <<outgoing, addr, listening, services, relayed, relays, handled>>
                /\ UNCHANGED envVars
    IN /\ mailbox[p] # <<>>
       /\ \/ /\ m.t = "IncomingErr"
             /\ ReportError(p, rest, NullCid, "Deserialize", TRUE)
             /\ UNCHANGED <<responses, outcome, svcTasks, relayTasks>> /\ Keep
          \/ /\ m.t = "Incoming" /\ m.frame.pl = "Garbled"
             /\ Panic(p)
          \/ /\ m.t = "Incoming" /\ m.frame.pl # "Garbled"
             /\ IncomingFrame(p, m.frame, rest) /\ Keep

\* Mutant: the sink is neither closed nor dropped.
CloseConnectionKeepSink(p) ==
    LET m == Head(mailbox[p]) IN
    /\ mailbox[p] # <<>> /\ m.t = "Close"
    /\ mailbox' = [mailbox EXCEPT ![p] = Tail(@)]
    /\ events' = [events EXCEPT ![p] =
                    Append(@, Ev(IF m.remote THEN "ClosedByRemote" ELSE "Closed", "none"))]
    /\ addr' = [addr EXCEPT ![p] = FALSE]
    /\ listening' = [listening EXCEPT ![p] = FALSE]
    /\ services' = [services EXCEPT ![p] = {}]
    /\ relayed' = [relayed EXCEPT ![p] = NoRelayed]
    /\ relays' = [relays EXCEPT ![p] = {}]
    /\ responses' = [responses EXCEPT ![p] = {}]
    /\ outcome' = [k \in DOMAIN outcome |->
                     IF k[1] = p /\ k[2] \in responses[p] /\ outcome[k].st = "pending"
                     THEN Res("canceled", NoOp) ELSE outcome[k]]
    /\ UNCHANGED <<wire, outgoing>> /\ UNCHANGED taskVars /\ UNCHANGED envVars

\* Mutant: the oneshot senders in responses are kept, callers never wake.
CloseConnectionNoCancel(p) ==
    LET m == Head(mailbox[p]) IN
    /\ mailbox[p] # <<>> /\ m.t = "Close"
    /\ mailbox' = [mailbox EXCEPT ![p] = Tail(@)]
    /\ events' = [events EXCEPT ![p] =
                    Append(@, Ev(IF m.remote THEN "ClosedByRemote" ELSE "Closed", "none"))]
    /\ outgoing' = [outgoing EXCEPT ![p] = FALSE]
    /\ addr' = [addr EXCEPT ![p] = FALSE]
    /\ listening' = [listening EXCEPT ![p] = FALSE]
    /\ services' = [services EXCEPT ![p] = {}]
    /\ relayed' = [relayed EXCEPT ![p] = NoRelayed]
    /\ relays' = [relays EXCEPT ![p] = {}]
    /\ responses' = [responses EXCEPT ![p] = {}]
    /\ UNCHANGED <<wire, outcome>> /\ UNCHANGED taskVars /\ UNCHANGED envVars

\* The rest of the handler once the sink closed (or there was none).
CloseSink(p) ==
    /\ mailbox' = [mailbox EXCEPT ![p] = Tail(@)]
    /\ outgoing' = [outgoing EXCEPT ![p] = FALSE]
    /\ addr' = [addr EXCEPT ![p] = FALSE]
    /\ listening' = [listening EXCEPT ![p] = FALSE]
    /\ services' = [services EXCEPT ![p] = {}]
    /\ relayed' = [relayed EXCEPT ![p] = NoRelayed]
    /\ relays' = [relays EXCEPT ![p] = {}]
    /\ responses' = [responses EXCEPT ![p] = {}]
    /\ outcome' = [k \in DOMAIN outcome |->
                     IF k[1] = p /\ k[2] \in responses[p] /\ outcome[k].st = "pending"
                     THEN Res("canceled", NoOp) ELSE outcome[k]]
    /\ UNCHANGED wire /\ UNCHANGED taskVars /\ UNCHANGED envVars

\* out.close() fails: the transport is already shut by the other side (its
\* listen task, the reading end, is gone) and p's connection may fail so.
SinkCloseFails(p) ==
    /\ outgoing[p] /\ "SinkErr" \in Corruptions[p] /\ ~listening[Remote[p]]

\* Handler<CloseConnection>: event, close and drop the sink, drop the own
\* address and the listen handle, clear every table.  Dropping the oneshot
\* senders in responses cancels the callers still waiting.  If out.close()
\* fails, its expect panics the actor after the event was sent.
CloseConnection(p) ==
    LET m == Head(mailbox[p]) IN
    /\ mailbox[p] # <<>> /\ m.t = "Close"
    /\ events' = [events EXCEPT ![p] =
                    Append(@, Ev(IF m.remote THEN "ClosedByRemote" ELSE "Closed", "none"))]
    /\ \/ /\ SinkCloseFails(p)
          /\ Unwind(p)
       \/ CloseSink(p)

\* Peer::send_msg: write the frame if the sink is there, else
\* Err(ConnectionClosed), which leaves the wire as it is.
WriteOut(p, f) ==
    wire' = IF outgoing[p] THEN [wire EXCEPT ![p] = Append(@, f)] ELSE wire

\* Handler<MS>: send_msg, its error ignored (let _ = ...).
SendMsg(p) ==
    LET m == Head(mailbox[p]) IN
    /\ mailbox[p] # <<>> /\ m.t = "Out"
    /\ mailbox' = [mailbox EXCEPT ![p] = Tail(@)]
    /\ WriteOut(p, m.frame)
    /\ UNCHANGED <<events, outcome>> /\ UNCHANGED peerVars
    /\ UNCHANGED taskVars /\ UNCHANGED envVars

\* send_msg as Handler<Call> awaits it: write the frame if the sink is
\* there, else Err(PeerSendAfterCloseConnection).
CallSendMsg(p, f) ==
    wire' = IF outgoing[p] THEN [wire EXCEPT ![p] = Append(@, f)] ELSE wire

\* Handler<Call>: register the oneshot under the cid, then send_msg; if the
\* sink is gone the caller gets an error (the entry stays in responses).
Call(p) ==
    LET m == Head(mailbox[p])
        f == m.frame
    IN /\ mailbox[p] # <<>> /\ m.t = "Call"
       /\ mailbox' = [mailbox EXCEPT ![p] = Tail(@)]
       /\ responses' = [responses EXCEPT ![p] = @ \cup {f.cid}]
       /\ outcome' = [outcome EXCEPT ![<<p, f.cid>>] =
                        Res(IF outgoing[p] THEN "pending" ELSE "sendErr", NoOp)]
       /\ CallSendMsg(p, f)
       /\ UNCHANGED <<events, outgoing, addr, listening, services, relayed, relays>>
       /\ UNCHANGED taskVars /\ UNCHANGED envVars

\* Handler<RegisterRelay> (register_relayed_services): refused once the
\* peer has dropped its address; otherwise record the relay and route sids.
RegisterRelay(p) ==
    LET m == Head(mailbox[p]) IN
    /\ mailbox[p] # <<>> /\ m.t = "RegisterRelay"
    /\ mailbox' = [mailbox EXCEPT ![p] = Tail(@)]
    /\ IF addr[p]
         THEN /\ relays' = [relays EXCEPT ![p] = @ \cup {m.target}]
              /\ relayed' = [relayed EXCEPT ![p] =
                               [s \in DOMAIN @ \cup m.sids |->
                                  IF s \in m.sids THEN m.target ELSE @[s]]]
         ELSE UNCHANGED <<relays, relayed>>
    /\ UNCHANGED <<wire, events, outcome, outgoing, addr, listening, services, responses>>
    /\ UNCHANGED taskVars /\ UNCHANGED envVars

PeerStep(p) ==
    /\ ~panicked[p]
    /\ \/ Incoming(p) \/ CloseConnection(p) \/ SendMsg(p) \/ Call(p) \/ RegisterRelay(p)

-----------------------------------------------------------------------------
(* Spawned tasks.                                                          *)

\* The future of the service map: the local handler runs; for a call, the
\* response is sent to the peer's address to go out on the connection.
ServiceTask(t) ==
    /\ svcTasks' = svcTasks \ {t}
    /\ handled' = Append(handled, <<t.peer, t.frame.op>>)
    /\ mailbox' = IF t.frame.cid = NullCid THEN mailbox
                  ELSE [mailbox EXCEPT ![t.peer] = Append(@, FrameMsg("Out", RespFrame(t.frame)))]
    /\ UNCHANGED <<wire, events, outcome, relayTasks>> /\ UNCHANGED peerVars
    /\ UNCHANGED envVars

\* Relay task, first await: relayed.call(Call::new(frame)).  The call
\* fails if the relay actor is gone, and its expect panics the task.
RelayCall(t) ==
    /\ t.st = "start"
    /\ IF panicked[t.target]
         THEN /\ relayTasks' = relayTasks \ {t}
              /\ UNCHANGED mailbox
         ELSE /\ mailbox' = [mailbox EXCEPT ![t.target] = Append(@, FrameMsg("Call", t.frame))]
              /\ relayTasks' = (relayTasks \ {t}) \cup {[t EXCEPT !.st = "called"]}
    /\ UNCHANGED <<wire, events, outcome, svcTasks, handled>> /\ UNCHANGED peerVars
    /\ UNCHANGED envVars

\* Mutant: a lost relay is answered as if the call had succeeded.
RelayReturnLostAsResp(t) ==
    LET o   == outcome[<<t.target, t.frame.cid>>]
        cid == t.frame.cid
        reply == CASE o.st = "ok"       -> [t.frame EXCEPT !.pl = "Resp", !.op = o.v]
                   [] o.st = "err"      -> ErrFrame(cid, o.v)
                   [] o.st = "canceled" -> [t.frame EXCEPT !.pl = "Resp"]
                   [] o.st = "sendErr"  -> ErrFrame(cid, "FailedToRelay")
    IN /\ t.st = "called" /\ o.st \notin {"none", "pending"}
       /\ mailbox' = [mailbox EXCEPT ![t.peer] = Append(@, FrameMsg("Out", reply))]
       /\ relayTasks' = relayTasks \ {t}
       /\ UNCHANGED <<wire, events, outcome, svcTasks, handled>> /\ UNCHANGED peerVars
       /\ UNCHANGED envVars

\* Relay task, once the call returned and its receiver resolved: send the
\* response, the relayed ConnectionError, LostRelayBeforeResponse (sender
\* dropped) or FailedToRelay (call failed) to our own address.
RelayReturn(t) ==
    LET o   == outcome[<<t.target, t.frame.cid>>]
        cid == t.frame.cid
        reply == CASE o.st = "ok"       -> [t.frame EXCEPT !.pl = "Resp", !.op = o.v]
                   [] o.st = "err"      -> ErrFrame(cid, o.v)
                   [] o.st = "canceled" -> ErrFrame(cid, "LostRelayBeforeResponse")
                   [] o.st = "sendErr"  -> ErrFrame(cid, "FailedToRelay")
    IN /\ t.st = "called" /\ o.st \notin {"none", "pending"}
       /\ mailbox' = [mailbox EXCEPT ![t.peer] = Append(@, FrameMsg("Out", reply))]
       /\ relayTasks' = relayTasks \ {t}
       /\ UNCHANGED <<wire, events, outcome, svcTasks, handled>> /\ UNCHANGED peerVars
       /\ UNCHANGED envVars

\* Relay task, first await still running when the relay actor panics: the
\* Call it queued is dropped unanswered, call() returns Err and the expect
\* panics the task; nothing is sent back.
RelayCallLost(t) ==
    /\ t.st = "called" /\ panicked[t.target]
    /\ outcome[<<t.target, t.frame.cid>>].st = "none"
    /\ relayTasks' = relayTasks \ {t}
    /\ UNCHANGED <<mailbox, wire, events, outcome, svcTasks, handled>> /\ UNCHANGED peerVars
    /\ UNCHANGED envVars

RelayStep(t) == RelayCall(t) \/ RelayCallLost(t) \/ RelayReturn(t)

-----------------------------------------------------------------------------
\* Nothing left to do: every mailbox empty, every listen task either gone
\* or waiting on an open, drained stream, and no task pending.
Quiescent ==
    /\ \A p \in Peers :
          /\ mailbox[p] = <<>> \/ panicked[p]
          /\ ~listening[p] \/ (wire[Remote[p]] = <<>> /\ outgoing[Remote[p]])
    /\ svcTasks = {} /\ relayTasks = {}

\* The clients are done and the peers idle: the system waits for input.
Done ==
    /\ Quiescent /\ issued = OpIds \cup RegIds /\ userClosed = Closers
    /\ UNCHANGED vars

Next ==
    \/ \E o \in Ops : ClientCall(o) \/ ClientSend(o)
    \/ \E r \in RelayRegs : ClientRegisterRelay(r)
    \/ \E p \in Closers : UserClose(p)
    \/ \E p \in Peers : Listen(p) \/ ListenEnd(p) \/ PeerStep(p)
    \/ \E p \in Peers, x \in CorruptInputs : x \in Corruptions[p] /\ ListenCorrupt(p, x)
    \/ \E t \in svcTasks : ServiceTask(t)
    \/ \E t \in relayTasks : RelayStep(t)
    \/ Done

(***************************************************************************)
(* Every actor mailbox is drained by the executor, every spawned task is   *)
(* polled to completion and the listen task reads whatever arrives: weak   *)
(* fairness for all of them.  Clients and owners act when they like.       *)
(***************************************************************************)
Fairness ==
    /\ \A p \in Peers : WF_vars(PeerStep(p)) /\ WF_vars(Listen(p)) /\ WF_vars(ListenEnd(p))
    /\ WF_vars(\E t \in svcTasks : ServiceTask(t))
    /\ WF_vars(\E t \in relayTasks : RelayStep(t))

Spec == Init /\ [][Next]_vars
FairSpec == Spec /\ Fairness
-----------------------------------------------------------------------------
(***************************************************************************)
(* Properties.                                                             *)
(***************************************************************************)

CallOps == {o \in Ops : o.kind = "call"}
CallerSees(o) == outcome[<<o.peer, o.cid>>]
TimesHandled(op) == Cardinality({i \in DOMAIN handled : handled[i][2] = op})

(* A failure at the application level never closes a connection (spec     *)
(* 4.2, the close/no-close split): a peer closes its side on its own      *)
(* initiative (PeerEvent::Closed) only because its owner asked or after   *)
(* it received bytes it could not deserialize.  Unknown services, relay   *)
(* failures, Downcast and spawn failures in Handler<Incoming> leave it    *)
(* open: send_err is called with close = false, although the comments    *)
(* above those calls say "and close the connection".                      *)
CloseOnlyOnCorruption ==
    \A p \in Peers :
        Ev("Closed", "none") \in ToSet(events[p])
            => p \in userClosed \/ Ev("Error", "Deserialize") \in ToSet(events[p])

(* Once CloseConnection has dropped the peer's own address, the peer is    *)
(* silent: it writes no frame and spawns no service or relay task, even    *)
(* for the frames and calls still queued in its mailbox (spec 3,           *)
(* invariant (c); incoming_call returns when addr is None).  The doc of    *)
(* CloseConnection says an error is sent back for a call that arrives     *)
(* after the close; with the sink dropped the code sends nothing.         *)
SilentAfterClose ==
    [][\A p \in Peers :
         ~addr[p] =>
            /\ Len(wire'[p]) <= Len(wire[p])
            /\ {t.frame : t \in {u \in svcTasks' : u.peer = p}}
                 \subseteq {t.frame : t \in {u \in svcTasks : u.peer = p}}
            /\ {t.frame : t \in {u \in relayTasks' : u.peer = p}}
                 \subseteq {t.frame : t \in {u \in relayTasks : u.peer = p}}]_vars

(* Every call a client makes is eventually resolved: its receiver gets    *)
(* the response, a remote ConnectionError, or is cancelled because a      *)
(* connection on the way closed; no caller waits forever, also when the   *)
(* relayed connection is lost mid-call.                                   *)
CallsResolve ==
    \A o \in CallOps : o.id \in issued ~> CallerSees(o).st \notin {"none", "pending"}

(* A connection reports its closing to observers once (spec 8, "Close     *)
(* idempotence": a close request to an already closed connection is a     *)
(* no-op, no duplicate events).                                           *)
CloseReportedOnce ==
    \A p \in Peers :
        Cardinality({i \in DOMAIN events[p] :
                       events[p][i].k \in {"Closed", "ClosedByRemote"}}) <= 1

(***************************************************************************)
(* Refinement: to each caller, the network of peers, connections and      *)
(* relays behaves as RemoteCall.  A caller's state is its oneshot          *)
(* receiver (none, pending, a response, or an error / cancellation); an    *)
(* answer that is the response to another request maps to no state of    *)
(* RemoteCall at all.  runs counts the times a local handler ran the       *)
(* request.                                                                *)
(***************************************************************************)
AbstractCallSt(o) ==
    LET r == CallerSees(o) IN
    CASE r.st = "none"                -> "idle"
      [] r.st = "pending"             -> "pending"
      [] r.st = "ok" /\ r.v = o.id    -> "ok"
      [] r.st = "ok" /\ r.v # o.id    -> "misrouted"
      [] r.st \in {"err", "canceled", "sendErr"} -> "failed"

RC == INSTANCE RemoteCall WITH
        Calls  <- CallOps,
        callSt <- [o \in CallOps |-> AbstractCallSt(o)],
        runs   <- [o \in CallOps |-> TimesHandled(o.id)]

(* Every caller sees what RemoteCall promises: a call's request runs at    *)
(* most once and only once it was issued, a success answers a request     *)
(* that ran with its own response, answers are final, and a pending call  *)
(* is eventually answered (Handler<Call>, Handler<Incoming>'s response    *)
(* and error branches, the relay task and CloseConnection together).      *)
RemoteCallRefined == RC!Spec

(* The safety half of RemoteCallRefined, which still holds when a peer    *)
(* panics on malformed input: whatever is lost, no caller is ever told a   *)
(* success for a request that did not run or that is not its own, no      *)
(* request runs twice, and no answer is replaced by another.               *)
RemoteCallSafe == RC!Init /\ [][RC!Next]_RC!vars

SendOps == {o \in Ops : o.kind = "send"}

(* A send that has reached a peer providing its service is processed,      *)
(* also when the connection closes before the peer's mailbox gets to it:   *)
(* the doc comment of CloseConnection says "Sends will still be processed, *)
(* because once they have arrived, the connection is no longer needed for  *)
(* them to be processed".                                                  *)
ArrivedSendsProcessed ==
    \A o \in SendOps, p \in Peers :
        (/\ o.sid \in Services[p]
         /\ FrameMsg("Incoming", ReqFrame(o)) \in ToSet(mailbox[p]))
            ~> \E i \in DOMAIN handled : handled[i] = <<p, o.id>>


(* A relayed send is never dropped unreported (spec 4.2 step 3): the     *)
(* peer that forwards it hands it to its relay peer, and that peer writes  *)
(* it to the relay connection; if that connection is gone, the forwarding *)
(* must fail and be answered with FailedToRelay.  Stated on the relay      *)
(* peer: when it handles a send that another peer forwarded into its       *)
(* mailbox (Handler<MS>), the frame goes on its wire.                      *)
RelayedSendNotDropped ==
    [][\A p \in Peers :
         LET m == Head(mailbox[p]) IN
         (/\ mailbox[p] # <<>> /\ m.t = "Out"
          /\ \E o \in SendOps : m.frame = ReqFrame(o) /\ o.peer # p
          /\ mailbox'[p] = Tail(mailbox[p]) /\ ~panicked'[p])
            => Len(wire'[p]) > Len(wire[p])]_vars

(* Bytes that do not deserialize close the connection: once a peer has    *)
(* reported Error(Deserialize), be it for a stream that failed to decode  *)
(* or for a request its service map could not deserialize, its sink is    *)
(* eventually closed (send_err with close = true queues CloseConnection   *)
(* behind the messages already in the mailbox; spec 4.2, stream            *)
(* corruption).                                                            *)
CorruptionCloses ==
    \A p \in Peers : Ev("Error", "Deserialize") \in ToSet(events[p]) ~> ~outgoing[p]

(* Whatever the remote sends, a peer does not crash: an error frame that   *)
(* does not deserialize is an unrecoverable protocol violation to be      *)
(* treated as corruption, i.e. the connection is closed (spec 4.2, the     *)
(* null-sid case of Handler<Incoming>, remote_conn_err).                   *)
NoPeerPanic == \A p \in Peers : ~panicked[p]

=============================================================================
