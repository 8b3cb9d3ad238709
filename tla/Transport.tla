------------------------------- MODULE Transport -------------------------------
(***************************************************************************)
(* pkgx_transport_tx (transport.c): one request frame to the broker's      *)
(* AF_UNIX socket and one reply frame back, under one absolute deadline.   *)
(* The socket is nonblocking, so every loop is "check the deadline, try    *)
(* the call, poll when it would block"; the deadline may pass between any  *)
(* two of these.  The peer is external: it takes and sends bytes as it     *)
(* likes, in any pieces, before or after it has the request, or closes.    *)
(*                                                                         *)
(* Bytes are counted, not spelled.  A frame header is HdrLen bytes; a      *)
(* reply is what its header declares.  An EINTR is a trip round the loop.  *)
(***************************************************************************)
EXTENDS Integers, FiniteSetsExt

CONSTANTS
  Uids, RequiredUid,  \* the uids a listener may have, and the broker's
  HdrLen,             \* bytes of a frame header
  MaxBody,            \* PKGX_FRAME_MAX_BODY
  RequestLens,        \* the lengths a caller may pass
  Buffer,             \* bytes the kernel buffers towards the peer
  MaxStream           \* bound: bytes a peer sends back

ASSUME UidAssumption  == RequiredUid \in Uids
ASSUME SizeAssumption == /\ HdrLen \in Nat \ {0} /\ MaxBody \in Nat
                         /\ Buffer \in Nat \ {0} /\ MaxStream \in Nat
                         /\ RequestLens \subseteq Nat

Versions == {"v1", "other"}
NotYet   == -1       \* no header read

ConnectErrs == {"request_size", "clock", "socket_path", "socket", "connect"}
ReplyErrs   == {"recv", "frame_eof", "frame_version", "frame_toolarge", "oom"}
Errs == ConnectErrs \cup ReplyErrs \cup {"deadline", "peer", "peer_uid", "send"}

VARIABLES
  \* the call
  pc, reqlen, fd, err,
  wire,      \* bytes of the request frame the kernel has taken
  got,       \* bytes of the reply read
  rlen,      \* the body length of the reply, once the header is read
  \* the clock
  late,      \* the deadline has passed
  overtime,  \* history: sends and reads whose loop began after the deadline
  \* the other end
  peer,      \* the uid SO_PEERCRED reports
  reply,     \* what the header of its reply says
  taken, inbound, closed

callVars == <<reqlen, fd, err>>
dataVars == <<wire, got, rlen>>
timeVars == <<late, overtime>>
peerVars == <<peer, reply, taken, inbound, closed>>
vars == <<pc, callVars, dataVars, timeVars, peerVars>>

Init ==
  /\ pc = "start" /\ reqlen \in RequestLens /\ fd = "none" /\ err = "none"
  /\ wire = 0 /\ got = 0 /\ rlen = NotYet
  /\ late = FALSE /\ overtime = 0
  /\ peer \in Uids
  /\ reply \in [version: Versions, len: 0..(MaxBody + 1)]
  /\ taken = 0 /\ inbound = 0 /\ closed = FALSE

Frame     == HdrLen + reqlen
Delivered == wire = Frame

(* The end of the part being written: write_full sends header, then body. *)
SendEnd == IF wire < HdrLen THEN HdrLen ELSE Frame
(* The end of the part being read. *)
RecvEnd == IF rlen = NotYet THEN HdrLen ELSE HdrLen + rlen

Goto(l) == pc' = l /\ UNCHANGED <<callVars, dataVars, timeVars, peerVars>>

Fail(e) ==
  /\ pc' = "done" /\ err' = e
  /\ UNCHANGED <<reqlen, dataVars, timeVars, peerVars>>
Return(e)      == Fail(e) /\ UNCHANGED fd
CloseReturn(e) == Fail(e) /\ fd' = "none"

Charge == overtime' = IF late THEN overtime + 1 ELSE overtime

-----------------------------------------------------------------------------
Start ==
  /\ pc = "start"
  /\ \/ reqlen \notin 1..MaxBody /\ Return("request_size")
     \/ reqlen \in 1..MaxBody /\ (Return("clock") \/ Goto("connect"))

ConnectFails == pc = "connect" /\ \E e \in {"socket_path", "socket", "connect"} : Return(e)

(* At once, or EINPROGRESS. *)
Connect ==
  /\ pc = "connect"
  /\ fd' = "open"
  /\ pc' \in {"peer", "connecting"}
  /\ UNCHANGED <<reqlen, err, dataVars, timeVars, peerVars>>

(* EAGAIN: the backlog is full; a nap, then a fresh socket. *)
Backlog ==
  /\ pc = "connect"
  /\ \/ late /\ Return("deadline")
     \/ ~late /\ Goto("nap")

Nap == pc = "nap" /\ Goto("connect")

Connected      == pc = "connecting" /\ (Goto("peer") \/ CloseReturn("connect"))
ConnectExpires == pc = "connecting" /\ late /\ CloseReturn("deadline")

(* Bug: the credentials that could not be read are taken for good ones. *)
Authenticate_Unread ==
  /\ pc = "peer"
  /\ (peer # RequiredUid /\ CloseReturn("peer_uid")) \/ Goto("write")
(* Bug: the socket is left open on one of the error paths. *)
Authenticate_Leaks ==
  /\ pc = "peer"
  /\ \/ CloseReturn("peer")
     \/ peer # RequiredUid /\ Return("peer_uid")
     \/ peer = RequiredUid /\ Goto("write")
Authenticate ==
  /\ pc = "peer"
  /\ \/ CloseReturn("peer")
     \/ peer # RequiredUid /\ CloseReturn("peer_uid")
     \/ peer = RequiredUid /\ Goto("write")

-----------------------------------------------------------------------------
(* write_full: the loop head, one send, one poll. *)

WriteHead ==
  /\ pc = "write"
  /\ \/ Delivered /\ Goto("read")
     \/ ~Delivered /\ late /\ CloseReturn("deadline")
     \/ ~Delivered /\ ~late /\ Goto("send")

(* Bug: the length of the whole frame is passed for that of the part. *)
Send_Overruns ==
  /\ pc = "send" /\ ~closed
  /\ \E n \in 1..Min({Frame, Buffer - (wire - taken)}) : wire' = wire + n
  /\ pc' = "write"
  /\ Charge
  /\ UNCHANGED <<callVars, got, rlen, late, peerVars>>
Send ==
  /\ pc = "send" /\ ~closed
  /\ \E n \in 1..Min({SendEnd - wire, Buffer - (wire - taken)}) :
       wire' = wire + n
  /\ pc' = "write"
  /\ Charge
  /\ UNCHANGED <<callVars, got, rlen, late, peerVars>>

SendBlocks == pc = "send" /\ wire - taken = Buffer /\ ~closed /\ Goto("waitOut")
SendBreaks == pc = "send" /\ CloseReturn("send")

WaitOut ==
  /\ pc = "waitOut"
  /\ \/ (wire - taken < Buffer \/ closed) /\ Goto("write")
     \/ late /\ CloseReturn("deadline")

-----------------------------------------------------------------------------
(* read_full, and what follows each of its two calls. *)

(* Bug: the deadline is looked at only when the call would block. *)
ReadHead_Unchecked ==
  /\ pc = "read"
  /\ \/ got = RecvEnd /\ rlen = NotYet /\ Goto("frame")
     \/ got = RecvEnd /\ rlen # NotYet /\ CloseReturn("none")
     \/ got < RecvEnd /\ Goto("recv")
ReadHead ==
  /\ pc = "read"
  /\ \/ got = RecvEnd /\ rlen = NotYet /\ Goto("frame")
     \/ got = RecvEnd /\ rlen # NotYet /\ CloseReturn("none")
     \/ got < RecvEnd /\ late /\ CloseReturn("deadline")
     \/ got < RecvEnd /\ ~late /\ Goto("recv")

Recv ==
  /\ pc = "recv"
  /\ \E n \in 1..Min({RecvEnd - got, inbound - got}) : got' = got + n
  /\ pc' = "read"
  /\ Charge
  /\ UNCHANGED <<callVars, wire, rlen, late, peerVars>>

RecvBlocks == pc = "recv" /\ inbound = got /\ ~closed /\ Goto("waitIn")
(* Bug: a closed connection ends the reply. *)
RecvEof_Accepts == pc = "recv" /\ inbound = got /\ closed /\ CloseReturn("none")
RecvEof    == pc = "recv" /\ inbound = got /\ closed /\ CloseReturn("frame_eof")
(* Bug: one error path for both directions. *)
RecvBreaks_SaysSend == pc = "recv" /\ CloseReturn("send")
RecvBreaks == pc = "recv" /\ CloseReturn("recv")

(* Bug: poll without a timeout. *)
WaitIn_Forever == pc = "waitIn" /\ (inbound > got \/ closed) /\ Goto("read")
WaitIn ==
  /\ pc = "waitIn"
  /\ \/ (inbound > got \/ closed) /\ Goto("read")
     \/ late /\ CloseReturn("deadline")

(* The reply header is complete. *)
ReadFrame ==
  /\ pc = "frame"
  /\ \/ reply.version # "v1" /\ CloseReturn("frame_version")
     \/ reply.version = "v1" /\ reply.len > MaxBody /\ CloseReturn("frame_toolarge")
     \/ reply.version = "v1" /\ reply.len <= MaxBody /\ CloseReturn("oom")
     \/ /\ reply.version = "v1" /\ reply.len <= MaxBody
        /\ rlen' = reply.len
        /\ pc' = "read"
        /\ UNCHANGED <<callVars, wire, got, timeVars, peerVars>>

-----------------------------------------------------------------------------
(* The world.  What wakes a poll up is not up to the call, nor is the clock: *)
(* an ms_left that cannot read it says that the deadline has passed.         *)

ClockFails ==
  \/ pc = "connect" /\ Return("deadline")
  \/ /\ pc \in {"connecting", "write", "waitOut", "read", "waitIn"}
     /\ pc = "write" => ~Delivered
     /\ pc = "read" => got < RecvEnd
     /\ CloseReturn("deadline")

PollFails ==
  \/ pc = "connecting" /\ CloseReturn("connect")
  \/ pc = "waitOut" /\ CloseReturn("send")
  \/ pc = "waitIn" /\ CloseReturn("recv")

Deadline ==
  /\ ~late /\ pc \notin {"start", "done"}
  /\ late' = TRUE
  /\ UNCHANGED <<pc, callVars, dataVars, overtime, peerVars>>

PeerTakes ==
  /\ ~closed /\ taken < wire
  /\ taken' = taken + 1
  /\ UNCHANGED <<pc, callVars, dataVars, timeVars, peer, reply, inbound, closed>>

PeerSends ==
  /\ ~closed /\ fd = "open" /\ inbound < MaxStream
  /\ inbound' = inbound + 1
  /\ UNCHANGED <<pc, callVars, dataVars, timeVars, peer, reply, taken, closed>>

PeerCloses ==
  /\ ~closed /\ fd = "open"
  /\ closed' = TRUE
  /\ UNCHANGED <<pc, callVars, dataVars, timeVars, peer, reply, taken, inbound>>

CallStep ==
  \/ Start \/ ConnectFails \/ Connect \/ Backlog \/ Nap \/ ConnectExpires
  \/ Authenticate
  \/ WriteHead \/ Send \/ SendBlocks \/ SendBreaks \/ WaitOut
  \/ ReadHead \/ Recv \/ RecvBlocks \/ RecvEof \/ RecvBreaks \/ WaitIn \/ ReadFrame
KernelStep == Connected \/ PollFails \/ ClockFails
PeerStep == PeerTakes \/ PeerSends \/ PeerCloses
Done == pc = "done" /\ UNCHANGED vars
Next == CallStep \/ KernelStep \/ Deadline \/ PeerStep \/ Done

Spec == Init /\ [][Next]_vars

(* The call is a single thread, and time passes; the peer owes nothing. *)
LiveSpec == Spec /\ WF_vars(CallStep) /\ WF_vars(Deadline)

-----------------------------------------------------------------------------
(* Properties. *)

TypeOK ==
  /\ pc \in {"start", "connect", "nap", "connecting", "peer", "write", "send",
             "waitOut", "read", "recv", "waitIn", "frame", "done"}
  /\ reqlen \in RequestLens /\ fd \in {"none", "open"} /\ err \in Errs \cup {"none"}
  /\ wire \in 0..Frame /\ got \in 0..MaxStream
  /\ rlen \in {NotYet} \cup 0..MaxBody
  /\ late \in BOOLEAN /\ overtime \in Nat
  /\ peer \in Uids /\ reply \in [version: Versions, len: 0..(MaxBody + 1)]
  /\ taken \in 0..Frame /\ inbound \in 0..MaxStream /\ closed \in BOOLEAN

(* What the caller holds on success is the whole reply and nothing else: the *)
(* request had left in full, the header was one of this version, and exactly *)
(* the bytes it declares were read, no more than the bound, whatever pieces  *)
(* they came in and however much the peer sent beyond them.                  *)
ReplyIsWhole ==
  pc = "done" /\ err = "none" =>
    /\ Delivered
    /\ reply.version = "v1" /\ rlen = reply.len /\ rlen <= MaxBody
    /\ got = HdrLen + rlen /\ got <= inbound

(* The deadline is absolute: whatever progress a trickling peer allows, at   *)
(* most the one call already decided upon is made after it.                  *)
AtMostOneLateCall == overtime <= 1

(* Every return after the socket exists has closed it, the success included: *)
(* a helper that goes on to spawn dpkg holds no broker connection.           *)
SocketIsClosed == pc = "done" => fd = "none"

(* The errors that tell the caller its request never left whole, so that the *)
(* receipt in it cannot have been spent by this call.                        *)
UnsentErrs == ConnectErrs \cup {"peer", "peer_uid", "send"}
UnsentErrorsAreTrue == pc = "done" /\ err \in UnsentErrs => ~Delivered

(* The call returns, though the peer never answers, never reads, never       *)
(* accepts the connection, or sends a byte at a time.                        *)
Returns == <>(pc = "done")

(* The call is an Exchange. *)
Phase ==
  IF pc # "done" THEN IF Delivered THEN "sent" ELSE "unsent"
  ELSE IF err = "none" THEN "answered" ELSE IF Delivered THEN "lost" ELSE "failed"
Abstract == INSTANCE Exchange WITH phase <- Phase
ImplementsExchange == Abstract!Spec
=============================================================================
