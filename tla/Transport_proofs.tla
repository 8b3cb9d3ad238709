---------------------------- MODULE Transport_proofs ----------------------------
(***************************************************************************)
(* The inductive invariant of Transport and the theorems that rest on it.  *)
(***************************************************************************)
EXTENDS Transport, TLAPS

Unopened  == {"start", "connect", "nap"}
Opened    == {"connecting", "peer"}
Sending   == {"write", "send", "waitOut"}
Receiving == {"read", "recv", "waitIn", "frame"}

(* Nothing moves before the peer is known to be the broker. *)
Silent == wire = 0 /\ got = 0 /\ rlen = NotYet

(* What being at a label means for the socket, the peer and the bytes. *)
Places ==
  /\ pc \in Unopened => fd = "none" /\ Silent
  /\ pc \in Opened => fd = "open" /\ Silent
  /\ pc \in Sending \cup Receiving => fd = "open" /\ peer = RequiredUid
  /\ pc \in Sending => got = 0 /\ rlen = NotYet
  /\ pc \in Receiving => Delivered
  /\ pc \in {"send", "waitOut"} => wire < Frame
  /\ pc = "recv" => got < RecvEnd
  /\ pc = "frame" => got = HdrLen /\ rlen = NotYet

(* The part of the reply that has been read is the part that was due. *)
Reading ==
  /\ got <= inbound
  /\ rlen = NotYet => got <= HdrLen
  /\ rlen # NotYet => /\ reply.version = "v1" /\ rlen = reply.len
                      /\ HdrLen <= got /\ got <= HdrLen + rlen

(* A call that is decided upon was decided upon in time. *)
InTime ==
  /\ overtime > 0 => late /\ pc \notin {"send", "recv"}
  /\ overtime <= 1

(* The error tells what had happened. *)
Outcome ==
  /\ pc # "done" => err = "none"
  /\ pc = "done" => fd = "none"
  /\ pc = "done" /\ err = "none" =>
       Delivered /\ rlen # NotYet /\ got = HdrLen + rlen
  /\ pc = "done" /\ err \in UnsentErrs => ~Delivered
  /\ Delivered => peer = RequiredUid

IInv == TypeOK /\ taken <= wire /\ Places /\ Reading /\ InTime /\ Outcome

(***************************************************************************)
(* The minimum of two numbers, which bounds what one call moves.           *)
(***************************************************************************)
LEMMA MinOfTwo ==
  ASSUME NEW a \in Int, NEW b \in Int
  PROVE  Min({a, b}) \in Int /\ Min({a, b}) <= a /\ Min({a, b}) <= b
<1>1. \E x \in {a, b} : \A y \in {a, b} : x <= y
  <2>1. CASE a <= b  BY <2>1
  <2>2. CASE ~(a <= b)  BY <2>2
  <2> QED  BY <2>1, <2>2
<1> QED  BY <1>1 DEF Min

LEMMA InitInv == Init => IInv
<1> USE UidAssumption, SizeAssumption DEF Silent, Delivered, Frame, RecvEnd, NotYet
<1> SUFFICES ASSUME Init PROVE IInv  OBVIOUS
<1>1. TypeOK
  <2>1. reqlen \in Nat /\ Frame \in Nat /\ 0 \in 0..Frame /\ 0 \in 0..MaxStream  BY DEF Init
  <2>2. reply \in [version: Versions, len: 0..(MaxBody + 1)]  BY DEF Init
  <2> HIDE DEF Frame
  <2> QED  BY <2>1, <2>2 DEF Init, TypeOK
<1>2. taken <= wire  BY DEF Init
<1>3. Places  BY DEF Init, Places, Unopened, Opened, Sending, Receiving
<1>4. Reading  BY DEF Init, Reading
<1>5. InTime  BY DEF Init, InTime
<1>6. Outcome  BY DEF Init, Outcome
<1> QED  BY <1>1, <1>2, <1>3, <1>4, <1>5, <1>6 DEF IInv

LEMMA NextInv == IInv /\ [Next]_vars => IInv'
<1> USE UidAssumption, SizeAssumption
<1> USE DEF Silent, Delivered, Frame, RecvEnd, SendEnd, NotYet, Goto, Fail, Return,
    CloseReturn, Charge, callVars, dataVars, timeVars, peerVars,
    Unopened, Opened, Sending, Receiving, IInv, TypeOK, Places, Reading, InTime, Outcome,
    UnsentErrs, ConnectErrs, ReplyErrs, Errs, Versions
<1> SUFFICES ASSUME IInv, [Next]_vars PROVE IInv'  OBVIOUS
<1>1. CASE Start  BY <1>1 DEF Start
<1>2. CASE ConnectFails  BY <1>2 DEF ConnectFails
<1>3. CASE Connect  BY <1>3 DEF Connect
<1>4. CASE Backlog  BY <1>4 DEF Backlog
<1>5. CASE Nap  BY <1>5 DEF Nap
<1>6. CASE ConnectExpires  BY <1>6 DEF ConnectExpires
<1>7. CASE Authenticate  BY <1>7 DEF Authenticate
<1>8. CASE WriteHead  BY <1>8 DEF WriteHead
<1>9. CASE Send
  <2>1. SendEnd - wire \in Int /\ Buffer - (wire - taken) \in Int  OBVIOUS
  <2> DEFINE room == Min({SendEnd - wire, Buffer - (wire - taken)})
  <2>2. room \in Int /\ room <= SendEnd - wire
    <3> HIDE DEF SendEnd, Frame, Delivered, IInv
    <3> QED  BY <2>1, MinOfTwo, Zenon
  <2>3. \E n \in 1..room : wire' = wire + n  BY <1>9 DEF Send
  <2>4. wire' \in Nat /\ wire < wire' /\ wire' <= SendEnd
    <3> HIDE DEF room
    <3> QED  BY <2>2, <2>3
  <2> QED  BY <1>9, <2>4 DEF Send
<1>10. CASE SendBlocks \/ SendBreaks  BY <1>10 DEF SendBlocks, SendBreaks
<1>11. CASE WaitOut  BY <1>11 DEF WaitOut
<1>12. CASE ReadHead  BY <1>12 DEF ReadHead
<1>13. CASE Recv
  <2>1. RecvEnd - got \in Int /\ inbound - got \in Int  OBVIOUS
  <2> DEFINE due == Min({RecvEnd - got, inbound - got})
  <2>2. due \in Int /\ due <= RecvEnd - got /\ due <= inbound - got
    <3> HIDE DEF RecvEnd, Frame, Delivered, IInv
    <3> QED  BY <2>1, MinOfTwo, Zenon
  <2>3. \E n \in 1..due : got' = got + n  BY <1>13 DEF Recv
  <2>4. got' \in Nat /\ got < got' /\ got' <= RecvEnd /\ got' <= inbound
    <3> HIDE DEF due
    <3> QED  BY <2>2, <2>3
  <2> QED  BY <1>13, <2>4 DEF Recv
<1>14. CASE RecvBlocks \/ RecvEof \/ RecvBreaks
  BY <1>14 DEF RecvBlocks, RecvEof, RecvBreaks
<1>15. CASE WaitIn  BY <1>15 DEF WaitIn
<1>16. CASE ReadFrame  BY <1>16 DEF ReadFrame
<1>17. CASE KernelStep
  <2>1. CASE Connected  BY <2>1 DEF Connected
  <2>2. CASE PollFails
    <3>1. CASE pc = "connecting" /\ CloseReturn("connect")  BY <3>1
    <3>2. CASE pc = "waitOut" /\ CloseReturn("send")  BY <3>2
    <3>3. CASE pc = "waitIn" /\ CloseReturn("recv")  BY <3>3
    <3> QED  BY <2>2, <3>1, <3>2, <3>3 DEF PollFails
  <2>3. CASE ClockFails  BY <2>3 DEF ClockFails
  <2> QED  BY <1>17, <2>1, <2>2, <2>3 DEF KernelStep
<1>18. CASE Deadline  BY <1>18 DEF Deadline
<1>19. CASE PeerStep
  <2>1. CASE PeerTakes  BY <2>1 DEF PeerTakes
  <2>2. CASE PeerSends  BY <2>2 DEF PeerSends
  <2>3. CASE PeerCloses  BY <2>3 DEF PeerCloses
  <2> QED  BY <1>19, <2>1, <2>2, <2>3 DEF PeerStep
<1>20. CASE Done \/ UNCHANGED vars  BY <1>20 DEF Done, vars
<1> QED
  BY <1>1, <1>2, <1>3, <1>4, <1>5, <1>6, <1>7, <1>8, <1>9, <1>10, <1>11, <1>12, <1>13,
     <1>14, <1>15, <1>16, <1>17, <1>18, <1>19, <1>20 DEF Next, CallStep

(* Every reachable state of the call satisfies the inductive invariant.      *)
THEOREM Inductive == Spec => []IInv
<1>1. Spec => Init /\ [][Next]_vars  BY DEF Spec
<1> QED  BY <1>1, InitInv, NextInv, PTL

(* Each variable of the call has its type; in particular the bytes sent and  *)
(* read never pass the frame they belong to.                                 *)
THEOREM TypeCorrect == Spec => []TypeOK
<1>1. IInv => TypeOK  BY DEF IInv
<1> QED  BY <1>1, Inductive, PTL

(* On success the caller holds the whole reply, of this version and within   *)
(* the bound, to a request that left whole.                                  *)
THEOREM RepliesAreWhole == Spec => []ReplyIsWhole
<1>1. IInv => ReplyIsWhole
  BY SizeAssumption DEF IInv, TypeOK, Outcome, Reading, ReplyIsWhole, NotYet, Delivered
<1> QED  BY <1>1, Inductive, PTL

(* Past the deadline at most the one call already decided upon is made.      *)
THEOREM DeadlineIsAbsolute == Spec => []AtMostOneLateCall
<1>1. IInv => AtMostOneLateCall  BY DEF IInv, InTime, AtMostOneLateCall
<1> QED  BY <1>1, Inductive, PTL

(* No path out of the call leaves its socket open.                           *)
THEOREM SocketsAreClosed == Spec => []SocketIsClosed
<1>1. IInv => SocketIsClosed  BY DEF IInv, Outcome, SocketIsClosed
<1> QED  BY <1>1, Inductive, PTL

(* The errors that say the request did not leave whole are true.             *)
THEOREM UnsentIsTrue == Spec => []UnsentErrorsAreTrue
<1>1. IInv => UnsentErrorsAreTrue  BY DEF IInv, Outcome, UnsentErrorsAreTrue
<1> QED  BY <1>1, Inductive, PTL

(***************************************************************************)
(* The call is an Exchange: a send that completes the frame is Deliver, a  *)
(* return is Fail, Lose or Answer, and every other step is a stutter.      *)
(***************************************************************************)
LEMMA InitMaps == Init => Abstract!Init
  BY SizeAssumption DEF Init, Abstract!Init, Phase, Delivered, Frame

LEMMA StepMaps == IInv /\ [Next]_vars => [Abstract!Next]_Abstract!vars
<1> SUFFICES ASSUME IInv, [Next]_vars PROVE [Abstract!Next]_<<Phase, peer>>
  BY DEF Abstract!vars
<1>0. IInv'  BY NextInv
<1> USE SizeAssumption
<1> DEFINE Kept == UNCHANGED <<pc, err, wire, reqlen, peer>>
           Moved == pc # "done" /\ pc' # "done" /\ UNCHANGED <<wire, reqlen, peer>>
           Wrote == pc = "send" /\ pc' # "done" /\ UNCHANGED <<reqlen, peer>>
           Ended == pc # "done" /\ pc' = "done" /\ UNCHANGED <<wire, reqlen, peer>>
<1>1. Kept \/ Moved \/ Wrote \/ Ended
  <2> USE DEF Goto, Fail, Return, CloseReturn, callVars, dataVars, timeVars, peerVars
  <2>1. CASE Start \/ ConnectFails \/ Connect \/ Backlog \/ Nap \/ ConnectExpires
    BY <2>1 DEF Start, ConnectFails, Connect, Backlog, Nap, ConnectExpires
  <2>2. CASE Authenticate \/ WriteHead \/ Send \/ SendBlocks \/ SendBreaks \/ WaitOut
    BY <2>2 DEF Authenticate, WriteHead, Send, SendBlocks, SendBreaks, WaitOut
  <2>3. CASE \/ ReadHead \/ Recv \/ RecvBlocks \/ RecvEof \/ RecvBreaks \/ WaitIn
             \/ ReadFrame
    BY <2>3 DEF ReadHead, Recv, RecvBlocks, RecvEof, RecvBreaks, WaitIn, ReadFrame
  <2>4. CASE KernelStep \/ Deadline
    BY <2>4 DEF KernelStep, Connected, PollFails, ClockFails, Deadline
  <2>5. CASE PeerStep \/ Done \/ UNCHANGED vars
    BY <2>5 DEF PeerStep, PeerTakes, PeerSends, PeerCloses, Done, vars
  <2> QED  BY <2>1, <2>2, <2>3, <2>4, <2>5 DEF Next, CallStep
<1>2. CASE Kept \/ Moved  BY <1>2 DEF Phase, Delivered, Frame
<1>3. CASE Wrote
  <2>1. pc # "done" /\ ~Delivered /\ peer = RequiredUid /\ UNCHANGED peer
    BY <1>3 DEF IInv, TypeOK, Places, Sending, Receiving, Delivered, Frame
  <2>2. CASE Delivered'
    BY <1>3, <2>1, <2>2 DEF Phase, Abstract!Next, Abstract!Deliver
  <2>3. CASE ~Delivered'  BY <1>3, <2>1, <2>3 DEF Phase
  <2> QED  BY <2>2, <2>3
<1>4. CASE Ended
  <2>1. Delivered' = Delivered  BY <1>4 DEF Delivered, Frame
  <2>2. err' = "none" => Delivered'  BY <1>0, <1>4 DEF IInv, Outcome
  <2> QED
    BY <1>4, <2>1, <2>2 DEF Phase, Abstract!Next, Abstract!Fail, Abstract!Answer,
       Abstract!Lose
<1> QED  BY <1>1, <1>2, <1>3, <1>4

(* Whatever pieces the bytes move in and whenever the deadline or the peer   *)
(* cuts the call short, its caller sees one delivery at most, to the broker  *)
(* only, an answer only to a request that left, and one return.              *)
THEOREM CallIsAnExchange == Spec => ImplementsExchange
<1>1. Spec => Init /\ [][Next]_vars  BY DEF Spec
<1>2. Abstract!Spec <=> Abstract!Init /\ [][Abstract!Next]_Abstract!vars
  BY DEF Abstract!Spec
<1> QED
  BY <1>1, <1>2, Inductive, InitMaps, StepMaps, PTL DEF ImplementsExchange
=================================================================================
