----------------------------- MODULE TcpFraming -----------------------------
(***************************************************************************)
(* Messages over a TCP connection (TcpMsgStream): each is sent as its      *)
(* length and its bytes, with writes that block, and is put together again *)
(* from reads that do not block and return any number of bytes.  Each end  *)
(* is one thread, which either sends or receives.                          *)
(*                                                                         *)
(* The bytes given to write_all are kept in one sequence per direction;    *)
(* how many of them are in the kernel, and how many have been read, are    *)
(* counted.  Room is what the buffers between the ends hold.               *)
(***************************************************************************)
EXTENDS Integers, Sequences

CONSTANTS
    Bytes, Zero,    \* the values of a byte, and that of a fresh buffer
    Msgs,           \* serialized messages: not empty, an enum has a tag
    LenBytes,       \* LEN_BYTES
    ToBytes,        \* u64::to_be_bytes
    FromBytes,      \* u64::from_be_bytes
    Room,           \* bytes the kernel buffers hold
    MaxSends        \* bound: messages per end

ASSUME FramingAssumption ==
    /\ Zero \in Bytes
    /\ Msgs \subseteq Seq(Bytes) \ {<< >>}
    /\ LenBytes \in Nat \ {0}
    /\ Room \in Nat \ {0}
    /\ MaxSends \in Nat
    /\ \A m \in Msgs : /\ ToBytes[Len(m)] \in [1..LenBytes -> Bytes]
                       /\ FromBytes[ToBytes[Len(m)]] = Len(m)
    /\ FromBytes \in [[1..LenBytes -> Bytes] -> Nat]

Ends == {"client", "server"}
Other(e) == IF e = "client" THEN "server" ELSE "client"

VARIABLES
    at,       \* what the thread of each end does
    stream,   \* the bytes each end has given to write_all
    written,  \* how many of them are in the kernel
    read,     \* how many bytes of the other end each end has read
    lenArr, lenRead, cached, cachedCount, \* the fields of TcpMsgStream
    sent, got, \* history: the messages
    starts    \* history: where in the stream each message starts, and the next

sendVars == <<stream, written, sent, starts>>
recvVars == <<read, lenArr, lenRead, cached, cachedCount, got>>
vars == <<at, sendVars, recvVars>>

Zeros(n) == [i \in 1..n |-> Zero]

Init ==
    /\ at = [e \in Ends |-> "idle"]
    /\ stream = [e \in Ends |-> << >>]
    /\ written = [e \in Ends |-> 0] /\ read = [e \in Ends |-> 0]
    /\ lenArr = [e \in Ends |-> Zeros(LenBytes)]
    /\ lenRead = [e \in Ends |-> 0]
    /\ cached = [e \in Ends |-> << >>]
    /\ cachedCount = [e \in Ends |-> 0]
    /\ sent = [e \in Ends |-> << >>] /\ got = [e \in Ends |-> << >>]
    /\ starts = [e \in Ends |-> <<0>>]

\* What has arrived at e and is not read yet.
Available(e) == written[Other(e)] - read[e]

\* buf with the next k bytes that arrive at e written from position n on.
Filled(e, buf, n, k) ==
    [i \in 1..Len(buf) |->
        IF i \in (n + 1)..(n + k) THEN stream[Other(e)][read[e] + i - n] ELSE buf[i]]

-----------------------------------------------------------------------------
(* send_msg *)

Frame(m) == ToBytes[Len(m)] \o m

Send(e, m) ==
    /\ at[e] = "idle"
    /\ Len(sent[e]) < MaxSends
    /\ at' = [at EXCEPT ![e] = "sending"]
    /\ stream' = [stream EXCEPT ![e] = @ \o Frame(m)]
    /\ sent' = [sent EXCEPT ![e] = Append(@, m)]
    /\ starts' = [starts EXCEPT ![e] = Append(@, Len(stream[e]) + LenBytes + Len(m))]
    /\ UNCHANGED <<written, recvVars>>

\* write_all goes on when there is room.
WriteAll(e) ==
    /\ at[e] = "sending"
    /\ \E k \in 1..(Len(stream[e]) - written[e]) :
          /\ written[e] + k - read[Other(e)] <= Room
          /\ written' = [written EXCEPT ![e] = @ + k]
          /\ at' = [at EXCEPT ![e] =
                       IF written[e] + k = Len(stream[e]) THEN "idle" ELSE @]
    /\ UNCHANGED <<stream, sent, starts, recvVars>>

-----------------------------------------------------------------------------
(* try_recv_msg *)

\* Mutant: a length that did not come at once is begun again.
KeptOfLen(n) == IF n = LenBytes THEN n ELSE 0

\* How much of the length is kept for the next call.
LenRead(n) == n

\* A part of the length; with all of it the call goes on to the body.
ReadLen(e) ==
    /\ at[e] = "idle" /\ lenRead[e] < LenBytes
    /\ \E k \in 1..(LenBytes - lenRead[e]) :
          /\ k <= Available(e)
          /\ lenArr' = [lenArr EXCEPT ![e] = Filled(e, @, lenRead[e], k)]
          /\ lenRead' = [lenRead EXCEPT ![e] = LenRead(@ + k)]
          /\ read' = [read EXCEPT ![e] = @ + k]
          /\ at' = [at EXCEPT ![e] = IF lenRead[e] + k = LenBytes THEN "body" ELSE "idle"]
    /\ UNCHANGED <<sendVars, cached, cachedCount, got>>

\* Mutant: what was read of a body is forgotten when the rest is not there yet.
BufferAnew(e) == Zeros(FromBytes[lenArr[e]])

\* The buffer of the body is made when the length is known, and kept.
Buffer(e) ==
    IF Len(cached[e]) = FromBytes[lenArr[e]] THEN cached[e]
    ELSE Zeros(FromBytes[lenArr[e]])

\* A part of the body, nothing if nothing is there.
ReadBody(e) ==
    /\ at[e] \in {"idle", "body"} /\ lenRead[e] = LenBytes
    /\ \E k \in 0..(Len(Buffer(e)) - cachedCount[e]) :
          /\ k <= Available(e) /\ (k = 0 => Available(e) = 0)
          /\ read' = [read EXCEPT ![e] = @ + k]
          /\ LET buf == Filled(e, Buffer(e), cachedCount[e], k)
                 whole == cachedCount[e] + k = Len(buf)
             IN  /\ cached' = [cached EXCEPT ![e] = IF whole THEN << >> ELSE buf]
                 /\ cachedCount' = [cachedCount EXCEPT ![e] = IF whole THEN 0 ELSE @ + k]
                 /\ lenRead' = [lenRead EXCEPT ![e] = IF whole THEN 0 ELSE @]
                 /\ got' = [got EXCEPT ![e] = IF whole THEN Append(@, buf) ELSE @]
    /\ at' = [at EXCEPT ![e] = "idle"]
    /\ UNCHANGED <<sendVars, lenArr>>

-----------------------------------------------------------------------------
\* An end is no more: its program ended, or a write failed because the other
\* end is no more.  The other one, if it only reads, is not told: a read at the
\* end of file returns 0, which is like nothing having come.
Leave(e) ==
    /\ at[e] # "gone"
    /\ at' = [at EXCEPT ![e] = "gone"]
    /\ UNCHANGED <<sendVars, recvVars>>

Step(e) == WriteAll(e) \/ ReadLen(e) \/ ReadBody(e)

Next == \E e \in Ends : Step(e) \/ Leave(e) \/ \E m \in Msgs : Send(e, m)

Spec == Init /\ [][Next]_vars

\* Both ends poll their streams as long as they run (Server::tick, run_loop).
FairSpec == Spec /\ \A e \in Ends : WF_vars(Step(e))

-----------------------------------------------------------------------------
Channel == INSTANCE MsgChannel

\* The stream implements the channel of messages that the server and the client
\* use (trait MsgStream).
ImplementsChannel == Channel!Spec

\* Both ends are in write_all and neither has room: they wait for each other.
Clinch == \A e \in Ends : at[e] = "sending" /\ written[e] - read[Other(e)] = Room

\* A message that was sent arrives, unless an end goes away or both fill the
\* buffers at the same time: no partial read is ever the last one.
MessagesArrive ==
    \A e \in Ends : \A n \in 1..MaxSends :
       Len(sent[e]) = n ~> \/ Len(got[Other(e)]) >= n
                           \/ Clinch
                           \/ \E f \in Ends : at[f] = "gone"
=============================================================================
