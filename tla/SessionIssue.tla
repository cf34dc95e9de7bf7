----------------------------- MODULE SessionIssue ------------------------------
(***************************************************************************)
(* How one client gets its session: it connects to the session broker over *)
(* TCP, the two shake hands (TLS 1.2), a worker of the broker reserves a   *)
(* session, sends what the client needs in one TLS record, a close_notify  *)
(* after it, and ends its half of the connection; if any of that cannot be *)
(* sent the worker gives the session up.                                   *)
(*                                                                         *)
(* TCP is a stream: a record is Fragments pieces, and recv returns any     *)
(* number of those that have arrived.  Schannel is modelled by how the     *)
(* code uses it: a call consumes one whole message of the other side and   *)
(* hands back what follows it (SECBUFFER_EXTRA).                           *)
(***************************************************************************)
EXTENDS Integers, Sequences, SequencesExt

CONSTANTS
    Fragments,          \* into how many pieces a record may be cut
    ConnectAttempts,
    ReadsPastFinished   \* whether a recv of the handshake may return later bytes too

SessionIssueAssumption ==
    /\ {Fragments, ConnectAttempts} \subseteq Nat \ {0} /\ ReadsPastFinished \in BOOLEAN

VARIABLES
    toServer, toClient,     \* the pieces <<record, index>> under way
    serverFin, clientFin, reset,
    worker,                 \* what the worker of the broker does
    serverBuffer,           \* recvBuffer of the server's handshake
    unsent,                 \* the pieces SendAll has not sent yet
    reservation,
    client,
    attempts,
    clientBuffer,           \* recvBuffer of the handshake, then encryptedStream
    payloadComplete,
    socketOpen, bufferHeld, \* sessionBrokerSocket; the NetBuffer of TrySetTargetSessionInfo
    result                  \* what the client ends with

tcpVars == <<toServer, toClient, serverFin, clientFin, reset>>
serverVars == <<worker, serverBuffer, unsent, reservation>>
clientVars == <<client, attempts, clientBuffer, payloadComplete, socketOpen, bufferHeld, result>>
vars == <<tcpVars, serverVars, clientVars>>

Record(r) == [i \in 1 .. Fragments |-> <<r, i>>]
StartsWith(stream, r) == IsPrefix(Record(r), stream)
Rest(stream) == SubSeq(stream, Fragments + 1, Len(stream))

Init ==
    /\ toServer = << >> /\ toClient = << >> /\ serverFin = FALSE /\ clientFin = FALSE
    /\ reset = FALSE /\ worker = "off" /\ serverBuffer = << >> /\ unsent = << >> /\ reservation = "none"
    /\ client = "start" /\ attempts = 0 /\ clientBuffer = << >>
    /\ payloadComplete = FALSE /\ socketOpen = FALSE /\ bufferHeld = FALSE /\ result = "none"

-----------------------------------------------------------------------------
(* TCP.                                                                    *)

Reset ==
    /\ ~ reset /\ worker # "off" /\ reset' = TRUE /\ toServer' = << >> /\ toClient' = << >>
    /\ UNCHANGED <<serverFin, clientFin, serverVars, clientVars>>

\* What recv may return: a piece at least, and all that is there at most; or less
\* when the run lets no byte that follows the Finished of the server come with it.
Readable(stream) ==
    {n \in 1 .. Len(stream) :
        ReadsPastFinished \/ \A i \in 1 .. n - 1 : stream[i] # <<"Finished", Fragments>>}

-----------------------------------------------------------------------------
(* The client up to the end of the handshake.                              *)

ClientFails(stream) ==
    /\ client' = "done" /\ socketOpen' = FALSE /\ bufferHeld' = FALSE /\ result' = "failed"
    /\ clientFin' = TRUE /\ clientBuffer' = stream

\* SendHandshakeToken.
SendToken(stream, r) == stream \o Record(r)

\* The credentials of the client and its socket, or neither.
Initialize ==
    /\ client = "start"
    /\ \/ client' = "connect" /\ socketOpen' = TRUE
          /\ UNCHANGED <<bufferHeld, result, clientFin, clientBuffer>>
       \/ ClientFails(<< >>)
    /\ UNCHANGED <<toServer, toClient, serverFin, reset, serverVars, attempts, payloadComplete>>

\* The broker does not listen yet, or not any more.
ConnectFails ==
    /\ client = "connect" /\ attempts' = attempts + 1
    /\ IF attempts + 1 < ConnectAttempts
         THEN UNCHANGED <<client, socketOpen, bufferHeld, result, clientFin, clientBuffer>>
         ELSE ClientFails(<< >>)
    /\ UNCHANGED <<toServer, toClient, serverFin, reset, serverVars, payloadComplete>>

\* The first call of InitializeSecurityContext needs nothing from the server.
Connect ==
    /\ client = "connect" /\ client' = "hello"
    /\ toServer' = SendToken(toServer, "ClientHello") /\ worker' = "handshake"
    /\ UNCHANGED <<toClient, serverFin, clientFin, reset, serverBuffer, unsent, reservation,
                   attempts, clientBuffer, payloadComplete, socketOpen, bufferHeld, result>>

Received(n) == clientBuffer \o SubSeq(toClient, 1, n)

\* ReceiveHandshakeData, then InitializeSecurityContext with all that was received:
\* an incomplete message waits for more, the flight of the server is answered, its
\* Finished ends the handshake, and the buffer with it.
ClientHandshake ==
    /\ client \in {"hello", "finish"} /\ ~ reset
    /\ \E n \in Readable(toClient) :
         LET stream == Received(n)
             expected == IF client = "hello" THEN "ServerHello" ELSE "Finished" IN
         /\ toClient' = SubSeq(toClient, n + 1, Len(toClient))
         /\ IF ~ StartsWith(stream, expected)
              THEN clientBuffer' = stream /\ UNCHANGED <<client, toServer, bufferHeld>>
            ELSE IF client = "hello"
              THEN /\ client' = "finish" /\ clientBuffer' = Rest(stream)
                   /\ toServer' = SendToken(toServer, "ClientFinished")
                   /\ UNCHANGED bufferHeld
              ELSE /\ client' = "receive" /\ clientBuffer' = << >> /\ bufferHeld' = TRUE
                   /\ UNCHANGED toServer
    /\ UNCHANGED <<serverFin, clientFin, reset, serverVars, attempts, payloadComplete,
                   socketOpen, result>>

ClientHandshakeFails ==
    /\ client \in {"hello", "finish"}
    /\ reset \/ (toClient = << >> /\ serverFin)
    /\ ClientFails(clientBuffer)
    /\ UNCHANGED <<toServer, toClient, serverFin, reset, serverVars, attempts, payloadComplete>>

-----------------------------------------------------------------------------
(* TrySetTargetSessionInfo.                                                *)

InfoRecord == IF reservation = "refused" THEN "Refused" ELSE "Info"

\* DecryptDataStream: every record that is complete, in the order it was encrypted.
\* A record out of its place, or one whose beginning is lost, does not decrypt.
HoldsInfo(stream) == ~ payloadComplete /\ StartsWith(stream, InfoRecord)

AfterInfo(stream) == IF HoldsInfo(stream) THEN Rest(stream) ELSE stream
HoldsClose(stream) ==
    (payloadComplete \/ HoldsInfo(stream)) /\ StartsWith(AfterInfo(stream), "CloseNotify")
Decrypts(stream) ==
    IsPrefix(stream, (IF payloadComplete THEN << >> ELSE Record(InfoRecord))
                        \o Record("CloseNotify"))

\* SetTargetSessionInfo: the first byte of the payload is the result code.
Accepted == IF InfoRecord = "Info" THEN "session" ELSE "refused"

Leave(outcome) ==
    /\ client' = "done" /\ socketOpen' = FALSE /\ clientFin' = TRUE
    /\ bufferHeld' = FALSE /\ result' = outcome

ReceiveInfo ==
    /\ client = "receive" /\ ~ reset
    /\ \E n \in 1 .. Len(toClient) :
         LET stream == Received(n) IN
         /\ toClient' = SubSeq(toClient, n + 1, Len(toClient))
         /\ payloadComplete' = (payloadComplete \/ HoldsInfo(stream))
         /\ clientBuffer' = AfterInfo(stream)
         /\ IF ~ Decrypts(stream) THEN Leave("failed")
            ELSE IF HoldsClose(stream) THEN Leave(Accepted)
            ELSE UNCHANGED <<client, socketOpen, clientFin, bufferHeld, result>>
    /\ UNCHANGED <<toServer, serverFin, reset, serverVars, attempts>>

ReceiveEnds ==
    /\ client = "receive" /\ ~ reset /\ toClient = << >> /\ serverFin
    /\ Leave(IF payloadComplete THEN Accepted ELSE "failed")
    /\ UNCHANGED <<toServer, toClient, serverFin, reset, serverVars, attempts, clientBuffer,
                   payloadComplete>>

ReceiveFails ==
    /\ client = "receive" /\ reset
    /\ ClientFails(clientBuffer)
    /\ UNCHANGED <<toServer, toClient, serverFin, reset, serverVars, attempts, payloadComplete>>

-----------------------------------------------------------------------------
(* HandleClientConnection, on a worker of the broker.                      *)

ServerHandshake ==
    /\ worker \in {"handshake", "finish"} /\ ~ reset
    /\ \E n \in 1 .. Len(toServer) :
         LET stream == serverBuffer \o SubSeq(toServer, 1, n)
             expected == IF worker = "handshake" THEN "ClientHello" ELSE "ClientFinished" IN
         /\ toServer' = SubSeq(toServer, n + 1, Len(toServer))
         /\ IF ~ StartsWith(stream, expected)
              THEN serverBuffer' = stream /\ UNCHANGED <<worker, toClient>>
              ELSE /\ serverBuffer' = Rest(stream)
                   /\ worker' = IF worker = "handshake" THEN "finish" ELSE "reserve"
                   /\ toClient' = SendToken(toClient,
                        IF worker = "handshake" THEN "ServerHello" ELSE "Finished")
    /\ UNCHANGED <<serverFin, clientFin, reset, unsent, reservation, clientVars>>

CloseSocket == worker' = "done" /\ serverFin' = TRUE

\* The certificate cannot be loaded, from the store or from the file.
ServerInitializeFails ==
    /\ worker = "handshake" /\ serverBuffer = << >> /\ CloseSocket
    /\ UNCHANGED <<toServer, toClient, clientFin, reset, serverBuffer, unsent, reservation,
                   clientVars>>

ServerHandshakeFails ==
    /\ worker \in {"handshake", "finish"}
    /\ reset \/ (toServer = << >> /\ clientFin)
    /\ CloseSocket
    /\ UNCHANGED <<toServer, toClient, clientFin, reset, serverBuffer, unsent, reservation,
                   clientVars>>

\* ReserveSession, then EncryptData of its answer, which is an error code when no
\* session could be had.  When it fails nothing is sent, and the session is given back.
Reserve ==
    /\ worker = "reserve"
    /\ \/ /\ worker' = "send" /\ UNCHANGED serverFin
          /\ reservation' \in {"reserved", "refused"}
          /\ unsent' = Record(IF reservation' = "reserved" THEN "Info" ELSE "Refused")
       \/ /\ CloseSocket /\ UNCHANGED unsent
          /\ reservation' \in {"aborted", "refused"}
    /\ UNCHANGED <<toServer, toClient, clientFin, reset, serverBuffer, clientVars>>

SendAll ==
    /\ worker \in {"send", "close"} /\ ~ reset /\ unsent # << >>
    /\ toClient' = Append(toClient, Head(unsent)) /\ unsent' = Tail(unsent)
    /\ UNCHANGED <<toServer, serverFin, clientFin, reset, worker, serverBuffer, reservation,
                   clientVars>>

\* EncryptCloseNotify may fail; then none is sent and the answer counts as given.
EncryptCloseNotify ==
    /\ worker = "send" /\ unsent = << >> /\ worker' = "close"
    /\ unsent' \in {<< >>, Record("CloseNotify")}
    /\ UNCHANGED <<tcpVars, serverBuffer, reservation, clientVars>>

Shutdown ==
    /\ worker = "close" /\ unsent = << >> /\ worker' = "drain" /\ serverFin' = TRUE
    /\ UNCHANGED <<toServer, toClient, clientFin, reset, serverBuffer, unsent, reservation,
                   clientVars>>

\* recv ends with the connection, or after tlsShutdownTimeout.
Drain ==
    /\ worker = "drain" /\ CloseSocket
    /\ UNCHANGED <<toServer, toClient, clientFin, reset, serverBuffer, unsent, reservation,
                   clientVars>>

SendFails ==
    /\ worker \in {"send", "close"} /\ reset /\ unsent # << >> /\ CloseSocket
    /\ reservation' = IF reservation = "reserved" THEN "aborted" ELSE reservation
    /\ UNCHANGED <<toServer, toClient, clientFin, reset, serverBuffer, unsent, clientVars>>

-----------------------------------------------------------------------------
ClientStep ==
    \/ Initialize \/ Connect \/ ClientHandshake \/ ClientHandshakeFails
    \/ ReceiveInfo \/ ReceiveEnds \/ ReceiveFails

ServerStep ==
    \/ ServerHandshake \/ ServerHandshakeFails \/ Reserve \/ SendAll \/ EncryptCloseNotify
    \/ Shutdown \/ Drain \/ SendFails

Next == ClientStep \/ ServerStep \/ ConnectFails \/ ServerInitializeFails \/ Reset

\* Both threads are scheduled; what was sent arrives unless the connection breaks.
Fairness == WF_vars(ClientStep) /\ WF_vars(ServerStep)

Spec == Init /\ [][Next]_vars /\ Fairness

-----------------------------------------------------------------------------
TypeOK ==
    /\ worker \in {"off", "handshake", "finish", "reserve", "send", "close", "drain", "done"}
    /\ client \in {"start", "connect", "hello", "finish", "receive", "done"}
    /\ reservation \in {"none", "reserved", "refused", "aborted"}
    /\ result \in {"none", "session", "refused", "failed"}
    /\ attempts \in 0 .. ConnectAttempts
    /\ Len(clientBuffer) <= 3 * Fragments /\ Len(unsent) <= Fragments
    /\ {serverFin, clientFin, reset, payloadComplete, socketOpen, bufferHeld} \subseteq BOOLEAN

\* A client that goes on with a session has one the server keeps for it: its answer
\* was sent whole and the worker has not given the reservation up, however the stream
\* was cut and wherever the connection broke.
AcceptedIsReserved == result = "session" =>
    reservation = "reserved" /\ payloadComplete /\ worker \in {"close", "drain", "done"}

\* A client that is done has returned its socket and its buffer on every path.
ClientReturnsAll == client = "done" => ~ socketOpen /\ ~ bufferHeld /\ result # "none"

\* Neither side waits for the other for ever: a connection that was made ends on both.
Ended == worker # "off" => worker = "done" /\ client = "done"

\* A session that stays reserved for a client whose connection does not break is taken
\* by that client.
Taken == reservation # "reserved" \/ result = "session" \/ reset
IssuedIsTaken == []<>Taken

=============================================================================
