-------------------------- MODULE NetworkInstance --------------------------
(***************************************************************************)
(* network_instance (defs_network.h): one end of a TCP connection.  Some   *)
(* instances of one process, each on a thread of its own, share its table  *)
(* of descriptors with whatever other files it opens; an instance keeps    *)
(* descriptor numbers, also of descriptors it has closed.                  *)
(*                                                                         *)
(* The peers at the other ends run the same code.  Every failure but that  *)
(* of a name lookup has a code of two or more, which is not a legal one.   *)
(***************************************************************************)
EXTENDS DebugStatus, FiniteSets, SequencesExt

CONSTANTS
  Instances,      \* the objects of the process
  Descriptors,    \* the table of the process: a range of numbers
  HeaderSize,     \* NETWORK_INSTANCE_SIZE_BUFFERp, 256 in the code
  BufferSize,     \* bytes of network_size_buffer, 6 in the code
  Sizes,          \* sizes of payloads sent
  Uninitialised,  \* bytes that a buffer may hold before it is written
  MaxInbox,       \* bound on the bytes that wait at sockets
  Reparameterise  \* whether setParameters is called on an established instance

ASSUME NetworkAssumption ==
  /\ Descriptors \subseteq Nat /\ Descriptors # {} /\ IsFiniteSet(Descriptors)
  /\ BufferSize \in Nat \ {0} /\ HeaderSize \in Nat /\ BufferSize < HeaderSize
  /\ Sizes \subseteq 0 .. 99 /\ Uninitialised \subseteq 0 .. 11
  /\ MaxInbox \in Nat
  /\ Reparameterise \in BOOLEAN

VARIABLES
  network_connection_ready,
  network_connection_is_client,
  network_connection_established,
  network_socket_descriptor,
  network_established_socket_descriptor,
  network_size_buffer,
  accepting, \* whether the instance's thread waits in accept
  kernel,    \* external: what each descriptor is
  inbox,     \* external: the bytes that wait to be read from each descriptor
  received   \* the payload the last receive returned

flagVars == <<network_connection_ready, network_connection_is_client,
              network_connection_established>>
descriptorVars == <<network_socket_descriptor, network_established_socket_descriptor>>
kernelVars == <<kernel, inbox>>
stateVars == <<flagVars, descriptorVars, network_size_buffer, accepting,
               kernelVars, received>>
vars == <<stateVars, debugVars>>

network_local_errors ==
  <<"Cannot obtain server address information", "Cannot obtain client address",
    "Cannot open socket", "Cannot bind", "Cannot accept connection",
    "Cannot connect">>

cannot_obtain_server_address == 0
cannot_obtain_client_address == 1
cannot_open_socket == 2
cannot_bind == 3
cannot_accept_connection == 4
cannot_connect == 5

fail(code) == setReturnCode(network_local_errors, code)

(***************************************************************************)
(* "closing" is a connected socket whose peer has closed its end.          *)
(***************************************************************************)
DescriptorStates == {"free", "file", "socket", "listening", "connected", "closing"}

IsConnected(d) == kernel[d] \in {"connected", "closing"}

Free == {d \in Descriptors : kernel[d] = "free"}

LowestFree == Min(Free)

(***************************************************************************)
(* The bytes of a stream: digits, the bytes that follow the text of a size *)
(* in its header, and those of payloads.                                   *)
(***************************************************************************)
Digits == 0 .. 9
Pad == 10
Data == 11
Garbage == 12 \* of memory that was allocated and not written

Bytes == Digits \cup {Pad, Data}

Copies(byte, n) == [i \in 1 .. n |-> byte]

(***************************************************************************)
(* sprintf(buffer, "%d", n), without the zero that ends the string; atoi   *)
(* takes the digits it finds at the start.                                 *)
(***************************************************************************)
Decimal(n) == IF n < 10 THEN <<n>> ELSE <<n \div 10, n % 10>>

atoi(buffer) ==
  LET leading == {k \in 0 .. Len(buffer) : \A i \in 1 .. k : buffer[i] \in Digits}
      digits  == SubSeq(buffer, 1, CHOOSE k \in leading : \A j \in leading : j <= k)
  IN  FoldLeft(LAMBDA value, digit : 10 * value + digit, 0, digits)

Header(size) == Decimal(size) \o Copies(Pad, HeaderSize - Len(Decimal(size)))

Payload(size) == Copies(Data, size)

Running(i) == process = "running" /\ ~ accepting[i]

Abort ==
  /\ process' = "aborted"
  /\ UNCHANGED <<stateVars, debug_class_return_code>>

Undefined ==
  /\ process' = "undefined"
  /\ UNCHANGED <<stateVars, debug_class_return_code>>

Fail(code) == fail(code) /\ UNCHANGED stateVars

(***************************************************************************)
(* The constructor clears the flags; the rest is not initialised, and no   *)
(* operation uses a descriptor before it is set.                           *)
(***************************************************************************)
AnyDescriptor == CHOOSE d \in Descriptors : TRUE

Init ==
  /\ InitDebug
  /\ network_connection_ready = [i \in Instances |-> FALSE]
  /\ network_connection_is_client = [i \in Instances |-> FALSE]
  /\ network_connection_established = [i \in Instances |-> FALSE]
  /\ network_socket_descriptor = [i \in Instances |-> AnyDescriptor]
  /\ network_established_socket_descriptor = [i \in Instances |-> AnyDescriptor]
  /\ \E byte \in Uninitialised :
       network_size_buffer = [i \in Instances |-> Copies(byte, BufferSize)]
  /\ accepting = [i \in Instances |-> FALSE]
  /\ kernel = [d \in Descriptors |-> "free"]
  /\ inbox = [d \in Descriptors |-> <<>>]
  /\ received = <<>>

----------------------------------------------------------------------------
(***************************************************************************)
(* setParameters looks both names up, then opens a socket: the descriptor  *)
(* of an earlier call is forgotten, not closed.  A code is set in any      *)
(* case, cannot_obtain_server_address when all went well.  The code has no *)
(* check that the instance is not established: that it is not called on    *)
(* one is an assumption on the callers, made when Reparameterise is FALSE. *)
(***************************************************************************)
LookedUp(client_known) ==
  fail(IF client_known THEN cannot_obtain_server_address
                       ELSE cannot_obtain_client_address)

initConnection(i) ==
  /\ network_socket_descriptor' = [network_socket_descriptor EXCEPT ![i] = LowestFree]
  /\ kernel' = [kernel EXCEPT ![LowestFree] = "socket"]
  /\ network_connection_ready' = [network_connection_ready EXCEPT ![i] = TRUE]

setParameters(i, client_known, server_known) ==
  /\ Running(i)
  /\ network_connection_established[i] => Reparameterise
  /\ IF client_known /\ server_known
       THEN IF Free = {}
         THEN Fail(cannot_open_socket)
         ELSE /\ initConnection(i)
              /\ LookedUp(client_known)
              /\ UNCHANGED <<network_connection_is_client,
                             network_connection_established,
                             network_established_socket_descriptor,
                             network_size_buffer, accepting, inbox, received>>
       ELSE /\ network_connection_ready' = [network_connection_ready EXCEPT ![i] = FALSE]
            /\ LookedUp(client_known)
            /\ UNCHANGED <<network_connection_is_client, network_connection_established,
                           descriptorVars, network_size_buffer, accepting, kernelVars,
                           received>>

(***************************************************************************)
(* acceptConnection up to the accept it waits in.  bind refuses what is no *)
(* socket and a socket that is bound, as a listening or connected one is,  *)
(* and any socket when the port is taken.                                  *)
(***************************************************************************)
acceptConnection(i) ==
  LET d == network_socket_descriptor[i]
  IN  /\ Running(i)
      /\ IF ~ network_connection_ready[i]
           THEN Abort
           ELSE \/ Fail(cannot_bind)
                \/ /\ kernel[d] = "socket"
                   /\ kernel' = [kernel EXCEPT ![d] = "listening"]
                   /\ accepting' = [accepting EXCEPT ![i] = TRUE]
                   /\ network_connection_established' =
                        [network_connection_established EXCEPT ![i] = FALSE]
                   /\ network_connection_is_client' =
                        [network_connection_is_client EXCEPT ![i] = FALSE]
                   /\ UNCHANGED <<network_connection_ready, descriptorVars,
                                  network_size_buffer, inbox, received,
                                  debugVars>>

(***************************************************************************)
(* A peer connects, and accept gives the connection a descriptor.          *)
(***************************************************************************)
accepted(i) ==
  /\ process = "running" /\ accepting[i]
  /\ IF Free = {}
       THEN Fail(cannot_accept_connection)
       ELSE /\ accepting' = [accepting EXCEPT ![i] = FALSE]
            /\ network_established_socket_descriptor' =
                 [network_established_socket_descriptor EXCEPT ![i] = LowestFree]
            /\ kernel' = [kernel EXCEPT ![LowestFree] = "connected"]
            /\ network_connection_established' =
                 [network_connection_established EXCEPT ![i] = TRUE]
            /\ UNCHANGED <<network_connection_ready, network_connection_is_client,
                           network_socket_descriptor, network_size_buffer, inbox,
                           received, debugVars>>

(***************************************************************************)
(* Mutant of startConnection: the result of connect is not looked at.      *)
(***************************************************************************)
startUnchecked(i) ==
  /\ Running(i)
  /\ network_connection_ready[i] /\ ~ network_connection_established[i]
  /\ kernel' = [kernel EXCEPT ![network_socket_descriptor[i]] =
                  IF @ = "socket" THEN "connected" ELSE @]
  /\ network_connection_is_client' = [network_connection_is_client EXCEPT ![i] = TRUE]
  /\ network_connection_established' =
       [network_connection_established EXCEPT ![i] = TRUE]
  /\ UNCHANGED <<network_connection_ready, descriptorVars, network_size_buffer,
                 accepting, inbox, received, debugVars>>

(***************************************************************************)
(* connect refuses what is no socket and a socket that listens or is       *)
(* connected, and fails when no peer listens.                              *)
(***************************************************************************)
startConnection(i) ==
  LET d == network_socket_descriptor[i]
  IN  /\ Running(i)
      /\ IF ~ (network_connection_ready[i] /\ ~ network_connection_established[i])
           THEN Abort
           ELSE \/ Fail(cannot_connect)
                \/ /\ kernel[d] = "socket"
                   /\ kernel' = [kernel EXCEPT ![d] = "connected"]
                   /\ network_connection_is_client' =
                        [network_connection_is_client EXCEPT ![i] = TRUE]
                   /\ network_connection_established' =
                        [network_connection_established EXCEPT ![i] = TRUE]
                   /\ UNCHANGED <<network_connection_ready, descriptorVars,
                                  network_size_buffer, accepting, inbox,
                                  received, debugVars>>

(***************************************************************************)
(* Mutant of Held: a server closes one of its two descriptors.             *)
(***************************************************************************)
HeldListening(i) == {network_socket_descriptor[i]}

(***************************************************************************)
(* The descriptors that terminateConnection closes.                        *)
(***************************************************************************)
Held(i) ==
  {network_socket_descriptor[i]} \cup
  (IF network_connection_is_client[i]
     THEN {} ELSE {network_established_socket_descriptor[i]})

(***************************************************************************)
(* terminateConnection leaves the instance ready, with the numbers of the  *)
(* descriptors it has closed.  One step, although other threads run        *)
(* between its calls of close: no thread but the instance's own reads the  *)
(* flag, and to the others a descriptor that is still to be closed is one  *)
(* that they are not given and can neither bind nor connect, the same as   *)
(* if another file of the process had taken it (OpenFile, CloseFile).      *)
(***************************************************************************)
terminateConnection(i) ==
  /\ Running(i)
  /\ IF ~ network_connection_established[i]
       THEN Abort
       ELSE /\ kernel' = [d \in Descriptors |->
                            IF d \in Held(i) THEN "free" ELSE kernel[d]]
            /\ inbox' = [d \in Descriptors |->
                           IF d \in Held(i) THEN <<>> ELSE inbox[d]]
            /\ network_connection_established' =
                 [network_connection_established EXCEPT ![i] = FALSE]
            /\ UNCHANGED <<network_connection_ready, network_connection_is_client,
                           descriptorVars, network_size_buffer, accepting, received,
                           debugVars>>

----------------------------------------------------------------------------
(***************************************************************************)
(* The descriptor that sending and receiving use.                          *)
(***************************************************************************)
network_descriptor(i) ==
  IF network_connection_is_client[i]
    THEN network_socket_descriptor[i]
    ELSE network_established_socket_descriptor[i]

(***************************************************************************)
(* The first bytes of a buffer overwritten.                                *)
(***************************************************************************)
Overwritten(buffer, bytes) ==
  [k \in 1 .. Len(buffer) |-> IF k <= Len(bytes) THEN bytes[k] ELSE buffer[k]]

(***************************************************************************)
(* sendToConnection prints the size into the buffer, which a longer number *)
(* overflows, and writes HeaderSize bytes from there and the payload.  The *)
(* bytes past the buffer are whatever follows it in memory: padding in     *)
(* Header, as all that is ever told of them is that they are no payload.   *)
(* Of two writes to a peer that has closed its end, the second may raise   *)
(* SIGPIPE, which ends the process.                                        *)
(***************************************************************************)
sendToConnection(i, size) ==
  /\ Running(i)
  /\ IF ~ network_connection_established[i]
       THEN Abort
       ELSE IF Len(Decimal(size)) >= BufferSize
         THEN Undefined
         ELSE \/ /\ network_size_buffer' =
                      [network_size_buffer EXCEPT
                         ![i] = Overwritten(@, Append(Decimal(size), Pad))]
                 /\ UNCHANGED <<flagVars, descriptorVars, accepting, kernelVars,
                                received, debugVars>>
              \/ kernel[network_descriptor(i)] = "closing" /\ Abort

(***************************************************************************)
(* read(d, buffer, count) returns at least a byte, and none only when the  *)
(* peer has closed its end; otherwise it waits.                            *)
(***************************************************************************)
ReadCounts(bytes, count, d) ==
  IF bytes # <<>> THEN {n \in DOMAIN bytes : n <= count}
                  ELSE IF kernel[d] = "closing" THEN {0} ELSE {}

Rest(bytes, n) == SubSeq(bytes, n + 1, Len(bytes))

(***************************************************************************)
(* receiveFromConnection reads HeaderSize bytes into the smaller buffer,   *)
(* takes what stands there for the size, and reads the payload once.  The  *)
(* second read takes no byte when the size is zero.                        *)
(***************************************************************************)
receiveFromConnection(i) ==
  LET d == network_descriptor(i)
  IN  /\ Running(i)
      /\ IF ~ network_connection_established[i]
           THEN Abort
           ELSE \E n \in ReadCounts(inbox[d], HeaderSize, d) :
             IF n > BufferSize
               THEN Undefined
               ELSE LET buffer == Overwritten(network_size_buffer[i],
                                              SubSeq(inbox[d], 1, n))
                        size == atoi(buffer)
                        rest == Rest(inbox[d], n)
                    IN  \E taken \in IF size = 0 THEN {0}
                                       ELSE ReadCounts(rest, size, d) :
                          /\ network_size_buffer' =
                               [network_size_buffer EXCEPT ![i] = buffer]
                          /\ received' = [k \in 1 .. size |->
                               IF k \in 1 .. taken THEN rest[k] ELSE Garbage]
                          /\ inbox' = [inbox EXCEPT ![d] = Rest(rest, taken)]
                          /\ UNCHANGED <<flagVars, descriptorVars, accepting, kernel,
                                         debugVars>>

----------------------------------------------------------------------------
(***************************************************************************)
(* External: the peers, and other files of the process.                    *)
(***************************************************************************)
BytesInFlight == UNION {{d} \X DOMAIN inbox[d] : d \in Descriptors}

PeerSends(d, size) ==
  /\ process = "running"
  /\ kernel[d] = "connected"
  /\ Len(Decimal(size)) < BufferSize
  /\ Cardinality(BytesInFlight) + HeaderSize + size <= MaxInbox
  /\ inbox' = [inbox EXCEPT ![d] = @ \o Header(size) \o Payload(size)]
  /\ UNCHANGED <<flagVars, descriptorVars, network_size_buffer, accepting, kernel,
                 received, debugVars>>

PeerCloses(d) ==
  /\ process = "running"
  /\ kernel[d] = "connected"
  /\ kernel' = [kernel EXCEPT ![d] = "closing"]
  /\ UNCHANGED <<flagVars, descriptorVars, network_size_buffer, accepting, inbox,
                 received, debugVars>>

OpenFile ==
  /\ process = "running" /\ Free # {}
  /\ kernel' = [kernel EXCEPT ![LowestFree] = "file"]
  /\ UNCHANGED <<flagVars, descriptorVars, network_size_buffer, accepting, inbox,
                 received, debugVars>>

CloseFile(d) ==
  /\ process = "running" /\ kernel[d] = "file"
  /\ kernel' = [kernel EXCEPT ![d] = "free"]
  /\ UNCHANGED <<flagVars, descriptorVars, network_size_buffer, accepting, inbox,
                 received, debugVars>>

Next ==
  \/ \E i \in Instances, c, s \in BOOLEAN : setParameters(i, c, s)
  \/ \E i \in Instances : acceptConnection(i) \/ accepted(i)
  \/ \E i \in Instances : startConnection(i) \/ terminateConnection(i)
  \/ \E i \in Instances, n \in Sizes : sendToConnection(i, n)
  \/ \E i \in Instances : receiveFromConnection(i)
  \/ \E d \in Descriptors, n \in Sizes : PeerSends(d, n)
  \/ \E d \in Descriptors : PeerCloses(d) \/ CloseFile(d)
  \/ OpenFile

Spec == Init /\ [][Next]_vars

----------------------------------------------------------------------------
(***************************************************************************)
(* Type invariant.                                                         *)
(***************************************************************************)
TypeOK ==
  /\ network_connection_ready \in [Instances -> BOOLEAN]
  /\ network_connection_is_client \in [Instances -> BOOLEAN]
  /\ network_connection_established \in [Instances -> BOOLEAN]
  /\ network_socket_descriptor \in [Instances -> Descriptors]
  /\ network_established_socket_descriptor \in [Instances -> Descriptors]
  /\ accepting \in [Instances -> BOOLEAN]
  /\ kernel \in [Descriptors -> DescriptorStates]
  /\ \A i \in Instances : /\ Len(network_size_buffer[i]) = BufferSize
                          /\ Range(network_size_buffer[i]) \subseteq Bytes
  /\ \A d \in Descriptors : /\ Range(inbox[d]) \subseteq Bytes
                            /\ inbox[d] # <<>> => IsConnected(d)
  /\ Range(received) \subseteq Bytes \cup {Garbage}
  /\ debug_class_return_code \in {NotSet} \cup LegalCodes(6)
  /\ process \in ProcessStates

(***************************************************************************)
(* The descriptor an established instance sends to and receives from is a  *)
(* connected socket that no other established instance holds, although     *)
(* terminateConnection leaves instances ready with numbers the process has *)
(* since given away: what such an instance still can connect or listen on  *)
(* is at most a socket that its owner then cannot use any more.            *)
(***************************************************************************)
EstablishedOwnsItsConnection ==
  \A i \in Instances : network_connection_established[i] =>
    /\ IsConnected(network_descriptor(i))
    /\ \A j \in Instances \ {i} :
         network_connection_established[j] => Held(i) \cap Held(j) = {}

(***************************************************************************)
(* What the flags and the descriptor numbers of the instances mean, and    *)
(* what the kernel says.                                                   *)
(***************************************************************************)
connection ==
  [i \in Instances |->
     IF network_connection_established[i] THEN {network_descriptor(i)} ELSE {}]

open == {d \in Descriptors : IsConnected(d)}

C == INSTANCE Connections

(***************************************************************************)
(* Whatever numbers the instances keep of descriptors they have closed,    *)
(* and whoever has these now: a step opens at most one connection, that of *)
(* an instance that had none, or closes the one of the instance that       *)
(* terminates it, and no other.                                            *)
(***************************************************************************)
ImplementsConnections == C!Spec

(***************************************************************************)
(* A connection that no established instance has any more.                 *)
(***************************************************************************)
Lost(d) ==
  /\ IsConnected(d)
  /\ \A i \in Instances :
       network_connection_established[i] => network_descriptor(i) # d

(***************************************************************************)
(* Also when setParameters is called on established instances, and         *)
(* instances then come to share descriptors: a connection gets lost only   *)
(* when the instance that has it is given new parameters or listens again, *)
(* never by what other instances, peers or failures do.                    *)
(***************************************************************************)
OnlyItsInstanceLosesAConnection ==
  [][\A d \in Descriptors : Lost(d)' /\ ~ Lost(d) =>
       \E i \in Instances :
         /\ network_connection_established[i] /\ network_descriptor(i) = d
         /\ \/ \E c, s \in BOOLEAN : setParameters(i, c, s)
            \/ acceptConnection(i)]_vars

----------------------------------------------------------------------------
(***************************************************************************)
(* "Receive a payload from a connected member": when a whole message       *)
(* waits, receiveFromConnection returns its payload.                       *)
(***************************************************************************)
ReceiveReturnsThePayload ==
  [][\A i \in Instances, n \in Sizes :
       /\ network_connection_established[i]
       /\ inbox[network_descriptor(i)] = Header(n) \o Payload(n)
       /\ receiveFromConnection(i)
       => process' = "running" /\ received' = Payload(n)]_vars
============================================================================
