----------------------- MODULE NetworkInstanceProofs -----------------------
(***************************************************************************)
(* Proofs about network_instance (defs_network.h), for any number of       *)
(* instances, any table of descriptors and any size of header and buffer.  *)
(*                                                                         *)
(* The types need the shape of the buffers and streams besides their       *)
(* bytes.  That an established instance owns its connection, and that no   *)
(* connection is without an owner, is shown by one invariant, Ownership:   *)
(* it also says which descriptor a waiting or established server listens   *)
(* on, since a server closes that one too.                                 *)
(***************************************************************************)
EXTENDS NetworkInstance, ListLemmas

(***************************************************************************)
(* The inductive form of TypeOK.                                           *)
(***************************************************************************)
ObjectTypes ==
  /\ network_connection_ready \in [Instances -> BOOLEAN]
  /\ network_connection_is_client \in [Instances -> BOOLEAN]
  /\ network_connection_established \in [Instances -> BOOLEAN]
  /\ network_socket_descriptor \in [Instances -> Descriptors]
  /\ network_established_socket_descriptor \in [Instances -> Descriptors]
  /\ accepting \in [Instances -> BOOLEAN]
  /\ kernel \in [Descriptors -> DescriptorStates]

BufferTypes ==
  /\ network_size_buffer \in [Instances -> [1 .. BufferSize -> Bytes]]
  /\ Range(received) \subseteq Bytes \cup {Garbage}

StreamTypes == inbox \in [Descriptors -> Seq(Bytes)]

StreamsAreConnected ==
  \A d \in Descriptors : inbox[d] # <<>> => IsConnected(d)

StatusTypes ==
  /\ debug_class_return_code \in {NotSet} \cup LegalCodes(6)
  /\ process \in ProcessStates

TypeInv ==
  ObjectTypes /\ BufferTypes /\ StreamTypes /\ StreamsAreConnected /\ StatusTypes

LEMMA RangeOfList ==
  ASSUME NEW S, NEW q \in Seq(S)
  PROVE  Range(q) \subseteq S
<1>1. \A i \in DOMAIN q : q[i] \in S
  OBVIOUS
<1> QED BY <1>1 DEF Range

LEMMA BufferIsList ==
  ASSUME NEW b \in [1 .. BufferSize -> Bytes]
  PROVE  b \in Seq(Bytes) /\ Len(b) = BufferSize
BY NetworkAssumption

LEMMA TypeInvGivesTypeOK == TypeInv => TypeOK
<1> SUFFICES ASSUME TypeInv PROVE TypeOK
  OBVIOUS
<1>1. ASSUME NEW i \in Instances
      PROVE  /\ Len(network_size_buffer[i]) = BufferSize
             /\ Range(network_size_buffer[i]) \subseteq Bytes
  <2>1. network_size_buffer[i] \in [1 .. BufferSize -> Bytes]
    BY DEF TypeInv, BufferTypes
  <2> QED BY <2>1, BufferIsList, RangeOfList
<1>2. ASSUME NEW d \in Descriptors
      PROVE  /\ Range(inbox[d]) \subseteq Bytes
             /\ inbox[d] # <<>> => IsConnected(d)
  <2>1. inbox[d] \in Seq(Bytes)
    BY DEF TypeInv, StreamTypes
  <2> QED BY <2>1, RangeOfList DEF TypeInv, StreamsAreConnected
<1> QED BY <1>1, <1>2 DEF TypeInv, TypeOK, ObjectTypes, BufferTypes, StatusTypes

(***************************************************************************)
(* Facts about the operators: the lowest free descriptor is free, the text *)
(* of a size consists of digits, and what is written into or read out of a *)
(* list of bytes is one again.                                             *)
(***************************************************************************)
LEMMA LowestFreeIsFree ==
  ASSUME Free # {}
  PROVE  LowestFree \in Descriptors /\ kernel[LowestFree] = "free"
<1>1. Free \in SUBSET Nat
  BY NetworkAssumption DEF Free
<1>2. LowestFree \in Free
  BY <1>1, MinExists DEF LowestFree
<1> QED BY <1>2 DEF Free

LEMMA DecimalIsDigits ==
  ASSUME NEW n \in Sizes
  PROVE  /\ Decimal(n) \in Seq(Bytes)
         /\ Len(Decimal(n)) \in Nat
<1>1. n \in 0 .. 99
  BY NetworkAssumption
<1>2. CASE n < 10
  <2>1. n \in Bytes /\ Decimal(n) = <<n>>
    BY <1>1, <1>2 DEF Bytes, Digits, Decimal
  <2> QED BY <2>1
<1>3. CASE ~ (n < 10)
  <2>1. n \div 10 \in Bytes /\ n % 10 \in Bytes
    BY <1>1 DEF Bytes, Digits
  <2>2. Decimal(n) = <<n \div 10, n % 10>>
    BY <1>3 DEF Decimal
  <2> QED BY <2>1, <2>2
<1> QED BY <1>2, <1>3

LEMMA CopiesIsList ==
  ASSUME NEW b \in Bytes, NEW n \in Nat
  PROVE  Copies(b, n) \in Seq(Bytes)
BY DEF Copies

LEMMA MessageIsList ==
  ASSUME NEW n \in Sizes, Len(Decimal(n)) < BufferSize
  PROVE  Header(n) \in Seq(Bytes) /\ Payload(n) \in Seq(Bytes)
<1>1. Decimal(n) \in Seq(Bytes) /\ Len(Decimal(n)) \in Nat
  BY DecimalIsDigits
<1>2. HeaderSize - Len(Decimal(n)) \in Nat /\ n \in Nat
  BY <1>1, NetworkAssumption
<1>3. Pad \in Bytes /\ Data \in Bytes
  BY DEF Bytes
<1>4. Copies(Pad, HeaderSize - Len(Decimal(n))) \in Seq(Bytes)
  BY <1>2, <1>3, CopiesIsList
<1>5. Payload(n) \in Seq(Bytes)
  BY <1>2, <1>3, CopiesIsList DEF Payload
<1>6. Header(n) \in Seq(Bytes)
  BY <1>1, <1>4 DEF Header
<1> QED BY <1>5, <1>6

LEMMA OverwrittenKeepsShape ==
  ASSUME NEW b \in [1 .. BufferSize -> Bytes], NEW q \in Seq(Bytes)
  PROVE  Overwritten(b, q) \in [1 .. BufferSize -> Bytes]
<1>1. Len(b) = BufferSize
  BY BufferIsList
<1>2. ASSUME NEW k \in 1 .. BufferSize
      PROVE  (IF k <= Len(q) THEN q[k] ELSE b[k]) \in Bytes
  <2>1. Len(q) \in Nat /\ k \in Int /\ 1 <= k
    BY NetworkAssumption
  <2>2. k <= Len(q) => q[k] \in Bytes
    BY <2>1
  <2> QED BY <2>2
<1> QED BY <1>1, <1>2 DEF Overwritten

LEMMA ReadIsList ==
  ASSUME NEW q \in Seq(Bytes), NEW n \in 0 .. Len(q)
  PROVE  /\ SubSeq(q, 1, n) \in Seq(Bytes)
         /\ Rest(q, n) \in Seq(Bytes)
         /\ Rest(q, n) # <<>> => q # <<>>
<1>1. /\ Len(q) \in Nat /\ n \in Nat /\ n <= Len(q)
      /\ n + 1 \in Nat /\ n + 1 <= Len(q) + 1
  OBVIOUS
<1>2. SubSeq(q, 1, n) \in Seq(Bytes)
  BY <1>1, SubSeqProperties
<1>3. Rest(q, n) \in Seq(Bytes)
  BY <1>1, SubSeqProperties DEF Rest
<1>4. ASSUME q = <<>> PROVE Rest(q, n) = <<>>
  <2>1. Len(q) = 0 /\ n = 0
    BY <1>4, <1>1
  <2> QED BY <2>1, <1>1, SubSeqProperties DEF Rest
<1> QED BY <1>2, <1>3, <1>4

LEMMA CountsAreInside ==
  ASSUME NEW q \in Seq(Bytes), NEW c, NEW d, NEW n \in ReadCounts(q, c, d)
  PROVE  n \in 0 .. Len(q)
BY DEF ReadCounts

(***************************************************************************)
(* What setReturnCode may do to the code and to the process.               *)
(***************************************************************************)
LEMMA FailTypes ==
  ASSUME StatusTypes, NEW code, fail(code)
  PROVE  StatusTypes' /\ (process' = "running" => process = "running")
BY DEF StatusTypes, fail, setReturnCode, network_local_errors, ProcessStates

----------------------------------------------------------------------------
(***************************************************************************)
(* Every step keeps the types.                                             *)
(***************************************************************************)
LEMMA StateKept ==
  ASSUME TypeInv, UNCHANGED stateVars, StatusTypes'
  PROVE  TypeInv'
BY DEF TypeInv, ObjectTypes, BufferTypes, StreamTypes, StreamsAreConnected, IsConnected,
       stateVars, flagVars, descriptorVars, kernelVars

LEMMA EndsType ==
  ASSUME TypeInv, Abort \/ Undefined
  PROVE  TypeInv'
<1>1. StatusTypes' /\ UNCHANGED stateVars
  BY DEF Abort, Undefined, TypeInv, StatusTypes, ProcessStates
<1> QED BY <1>1, StateKept

LEMMA FailType ==
  ASSUME TypeInv, NEW code, Fail(code)
  PROVE  TypeInv'
<1>1. StatusTypes' /\ UNCHANGED stateVars
  BY FailTypes DEF Fail, TypeInv
<1> QED BY <1>1, StateKept

(***************************************************************************)
(* A descriptor that is no connection changes its state: its stream is     *)
(* empty and stays so.                                                     *)
(***************************************************************************)
LEMMA KernelType ==
  ASSUME TypeInv, NEW d \in Descriptors, NEW s \in DescriptorStates,
         ~ IsConnected(d) \/ s = "closing",
         kernel' = [kernel EXCEPT ![d] = s], UNCHANGED inbox
  PROVE  /\ kernel' \in [Descriptors -> DescriptorStates]
         /\ StreamTypes' /\ StreamsAreConnected'
<1>1. kernel \in [Descriptors -> DescriptorStates]
  BY DEF TypeInv, ObjectTypes
<1>2. StreamTypes'
  BY DEF TypeInv, StreamTypes
<1>3. ASSUME NEW e \in Descriptors, inbox[e] # <<>>
      PROVE  kernel'[e] \in {"connected", "closing"}
  <2>1. kernel[e] \in {"connected", "closing"}
    BY <1>3 DEF TypeInv, StreamsAreConnected, IsConnected
  <2> QED BY <1>1, <2>1 DEF IsConnected
<1> QED BY <1>1, <1>2, <1>3 DEF StreamsAreConnected, IsConnected

LEMMA setParametersType ==
  ASSUME TypeInv, NEW i \in Instances, NEW c \in BOOLEAN, NEW s \in BOOLEAN,
         setParameters(i, c, s)
  PROVE  TypeInv'
<1>1. CASE (c /\ s) /\ Free = {}
  BY <1>1, FailType DEF setParameters
<1>2. CASE (c /\ s) /\ Free # {}
  <2>1. /\ initConnection(i) /\ LookedUp(c)
        /\ UNCHANGED <<network_connection_is_client, network_connection_established,
                       network_established_socket_descriptor, network_size_buffer,
                       accepting, inbox, received>>
    BY <1>2 DEF setParameters
  <2>2. StatusTypes'
    BY <2>1, FailTypes DEF LookedUp, TypeInv
  <2>3. LowestFree \in Descriptors /\ kernel[LowestFree] = "free"
    BY <1>2, LowestFreeIsFree
  <2>4. /\ kernel' \in [Descriptors -> DescriptorStates]
        /\ StreamTypes' /\ StreamsAreConnected'
    BY <2>1, <2>3, KernelType DEF initConnection, IsConnected, DescriptorStates
  <2>5. BufferTypes'
    BY <2>1 DEF TypeInv, BufferTypes
  <2>6. ObjectTypes'
    BY <2>1, <2>3, <2>4 DEF TypeInv, ObjectTypes, initConnection
  <2> QED BY <2>2, <2>4, <2>5, <2>6 DEF TypeInv
<1>3. CASE ~ (c /\ s)
  <2>1. /\ network_connection_ready' = [network_connection_ready EXCEPT ![i] = FALSE]
        /\ LookedUp(c)
        /\ UNCHANGED <<network_connection_is_client, network_connection_established,
                       descriptorVars, network_size_buffer, accepting, kernelVars,
                       received>>
    BY <1>3 DEF setParameters
  <2>2. StatusTypes'
    BY <2>1, FailTypes DEF LookedUp, TypeInv
  <2> QED BY <2>1, <2>2 DEF TypeInv, ObjectTypes, BufferTypes, StreamTypes,
                            StreamsAreConnected, IsConnected, descriptorVars, kernelVars
<1> QED BY <1>1, <1>2, <1>3

LEMMA acceptConnectionType ==
  ASSUME TypeInv, NEW i \in Instances, acceptConnection(i)
  PROVE  TypeInv'
<1> DEFINE d == network_socket_descriptor[i]
<1>0. d \in Descriptors
  BY DEF TypeInv, ObjectTypes
<1>1. CASE Abort \/ Fail(cannot_bind)
  BY <1>1, EndsType, FailType
<1>2. CASE /\ kernel[d] = "socket"
           /\ kernel' = [kernel EXCEPT ![d] = "listening"]
           /\ accepting' = [accepting EXCEPT ![i] = TRUE]
           /\ network_connection_established' =
                [network_connection_established EXCEPT ![i] = FALSE]
           /\ network_connection_is_client' =
                [network_connection_is_client EXCEPT ![i] = FALSE]
           /\ UNCHANGED <<network_connection_ready, descriptorVars,
                          network_size_buffer, inbox, received, debugVars>>
  <2>1. /\ kernel' \in [Descriptors -> DescriptorStates]
        /\ StreamTypes' /\ StreamsAreConnected'
    <3> HIDE DEF d
    <3> QED BY <1>0, <1>2, KernelType DEF IsConnected, DescriptorStates
  <2>2. BufferTypes' /\ StatusTypes'
    BY <1>2 DEF TypeInv, BufferTypes, StatusTypes, debugVars
  <2>3. ObjectTypes'
    BY <1>2, <2>1 DEF TypeInv, ObjectTypes, descriptorVars
  <2> QED BY <2>1, <2>2, <2>3 DEF TypeInv
<1> QED BY <1>1, <1>2 DEF acceptConnection

LEMMA acceptedType ==
  ASSUME TypeInv, NEW i \in Instances, accepted(i)
  PROVE  TypeInv'
<1>1. CASE Free = {}
  BY <1>1, FailType DEF accepted
<1>2. CASE Free # {}
  <2>1. LowestFree \in Descriptors /\ kernel[LowestFree] = "free"
    BY <1>2, LowestFreeIsFree
  <2>2. /\ kernel' \in [Descriptors -> DescriptorStates]
        /\ StreamTypes' /\ StreamsAreConnected'
    BY <1>2, <2>1, KernelType DEF accepted, IsConnected, DescriptorStates
  <2>3. BufferTypes' /\ StatusTypes'
    BY <1>2 DEF accepted, TypeInv, BufferTypes, StatusTypes, debugVars
  <2>4. ObjectTypes'
    BY <1>2, <2>1, <2>2 DEF accepted, TypeInv, ObjectTypes
  <2> QED BY <2>2, <2>3, <2>4 DEF TypeInv
<1> QED BY <1>1, <1>2

LEMMA startConnectionType ==
  ASSUME TypeInv, NEW i \in Instances, startConnection(i)
  PROVE  TypeInv'
<1> DEFINE d == network_socket_descriptor[i]
<1>0. d \in Descriptors
  BY DEF TypeInv, ObjectTypes
<1>1. CASE Abort \/ Fail(cannot_connect)
  BY <1>1, EndsType, FailType
<1>2. CASE /\ kernel[d] = "socket"
           /\ kernel' = [kernel EXCEPT ![d] = "connected"]
           /\ network_connection_is_client' =
                [network_connection_is_client EXCEPT ![i] = TRUE]
           /\ network_connection_established' =
                [network_connection_established EXCEPT ![i] = TRUE]
           /\ UNCHANGED <<network_connection_ready, descriptorVars,
                          network_size_buffer, accepting, inbox, received, debugVars>>
  <2>1. /\ kernel' \in [Descriptors -> DescriptorStates]
        /\ StreamTypes' /\ StreamsAreConnected'
    <3> HIDE DEF d
    <3> QED BY <1>0, <1>2, KernelType DEF IsConnected, DescriptorStates
  <2>2. BufferTypes' /\ StatusTypes'
    BY <1>2 DEF TypeInv, BufferTypes, StatusTypes, debugVars
  <2>3. ObjectTypes'
    BY <1>2, <2>1 DEF TypeInv, ObjectTypes, descriptorVars
  <2> QED BY <2>1, <2>2, <2>3 DEF TypeInv
<1> QED BY <1>1, <1>2 DEF startConnection

LEMMA terminateConnectionType ==
  ASSUME TypeInv, NEW i \in Instances, terminateConnection(i)
  PROVE  TypeInv'
<1>1. CASE ~ network_connection_established[i]
  BY <1>1, EndsType DEF terminateConnection
<1>2. CASE network_connection_established[i]
  <2>1. ObjectTypes'
    <3>1. kernel' \in [Descriptors -> DescriptorStates]
      BY <1>2 DEF terminateConnection, TypeInv, ObjectTypes, DescriptorStates
    <3> QED BY <1>2, <3>1 DEF terminateConnection, TypeInv, ObjectTypes, descriptorVars
  <2>2. StreamTypes'
    <3>1. <<>> \in Seq(Bytes) /\ \A d \in Descriptors : inbox[d] \in Seq(Bytes)
      BY EmptySeq DEF TypeInv, StreamTypes
    <3>2. \A d \in Descriptors :
            (IF d \in Held(i) THEN <<>> ELSE inbox[d]) \in Seq(Bytes)
      BY <3>1
    <3> QED BY <1>2, <3>2, Zenon DEF terminateConnection, StreamTypes
  <2>3. StreamsAreConnected'
    BY <1>2 DEF terminateConnection, TypeInv, StreamsAreConnected, IsConnected
  <2>4. BufferTypes' /\ StatusTypes'
    BY <1>2 DEF terminateConnection, TypeInv, BufferTypes, StatusTypes, debugVars
  <2> QED BY <2>1, <2>2, <2>3, <2>4 DEF TypeInv
<1> QED BY <1>1, <1>2

LEMMA sendToConnectionType ==
  ASSUME TypeInv, NEW i \in Instances, NEW n \in Sizes, sendToConnection(i, n)
  PROVE  TypeInv'
<1>1. CASE Abort \/ Undefined
  BY <1>1, EndsType
<1>2. CASE /\ network_size_buffer' =
                [network_size_buffer EXCEPT
                   ![i] = Overwritten(@, Append(Decimal(n), Pad))]
           /\ UNCHANGED <<flagVars, descriptorVars, accepting, kernelVars,
                          received, debugVars>>
  <2>1. Append(Decimal(n), Pad) \in Seq(Bytes)
    <3>1. Decimal(n) \in Seq(Bytes) /\ Pad \in Bytes
      BY DecimalIsDigits DEF Bytes
    <3> QED BY <3>1
  <2>2. network_size_buffer \in [Instances -> [1 .. BufferSize -> Bytes]]
    BY DEF TypeInv, BufferTypes
  <2>3. Overwritten(network_size_buffer[i], Append(Decimal(n), Pad))
          \in [1 .. BufferSize -> Bytes]
    BY <2>1, <2>2, OverwrittenKeepsShape
  <2>4. BufferTypes'
    <3>1. network_size_buffer' \in [Instances -> [1 .. BufferSize -> Bytes]]
      BY <1>2, <2>2, <2>3
    <3> QED BY <1>2, <3>1 DEF TypeInv, BufferTypes
  <2>5. ObjectTypes' /\ StatusTypes'
    BY <1>2 DEF TypeInv, ObjectTypes, StatusTypes, flagVars, descriptorVars,
                kernelVars, debugVars
  <2>6. StreamTypes' /\ StreamsAreConnected'
    BY <1>2 DEF TypeInv, StreamTypes, StreamsAreConnected, IsConnected, kernelVars
  <2> QED BY <2>4, <2>5, <2>6 DEF TypeInv
<1> QED BY <1>1, <1>2 DEF sendToConnection

LEMMA DescriptorIsInTable ==
  ASSUME TypeInv, NEW i \in Instances
  PROVE  network_descriptor(i) \in Descriptors
BY DEF TypeInv, ObjectTypes, network_descriptor

(***************************************************************************)
(* Whatever number atoi makes of the buffer, receiveFromConnection takes   *)
(* its payload from the bytes that wait and leaves the rest of them: the   *)
(* proof uses nothing of the size.                                         *)
(***************************************************************************)
LEMMA receiveFromConnectionType ==
  ASSUME TypeInv, NEW i \in Instances, receiveFromConnection(i)
  PROVE  TypeInv'
<1> DEFINE d == network_descriptor(i)
<1>0. d \in Descriptors /\ inbox[d] \in Seq(Bytes)
      /\ network_size_buffer[i] \in [1 .. BufferSize -> Bytes]
  BY DescriptorIsInTable DEF TypeInv, StreamTypes, BufferTypes
<1>1. CASE Abort \/ Undefined
  BY <1>1, EndsType
<1>2. ASSUME NEW n \in ReadCounts(inbox[d], HeaderSize, d), NEW size, NEW taken,
             NEW rest, rest = Rest(inbox[d], n),
             taken = 0 \/ taken \in ReadCounts(rest, size, d),
             network_size_buffer' =
               [network_size_buffer EXCEPT
                  ![i] = Overwritten(network_size_buffer[i], SubSeq(inbox[d], 1, n))],
             received' = [k \in 1 .. size |->
                            IF k \in 1 .. taken THEN rest[k] ELSE Garbage],
             inbox' = [inbox EXCEPT ![d] = Rest(rest, taken)],
             UNCHANGED <<flagVars, descriptorVars, accepting, kernel, debugVars>>
      PROVE  TypeInv'
  <2> HIDE DEF d
  <2>1. n \in 0 .. Len(inbox[d])
    BY <1>0, CountsAreInside
  <2>2. /\ SubSeq(inbox[d], 1, n) \in Seq(Bytes) /\ rest \in Seq(Bytes)
        /\ rest # <<>> => inbox[d] # <<>>
    BY <1>0, <1>2, <2>1, ReadIsList
  <2>3. taken \in 0 .. Len(rest)
    <3>1. CASE taken = 0
      BY <2>2, <3>1
    <3>2. CASE taken \in ReadCounts(rest, size, d)
      BY <2>2, <3>2, CountsAreInside
    <3> QED BY <1>2, <3>1, <3>2
  <2>4. Rest(rest, taken) \in Seq(Bytes) /\ (Rest(rest, taken) # <<>> => rest # <<>>)
    BY <2>2, <2>3, ReadIsList
  <2>5. network_size_buffer' \in [Instances -> [1 .. BufferSize -> Bytes]]
    <3>1. network_size_buffer \in [Instances -> [1 .. BufferSize -> Bytes]]
      BY DEF TypeInv, BufferTypes
    <3>2. Overwritten(network_size_buffer[i], SubSeq(inbox[d], 1, n))
            \in [1 .. BufferSize -> Bytes]
      BY <1>0, <2>2, OverwrittenKeepsShape
    <3> QED BY <1>2, <3>1, <3>2
  <2>6. Range(received') \subseteq Bytes \cup {Garbage}
    <3>1. \A k \in 1 .. taken : rest[k] \in Bytes
      BY <2>2, <2>3
    <3>2. \A k \in 1 .. size : received'[k] \in Bytes \cup {Garbage}
      BY <1>2, <3>1
    <3>3. DOMAIN received' = 1 .. size
      BY <1>2
    <3> QED BY <3>2, <3>3 DEF Range
  <2>7. BufferTypes'
    BY <2>5, <2>6 DEF BufferTypes
  <2>8. inbox \in [Descriptors -> Seq(Bytes)]
    BY DEF TypeInv, StreamTypes
  <2>9. StreamTypes'
    BY <1>0, <1>2, <2>4, <2>8 DEF StreamTypes
  <2>10. ASSUME NEW e \in Descriptors, inbox'[e] # <<>>
         PROVE  kernel'[e] \in {"connected", "closing"}
    <3>1. inbox[e] # <<>>
      BY <1>2, <2>2, <2>4, <2>8, <2>10
    <3> QED BY <1>2, <3>1 DEF TypeInv, StreamsAreConnected, IsConnected
  <2>11. StreamsAreConnected'
    BY <2>10 DEF StreamsAreConnected, IsConnected
  <2>12. ObjectTypes' /\ StatusTypes'
    BY <1>2 DEF TypeInv, ObjectTypes, StatusTypes, flagVars, descriptorVars, debugVars
  <2> QED BY <2>7, <2>9, <2>11, <2>12 DEF TypeInv
<1>3. CASE ~ (Abort \/ Undefined)
  <2>1. PICK n \in ReadCounts(inbox[d], HeaderSize, d) :
          /\ ~ (n > BufferSize)
          /\ LET buffer == Overwritten(network_size_buffer[i], SubSeq(inbox[d], 1, n))
                 size == atoi(buffer)
                 rest == Rest(inbox[d], n)
             IN  \E taken \in IF size = 0 THEN {0} ELSE ReadCounts(rest, size, d) :
                   /\ network_size_buffer' = [network_size_buffer EXCEPT ![i] = buffer]
                   /\ received' = [k \in 1 .. size |->
                        IF k \in 1 .. taken THEN rest[k] ELSE Garbage]
                   /\ inbox' = [inbox EXCEPT ![d] = Rest(rest, taken)]
                   /\ UNCHANGED <<flagVars, descriptorVars, accepting, kernel, debugVars>>
    BY <1>3 DEF receiveFromConnection
  <2> DEFINE rest == Rest(inbox[d], n)
             size == atoi(Overwritten(network_size_buffer[i], SubSeq(inbox[d], 1, n)))
  <2>2. PICK taken \in IF size = 0 THEN {0} ELSE ReadCounts(rest, size, d) :
          /\ network_size_buffer' =
               [network_size_buffer EXCEPT
                  ![i] = Overwritten(network_size_buffer[i], SubSeq(inbox[d], 1, n))]
          /\ received' = [k \in 1 .. size |->
                            IF k \in 1 .. taken THEN rest[k] ELSE Garbage]
          /\ inbox' = [inbox EXCEPT ![d] = Rest(rest, taken)]
          /\ UNCHANGED <<flagVars, descriptorVars, accepting, kernel, debugVars>>
    BY <2>1, Zenon
  <2>3. taken = 0 \/ taken \in ReadCounts(rest, size, d)
    BY <2>2, Zenon
  <2>4. rest = Rest(inbox[d], n)
    OBVIOUS
  <2> HIDE DEF d, rest, size
  <2> QED BY <1>2, <2>2, <2>3, <2>4
<1> QED BY <1>1, <1>3

LEMMA PeerSendsType ==
  ASSUME TypeInv, NEW d \in Descriptors, NEW n \in Sizes, PeerSends(d, n)
  PROVE  TypeInv'
<1>1. Header(n) \in Seq(Bytes) /\ Payload(n) \in Seq(Bytes)
  BY MessageIsList DEF PeerSends
<1>2. inbox \in [Descriptors -> Seq(Bytes)]
  BY DEF TypeInv, StreamTypes
<1>3. inbox[d] \o Header(n) \o Payload(n) \in Seq(Bytes)
  BY <1>1, <1>2
<1>4. inbox' = [inbox EXCEPT ![d] = inbox[d] \o Header(n) \o Payload(n)]
  BY DEF PeerSends
<1>5. StreamTypes'
  BY <1>2, <1>3, <1>4 DEF StreamTypes
<1>6. ASSUME NEW e \in Descriptors, inbox'[e] # <<>>
      PROVE  kernel'[e] \in {"connected", "closing"}
  <2>1. CASE e = d
    BY <2>1 DEF PeerSends
  <2>2. CASE e # d
    <3>1. inbox'[e] = inbox[e]
      BY <1>2, <1>4, <2>2
    <3> QED BY <1>6, <3>1 DEF PeerSends, TypeInv, StreamsAreConnected, IsConnected
  <2> QED BY <2>1, <2>2
<1>7. StreamsAreConnected'
  BY <1>6 DEF StreamsAreConnected, IsConnected
<1> QED BY <1>5, <1>7 DEF PeerSends, TypeInv, ObjectTypes, BufferTypes, StatusTypes,
                          flagVars, descriptorVars, debugVars

(***************************************************************************)
(* What the world does to a descriptor.                                    *)
(***************************************************************************)
OnlyKernel == UNCHANGED <<flagVars, descriptorVars, network_size_buffer, accepting,
                          inbox, received, debugVars>>

LEMMA WorldKernel ==
  ASSUME TypeInv, OpenFile \/ (\E d \in Descriptors : PeerCloses(d) \/ CloseFile(d))
  PROVE  /\ OnlyKernel
         /\ process = "running"
         /\ \E d \in Descriptors, s \in DescriptorStates :
              /\ kernel' = [kernel EXCEPT ![d] = s]
              /\ \/ kernel[d] = "free" /\ s = "file"
                 \/ kernel[d] = "file" /\ s = "free"
                 \/ kernel[d] = "connected" /\ s = "closing"
<1>1. CASE OpenFile
  <2>1. LowestFree \in Descriptors /\ kernel[LowestFree] = "free"
    BY <1>1, LowestFreeIsFree DEF OpenFile
  <2> QED BY <1>1, <2>1 DEF OpenFile, OnlyKernel, DescriptorStates
<1>2. ASSUME NEW d \in Descriptors, PeerCloses(d) \/ CloseFile(d)
      PROVE  /\ OnlyKernel
             /\ process = "running"
             /\ \/ kernel' = [kernel EXCEPT ![d] = "free"] /\ kernel[d] = "file"
                \/ kernel' = [kernel EXCEPT ![d] = "closing"] /\ kernel[d] = "connected"
  BY <1>2 DEF PeerCloses, CloseFile, OnlyKernel
<1>3. "free" \in DescriptorStates /\ "closing" \in DescriptorStates
  BY DEF DescriptorStates
<1> QED BY <1>1, <1>2, <1>3

LEMMA WorldType ==
  ASSUME TypeInv, OpenFile \/ (\E d \in Descriptors : PeerCloses(d) \/ CloseFile(d))
  PROVE  TypeInv'
<1>1. OnlyKernel
  BY WorldKernel
<1>2. PICK d \in Descriptors, s \in DescriptorStates :
        /\ kernel' = [kernel EXCEPT ![d] = s]
        /\ \/ kernel[d] = "free" /\ s = "file"
           \/ kernel[d] = "file" /\ s = "free"
           \/ kernel[d] = "connected" /\ s = "closing"
  BY WorldKernel
<1>3. UNCHANGED inbox /\ (~ IsConnected(d) \/ s = "closing")
  BY <1>1, <1>2 DEF OnlyKernel, IsConnected
<1>4. /\ kernel' \in [Descriptors -> DescriptorStates]
      /\ StreamTypes' /\ StreamsAreConnected'
  BY <1>2, <1>3, KernelType
<1> QED BY <1>1, <1>4 DEF OnlyKernel, TypeInv, ObjectTypes, BufferTypes, StatusTypes,
                          flagVars, descriptorVars, debugVars

LEMMA InitType == Init => TypeInv
<1> SUFFICES ASSUME Init PROVE TypeInv
  OBVIOUS
<1>1. AnyDescriptor \in Descriptors
  BY NetworkAssumption DEF AnyDescriptor
<1>2. ObjectTypes
  BY <1>1 DEF Init, ObjectTypes, DescriptorStates
<1>3. network_size_buffer \in [Instances -> [1 .. BufferSize -> Bytes]]
  <2>1. PICK byte \in Uninitialised :
          network_size_buffer = [i \in Instances |-> Copies(byte, BufferSize)]
    BY DEF Init
  <2>2. byte \in Bytes
    BY NetworkAssumption DEF Bytes, Digits, Pad, Data
  <2> QED BY <2>1, <2>2 DEF Copies
<1>4. BufferTypes
  BY <1>3 DEF Init, BufferTypes, Range
<1>5. StreamTypes /\ StreamsAreConnected
  <2>1. <<>> \in Seq(Bytes)
    BY EmptySeq
  <2> QED BY <2>1 DEF Init, StreamTypes, StreamsAreConnected
<1>6. StatusTypes
  BY DEF Init, InitDebug, StatusTypes, ProcessStates
<1> QED BY <1>2, <1>4, <1>5, <1>6 DEF TypeInv

LEMMA TypeStep ==
  ASSUME TypeInv, [Next]_vars
  PROVE  TypeInv'
<1>1. CASE UNCHANGED vars
  <2>1. StatusTypes' /\ UNCHANGED stateVars
    BY <1>1 DEF vars, debugVars, TypeInv, StatusTypes
  <2> QED BY <2>1, StateKept
<1>2. CASE Next
  BY <1>2, setParametersType, acceptConnectionType, acceptedType, startConnectionType,
     terminateConnectionType, sendToConnectionType, receiveFromConnectionType,
     PeerSendsType, WorldType DEF Next
<1> QED BY <1>1, <1>2

(***************************************************************************)
(* Every behaviour of the instances stays within the inductive form of the *)
(* types.                                                                  *)
(***************************************************************************)
THEOREM TypeInvariance == Spec => []TypeInv
<1>1. TypeInv /\ [Next]_vars => TypeInv'
  BY TypeStep
<1> QED BY <1>1, InitType, PTL DEF Spec

(***************************************************************************)
(* The state of network_instance keeps its types: descriptors are numbers  *)
(* of the table, the buffer keeps its length, and bytes wait only at       *)
(* connected sockets, also when setParameters is called on an established  *)
(* instance.                                                               *)
(***************************************************************************)
THEOREM TypeCorrect == Spec => []TypeOK
<1> QED BY TypeInvariance, TypeInvGivesTypeOK, PTL

----------------------------------------------------------------------------
(***************************************************************************)
(* A server, while it waits in accept and once it is established, listens  *)
(* on the socket it opened.                                                *)
(***************************************************************************)
Serves(i) ==
  \/ accepting[i]
  \/ network_connection_established[i] /\ ~ network_connection_is_client[i]

(***************************************************************************)
(* Who owns what: the inductive invariant.                                 *)
(***************************************************************************)
WaitingIsServer ==
  \A i \in Instances : accepting[i] =>
    ~ network_connection_established[i] /\ ~ network_connection_is_client[i]

ServerListens ==
  \A i \in Instances : Serves(i) => kernel[network_socket_descriptor[i]] = "listening"

EstablishedIsConnected ==
  \A i \in Instances : network_connection_established[i] =>
    IsConnected(network_descriptor(i))

ServersApart ==
  \A i, j \in Instances : i # j /\ Serves(i) /\ Serves(j) =>
    network_socket_descriptor[i] # network_socket_descriptor[j]

ConnectionsApart ==
  \A i, j \in Instances :
    i # j /\ network_connection_established[i] /\ network_connection_established[j] =>
      network_descriptor(i) # network_descriptor(j)

ConnectionsAreOwned ==
  process = "running" =>
    \A d \in Descriptors : IsConnected(d) =>
      \E i \in Instances :
        network_connection_established[i] /\ network_descriptor(i) = d

Ownership ==
  /\ WaitingIsServer /\ ServerListens /\ EstablishedIsConnected
  /\ ServersApart /\ ConnectionsApart /\ ConnectionsAreOwned

(***************************************************************************)
(* What an established instance would close is connected or listening, and *)
(* hence not what another one holds.                                       *)
(***************************************************************************)
LEMMA OwnershipGivesOwner ==
  ASSUME TypeInv, Ownership
  PROVE  EstablishedOwnsItsConnection
<1>1. ASSUME NEW i \in Instances, network_connection_established[i],
             NEW j \in Instances \ {i}, network_connection_established[j]
      PROVE  Held(i) \cap Held(j) = {}
  <2>1. network_descriptor(i) # network_descriptor(j)
    BY <1>1 DEF Ownership, ConnectionsApart
  <2>2. /\ kernel[network_descriptor(i)] \in {"connected", "closing"}
        /\ kernel[network_descriptor(j)] \in {"connected", "closing"}
    BY <1>1 DEF Ownership, EstablishedIsConnected, IsConnected
  <2>3. /\ ~ network_connection_is_client[i] =>
             kernel[network_socket_descriptor[i]] = "listening"
        /\ ~ network_connection_is_client[j] =>
             kernel[network_socket_descriptor[j]] = "listening"
    BY <1>1 DEF Ownership, ServerListens, Serves
  <2>4. ~ network_connection_is_client[i] /\ ~ network_connection_is_client[j] =>
          network_socket_descriptor[i] # network_socket_descriptor[j]
    BY <1>1 DEF Ownership, ServersApart, Serves
  <2>5. CASE network_connection_is_client[i] /\ network_connection_is_client[j]
    BY <2>1, <2>5 DEF Held, network_descriptor
  <2>6. CASE network_connection_is_client[i] /\ ~ network_connection_is_client[j]
    BY <2>1, <2>2, <2>3, <2>6 DEF Held, network_descriptor
  <2>7. CASE ~ network_connection_is_client[i] /\ network_connection_is_client[j]
    BY <2>1, <2>2, <2>3, <2>7 DEF Held, network_descriptor
  <2>8. CASE ~ network_connection_is_client[i] /\ ~ network_connection_is_client[j]
    BY <2>1, <2>2, <2>3, <2>4, <2>8 DEF Held, network_descriptor
  <2> QED BY <2>5, <2>6, <2>7, <2>8
<1> QED BY <1>1 DEF EstablishedOwnsItsConnection, Ownership, EstablishedIsConnected

(***************************************************************************)
(* A step that opens and closes no connection and no listening socket, and *)
(* leaves what the instances know alone.                                   *)
(***************************************************************************)
KnownVars == <<network_connection_is_client, network_connection_established,
               descriptorVars, accepting>>

LEMMA QuietStep ==
  ASSUME TypeInv, Ownership, UNCHANGED KnownVars,
         \A d \in Descriptors :
           /\ kernel[d] = "listening" => kernel'[d] = "listening"
           /\ kernel[d] \in {"connected", "closing"}
                <=> kernel'[d] \in {"connected", "closing"},
         process' = "running" => process = "running"
  PROVE  Ownership'
<1>1. \A i \in Instances : Serves(i)' = Serves(i)
                            /\ network_descriptor(i)' = network_descriptor(i)
  BY DEF KnownVars, descriptorVars, Serves, network_descriptor
<1>2. \A i \in Instances : network_descriptor(i) \in Descriptors
                            /\ network_socket_descriptor[i] \in Descriptors
  BY DescriptorIsInTable DEF TypeInv, ObjectTypes
<1>3. WaitingIsServer'
  BY DEF KnownVars, Ownership, WaitingIsServer
<1>4. ServerListens'
  BY <1>1, <1>2 DEF KnownVars, descriptorVars, Ownership, ServerListens
<1>5. EstablishedIsConnected'
  BY <1>1, <1>2 DEF KnownVars, Ownership, EstablishedIsConnected, IsConnected
<1>6. ServersApart'
  BY <1>1 DEF KnownVars, descriptorVars, Ownership, ServersApart
<1>7. ConnectionsApart'
  BY <1>1 DEF KnownVars, Ownership, ConnectionsApart
<1>8. ConnectionsAreOwned'
  BY <1>1 DEF KnownVars, Ownership, ConnectionsAreOwned, IsConnected
<1> QED BY <1>3, <1>4, <1>5, <1>6, <1>7, <1>8 DEF Ownership

LEMMA EndsOwnership ==
  ASSUME TypeInv, Ownership, Abort \/ Undefined \/ (\E code \in Nat : Fail(code))
  PROVE  Ownership'
<1>1. UNCHANGED stateVars /\ (process' = "running" => process = "running")
  BY DEF Abort, Undefined, Fail, fail, setReturnCode
<1>2. UNCHANGED KnownVars /\ UNCHANGED kernel
  BY <1>1 DEF stateVars, flagVars, kernelVars, KnownVars
<1> QED BY <1>1, <1>2, QuietStep

(***************************************************************************)
(* What an instance other than i knows, and i's own part of a step.        *)
(***************************************************************************)
Others(i) ==
  \A j \in Instances \ {i} :
    /\ network_connection_is_client'[j] = network_connection_is_client[j]
    /\ network_connection_established'[j] = network_connection_established[j]
    /\ network_socket_descriptor'[j] = network_socket_descriptor[j]
    /\ network_established_socket_descriptor'[j] =
         network_established_socket_descriptor[j]
    /\ accepting'[j] = accepting[j]

LEMMA OthersKnow ==
  ASSUME TypeInv, NEW i \in Instances, Others(i), NEW j \in Instances \ {i}
  PROVE  /\ Serves(j)' = Serves(j)
         /\ network_descriptor(j)' = network_descriptor(j)
         /\ network_descriptor(j) \in Descriptors
         /\ network_socket_descriptor[j] \in Descriptors
<1>1. Serves(j)' = Serves(j) /\ network_descriptor(j)' = network_descriptor(j)
  BY DEF Others, Serves, network_descriptor
<1>2. network_descriptor(j) \in Descriptors /\ network_socket_descriptor[j] \in Descriptors
  BY DescriptorIsInTable DEF TypeInv, ObjectTypes
<1> QED BY <1>1, <1>2

(***************************************************************************)
(* A step of instance i that leaves alone what the others hold.            *)
(***************************************************************************)
LEMMA InstanceStep ==
  ASSUME TypeInv, Ownership, NEW i \in Instances, Others(i),
         \A j \in Instances \ {i} :
           /\ Serves(j) =>
                /\ kernel'[network_socket_descriptor[j]] = "listening"
                /\ Serves(i)' =>
                     network_socket_descriptor'[i] # network_socket_descriptor[j]
           /\ network_connection_established[j] =>
                /\ kernel'[network_descriptor(j)] \in {"connected", "closing"}
                /\ network_connection_established'[i] =>
                     network_descriptor(i)' # network_descriptor(j),
         accepting'[i] =>
           ~ network_connection_established'[i] /\ ~ network_connection_is_client'[i],
         Serves(i)' => kernel'[network_socket_descriptor'[i]] = "listening",
         network_connection_established'[i] =>
           kernel'[network_descriptor(i)'] \in {"connected", "closing"},
         process = "running",
         \A d \in Descriptors : kernel'[d] \in {"connected", "closing"} =>
           \/ network_connection_established'[i] /\ network_descriptor(i)' = d
           \/ /\ IsConnected(d)
              /\ ~ (network_connection_established[i] /\ network_descriptor(i) = d)
  PROVE  Ownership'
<1>1. \A j \in Instances \ {i} : /\ Serves(j)' = Serves(j)
                                 /\ network_descriptor(j)' = network_descriptor(j)
  BY OthersKnow
<1>2. WaitingIsServer'
  BY DEF Ownership, WaitingIsServer, Others
<1>3. ServerListens'
  BY <1>1 DEF ServerListens, Others
<1>4. EstablishedIsConnected'
  BY <1>1 DEF EstablishedIsConnected, IsConnected, Others
<1>5. ServersApart'
  <2>1. ASSUME NEW j \in Instances, NEW k \in Instances, j # k, Serves(j)', Serves(k)'
        PROVE  network_socket_descriptor'[j] # network_socket_descriptor'[k]
    <3>1. CASE j = i
      BY <1>1, <2>1, <3>1 DEF Others
    <3>2. CASE k = i
      BY <1>1, <2>1, <3>2 DEF Others
    <3>3. CASE j # i /\ k # i
      BY <1>1, <2>1, <3>3 DEF Others, Ownership, ServersApart
    <3> QED BY <3>1, <3>2, <3>3
  <2> QED BY <2>1 DEF ServersApart
<1>6. ConnectionsApart'
  <2>1. ASSUME NEW j \in Instances, NEW k \in Instances, j # k,
               network_connection_established'[j], network_connection_established'[k]
        PROVE  network_descriptor(j)' # network_descriptor(k)'
    <3>1. CASE j = i
      BY <1>1, <2>1, <3>1 DEF Others
    <3>2. CASE k = i
      BY <1>1, <2>1, <3>2 DEF Others
    <3>3. CASE j # i /\ k # i
      BY <1>1, <2>1, <3>3 DEF Others, Ownership, ConnectionsApart
    <3> QED BY <3>1, <3>2, <3>3
  <2> QED BY <2>1 DEF ConnectionsApart
<1>7. ConnectionsAreOwned'
  <2>1. ASSUME NEW d \in Descriptors, kernel'[d] \in {"connected", "closing"}
        PROVE  \E j \in Instances :
                 network_connection_established'[j] /\ network_descriptor(j)' = d
    <3>1. CASE network_connection_established'[i] /\ network_descriptor(i)' = d
      BY <3>1
    <3>2. CASE /\ IsConnected(d)
               /\ ~ (network_connection_established[i] /\ network_descriptor(i) = d)
      <4>1. PICK j \in Instances :
              network_connection_established[j] /\ network_descriptor(j) = d
        BY <3>2 DEF Ownership, ConnectionsAreOwned
      <4>2. j # i
        BY <3>2, <4>1
      <4> QED BY <1>1, <4>1, <4>2 DEF Others
    <3> QED BY <2>1, <3>1, <3>2
  <2> QED BY <2>1 DEF ConnectionsAreOwned, IsConnected
<1> QED BY <1>2, <1>3, <1>4, <1>5, <1>6, <1>7 DEF Ownership

(***************************************************************************)
(* The operations.                                                         *)
(***************************************************************************)
LEMMA HeldByOthers ==
  ASSUME TypeInv, Ownership, NEW j \in Instances
  PROVE  /\ network_socket_descriptor[j] \in Descriptors
         /\ network_descriptor(j) \in Descriptors
         /\ Serves(j) => kernel[network_socket_descriptor[j]] = "listening"
         /\ network_connection_established[j] =>
              kernel[network_descriptor(j)] \in {"connected", "closing"}
BY DescriptorIsInTable DEF TypeInv, ObjectTypes, Ownership, ServerListens,
                           EstablishedIsConnected, IsConnected

LEMMA setParametersOwnership ==
  ASSUME ~ Reparameterise, TypeInv, Ownership,
         NEW i \in Instances, NEW c \in BOOLEAN, NEW s \in BOOLEAN,
         setParameters(i, c, s)
  PROVE  Ownership'
<1>0. process = "running" /\ ~ accepting[i] /\ ~ network_connection_established[i]
  BY DEF setParameters, Running
<1>1. CASE (c /\ s) /\ Free = {}
  <2>1. Fail(cannot_open_socket) /\ cannot_open_socket \in Nat
    BY <1>1 DEF setParameters, cannot_open_socket
  <2> QED BY <2>1, EndsOwnership
<1>2. CASE (c /\ s) /\ Free # {}
  <2>1. /\ initConnection(i)
        /\ UNCHANGED <<network_connection_is_client, network_connection_established,
                       network_established_socket_descriptor, accepting>>
    BY <1>2 DEF setParameters
  <2>2. LowestFree \in Descriptors /\ kernel[LowestFree] = "free"
    BY <1>2, LowestFreeIsFree
  <2>3. \A d \in Descriptors :
          kernel'[d] = IF d = LowestFree THEN "socket" ELSE kernel[d]
    BY <2>1, <2>2 DEF initConnection, TypeInv, ObjectTypes
  <2>4. Others(i)
    BY <2>1 DEF initConnection, Others, TypeInv, ObjectTypes
  <2>5. ~ accepting'[i] /\ ~ network_connection_established'[i] /\ ~ Serves(i)'
    BY <1>0, <2>1 DEF Serves
  <2>6. \A j \in Instances \ {i} :
          /\ Serves(j) => kernel'[network_socket_descriptor[j]] = "listening"
          /\ network_connection_established[j] =>
               kernel'[network_descriptor(j)] \in {"connected", "closing"}
    BY <2>2, <2>3, HeldByOthers
  <2>7. \A d \in Descriptors :
          kernel'[d] \in {"connected", "closing"} => IsConnected(d)
    BY <2>3 DEF IsConnected
  <2> QED BY <1>0, <2>4, <2>5, <2>6, <2>7, InstanceStep
<1>3. CASE ~ (c /\ s)
  <2>1. LookedUp(c) /\ UNCHANGED KnownVars /\ UNCHANGED kernel
    BY <1>3 DEF setParameters, KnownVars, kernelVars
  <2> QED BY <1>0, <2>1, QuietStep
<1> QED BY <1>1, <1>2, <1>3

LEMMA acceptConnectionOwnership ==
  ASSUME TypeInv, Ownership, NEW i \in Instances, acceptConnection(i)
  PROVE  Ownership'
<1> DEFINE d == network_socket_descriptor[i]
<1>1. CASE Abort \/ Fail(cannot_bind)
  BY <1>1, EndsOwnership DEF cannot_bind
<1>2. CASE /\ kernel[d] = "socket"
           /\ kernel' = [kernel EXCEPT ![d] = "listening"]
           /\ accepting' = [accepting EXCEPT ![i] = TRUE]
           /\ network_connection_established' =
                [network_connection_established EXCEPT ![i] = FALSE]
           /\ network_connection_is_client' =
                [network_connection_is_client EXCEPT ![i] = FALSE]
           /\ UNCHANGED <<descriptorVars, debugVars>>
  <2>0. process = "running"
    BY DEF acceptConnection, Running
  <2>1. d \in Descriptors
    BY HeldByOthers
  <2>2. \A e \in Descriptors : kernel'[e] = IF e = d THEN "listening" ELSE kernel[e]
    BY <1>2, <2>1 DEF TypeInv, ObjectTypes
  <2>3. Others(i) /\ network_socket_descriptor'[i] = d
    BY <1>2 DEF Others, TypeInv, ObjectTypes, descriptorVars
  <2>4. /\ ~ network_connection_established'[i] /\ ~ network_connection_is_client'[i]
        /\ ~ network_connection_established[i]
    <3>1. network_connection_established[i] =>
            IF network_connection_is_client[i]
              THEN kernel[d] \in {"connected", "closing"}
              ELSE kernel[d] = "listening"
      BY HeldByOthers DEF network_descriptor, Serves
    <3>2. ~ network_connection_established[i]
      BY <1>2, <3>1
    <3> QED BY <1>2, <3>2 DEF TypeInv, ObjectTypes
  <2>5. \A j \in Instances \ {i} :
          /\ Serves(j) => /\ kernel'[network_socket_descriptor[j]] = "listening"
                          /\ d # network_socket_descriptor[j]
          /\ network_connection_established[j] =>
               kernel'[network_descriptor(j)] \in {"connected", "closing"}
    BY <1>2, <2>1, <2>2, HeldByOthers
  <2>6. \A e \in Descriptors :
          kernel'[e] \in {"connected", "closing"} => IsConnected(e)
    BY <2>2 DEF IsConnected
  <2>7. kernel'[d] = "listening"
    BY <2>1, <2>2
  <2> HIDE DEF d
  <2> QED BY <2>0, <2>3, <2>4, <2>5, <2>6, <2>7, InstanceStep
<1> QED BY <1>1, <1>2 DEF acceptConnection

LEMMA acceptedOwnership ==
  ASSUME TypeInv, Ownership, NEW i \in Instances, accepted(i)
  PROVE  Ownership'
<1>0. process = "running" /\ accepting[i]
  BY DEF accepted
<1>1. CASE Free = {}
  <2>1. Fail(cannot_accept_connection) /\ cannot_accept_connection \in Nat
    BY <1>1 DEF accepted, cannot_accept_connection
  <2> QED BY <2>1, EndsOwnership
<1>2. CASE Free # {}
  <2>1. LowestFree \in Descriptors /\ kernel[LowestFree] = "free"
    BY <1>2, LowestFreeIsFree
  <2>2. \A e \in Descriptors :
          kernel'[e] = IF e = LowestFree THEN "connected" ELSE kernel[e]
    BY <1>2, <2>1 DEF accepted, TypeInv, ObjectTypes
  <2>3. Others(i)
    BY <1>2 DEF accepted, Others, TypeInv, ObjectTypes
  <2>4. /\ ~ network_connection_established[i] /\ ~ network_connection_is_client[i]
        /\ Serves(i)
    BY <1>0 DEF Ownership, WaitingIsServer, Serves
  <2>5. /\ ~ accepting'[i]
        /\ network_descriptor(i)' = LowestFree
        /\ network_socket_descriptor'[i] = network_socket_descriptor[i]
    BY <1>2, <2>4 DEF accepted, TypeInv, ObjectTypes, network_descriptor
  <2>6. kernel'[network_socket_descriptor'[i]] = "listening"
    BY <2>1, <2>2, <2>4, <2>5, HeldByOthers
  <2>7. \A j \in Instances \ {i} :
          /\ Serves(j) => /\ kernel'[network_socket_descriptor[j]] = "listening"
                          /\ network_socket_descriptor'[i] # network_socket_descriptor[j]
          /\ network_connection_established[j] =>
               /\ kernel'[network_descriptor(j)] \in {"connected", "closing"}
               /\ LowestFree # network_descriptor(j)
    BY <2>1, <2>2, <2>4, <2>5, HeldByOthers DEF Ownership, ServersApart
  <2>8. \A e \in Descriptors : kernel'[e] \in {"connected", "closing"} =>
          \/ network_connection_established'[i] /\ network_descriptor(i)' = e
          \/ IsConnected(e)
    BY <1>2, <2>2, <2>5 DEF accepted, TypeInv, ObjectTypes, IsConnected
  <2>9. kernel'[network_descriptor(i)'] \in {"connected", "closing"}
    BY <2>1, <2>2, <2>5
  <2> QED BY <1>0, <2>3, <2>4, <2>5, <2>6, <2>7, <2>8, <2>9, InstanceStep
<1> QED BY <1>1, <1>2

LEMMA startConnectionOwnership ==
  ASSUME TypeInv, Ownership, NEW i \in Instances, startConnection(i)
  PROVE  Ownership'
<1> DEFINE d == network_socket_descriptor[i]
<1>1. CASE Abort \/ Fail(cannot_connect)
  BY <1>1, EndsOwnership DEF cannot_connect
<1>2. CASE /\ ~ network_connection_established[i]
           /\ kernel[d] = "socket"
           /\ kernel' = [kernel EXCEPT ![d] = "connected"]
           /\ network_connection_is_client' =
                [network_connection_is_client EXCEPT ![i] = TRUE]
           /\ network_connection_established' =
                [network_connection_established EXCEPT ![i] = TRUE]
           /\ UNCHANGED <<descriptorVars, accepting, debugVars>>
  <2>0. process = "running" /\ ~ accepting[i]
    BY DEF startConnection, Running
  <2>1. d \in Descriptors
    BY HeldByOthers
  <2>2. \A e \in Descriptors : kernel'[e] = IF e = d THEN "connected" ELSE kernel[e]
    BY <1>2, <2>1 DEF TypeInv, ObjectTypes
  <2>3. Others(i)
    BY <1>2 DEF Others, TypeInv, ObjectTypes, descriptorVars
  <2>4. /\ ~ accepting'[i] /\ ~ Serves(i)'
        /\ network_connection_established'[i] /\ network_descriptor(i)' = d
    BY <1>2, <2>0 DEF TypeInv, ObjectTypes, network_descriptor, Serves, descriptorVars
  <2>5. \A j \in Instances \ {i} :
          /\ Serves(j) => kernel'[network_socket_descriptor[j]] = "listening"
          /\ network_connection_established[j] =>
               /\ kernel'[network_descriptor(j)] \in {"connected", "closing"}
               /\ d # network_descriptor(j)
    BY <1>2, <2>1, <2>2, HeldByOthers
  <2>6. \A e \in Descriptors : kernel'[e] \in {"connected", "closing"} =>
          d = e \/ IsConnected(e)
    BY <2>2 DEF IsConnected
  <2>7. kernel'[d] \in {"connected", "closing"}
    BY <2>1, <2>2
  <2> HIDE DEF d
  <2> QED BY <1>2, <2>0, <2>3, <2>4, <2>5, <2>6, <2>7, InstanceStep
<1> QED BY <1>1, <1>2 DEF startConnection

LEMMA terminateConnectionOwnership ==
  ASSUME TypeInv, Ownership, NEW i \in Instances, terminateConnection(i)
  PROVE  Ownership'
<1>1. CASE ~ network_connection_established[i]
  BY <1>1, EndsOwnership DEF terminateConnection
<1>2. CASE network_connection_established[i]
  <2>0. process = "running" /\ ~ accepting[i]
    BY DEF terminateConnection, Running
  <2>1. \A e \in Descriptors :
          kernel'[e] = IF e \in Held(i) THEN "free" ELSE kernel[e]
    BY <1>2 DEF terminateConnection
  <2>2. Others(i)
    BY <1>2 DEF terminateConnection, Others, TypeInv, ObjectTypes, descriptorVars
  <2>3. ~ accepting'[i] /\ ~ network_connection_established'[i] /\ ~ Serves(i)'
    BY <1>2, <2>0 DEF terminateConnection, TypeInv, ObjectTypes, Serves
  <2>4. network_descriptor(i) \in Held(i)
    BY DEF network_descriptor, Held
  <2>5. \A e \in Held(i) :
          \/ e = network_descriptor(i)
          \/ Serves(i) /\ e = network_socket_descriptor[i]
    BY <1>2 DEF network_descriptor, Held, Serves
  <2>6. ASSUME NEW j \in Instances \ {i}
        PROVE  /\ Serves(j) => network_socket_descriptor[j] \notin Held(i)
               /\ network_connection_established[j] =>
                    network_descriptor(j) \notin Held(i)
    <3>1. ASSUME Serves(j) PROVE network_socket_descriptor[j] \notin Held(i)
      <4>1. Serves(i) => network_socket_descriptor[j] # network_socket_descriptor[i]
        BY <3>1 DEF Ownership, ServersApart
      <4>2. network_socket_descriptor[j] # network_descriptor(i)
        BY <1>2, <3>1, HeldByOthers
      <4> QED BY <2>5, <4>1, <4>2
    <3>2. ASSUME network_connection_established[j]
          PROVE  network_descriptor(j) \notin Held(i)
      <4>1. network_descriptor(j) # network_descriptor(i)
        BY <1>2, <3>2 DEF Ownership, ConnectionsApart
      <4>2. Serves(i) => network_descriptor(j) # network_socket_descriptor[i]
        BY <3>2, HeldByOthers
      <4> QED BY <2>5, <4>1, <4>2
    <3> QED BY <3>1, <3>2
  <2>7. \A j \in Instances \ {i} :
          /\ Serves(j) => kernel'[network_socket_descriptor[j]] = "listening"
          /\ network_connection_established[j] =>
               kernel'[network_descriptor(j)] \in {"connected", "closing"}
    BY <2>1, <2>6, HeldByOthers
  <2>8. \A e \in Descriptors : kernel'[e] \in {"connected", "closing"} =>
          IsConnected(e) /\ network_descriptor(i) # e
    BY <2>1, <2>4 DEF IsConnected
  <2> QED BY <2>0, <2>2, <2>3, <2>7, <2>8, InstanceStep
<1> QED BY <1>1, <1>2

LEMMA TrafficOwnership ==
  ASSUME TypeInv, Ownership,
         \/ \E i \in Instances, n \in Sizes : sendToConnection(i, n)
         \/ \E i \in Instances : receiveFromConnection(i)
         \/ \E d \in Descriptors, n \in Sizes : PeerSends(d, n)
         \/ UNCHANGED vars
  PROVE  Ownership'
<1>1. CASE Abort \/ Undefined
  BY <1>1, EndsOwnership
<1>2. CASE ~ (Abort \/ Undefined)
  <2>1. UNCHANGED KnownVars /\ UNCHANGED kernel /\ UNCHANGED process
    BY <1>2 DEF sendToConnection, receiveFromConnection, PeerSends, vars, stateVars,
                flagVars, kernelVars, debugVars, KnownVars
  <2> QED BY <2>1, QuietStep
<1> QED BY <1>1, <1>2

LEMMA WorldOwnership ==
  ASSUME TypeInv, Ownership,
         OpenFile \/ (\E d \in Descriptors : PeerCloses(d) \/ CloseFile(d))
  PROVE  Ownership'
<1>1. OnlyKernel /\ process = "running"
  BY WorldKernel
<1>2. PICK d \in Descriptors, s \in DescriptorStates :
        /\ kernel' = [kernel EXCEPT ![d] = s]
        /\ \/ kernel[d] = "free" /\ s = "file"
           \/ kernel[d] = "file" /\ s = "free"
           \/ kernel[d] = "connected" /\ s = "closing"
  BY WorldKernel
<1>3. UNCHANGED KnownVars
  BY <1>1 DEF OnlyKernel, flagVars, KnownVars
<1>4. \A e \in Descriptors :
        /\ kernel[e] = "listening" => kernel'[e] = "listening"
        /\ kernel[e] \in {"connected", "closing"}
             <=> kernel'[e] \in {"connected", "closing"}
  BY <1>2 DEF TypeInv, ObjectTypes
<1> QED BY <1>1, <1>3, <1>4, QuietStep

LEMMA OwnershipStep ==
  ASSUME ~ Reparameterise, TypeInv, Ownership, [Next]_vars
  PROVE  Ownership'
BY setParametersOwnership, acceptConnectionOwnership, acceptedOwnership,
   startConnectionOwnership, terminateConnectionOwnership, TrafficOwnership,
   WorldOwnership DEF Next

LEMMA InitOwnership == Init => Ownership
BY DEF Init, Ownership, WaitingIsServer, ServerListens, EstablishedIsConnected,
       ServersApart, ConnectionsApart, ConnectionsAreOwned, Serves, IsConnected

(***************************************************************************)
(* As long as setParameters is not called on an established instance,      *)
(* every behaviour of the instances stays within Ownership.                *)
(***************************************************************************)
THEOREM OwnershipInvariance ==
  ASSUME ~ Reparameterise
  PROVE  Spec => [](TypeInv /\ Ownership)
<1>1. TypeInv /\ Ownership /\ [Next]_vars => (TypeInv /\ Ownership)'
  BY TypeStep, OwnershipStep
<1> QED BY <1>1, InitType, InitOwnership, PTL DEF Spec

(***************************************************************************)
(* As long as setParameters is not called on an established instance, the  *)
(* descriptor such an instance sends to is a connected socket, and what    *)
(* its terminateConnection closes is nothing that another one holds, for   *)
(* any number of instances that reuse each other's descriptor numbers.     *)
(***************************************************************************)
THEOREM EstablishedIsOwner ==
  ASSUME ~ Reparameterise
  PROVE  Spec => []EstablishedOwnsItsConnection
<1> QED BY OwnershipInvariance, OwnershipGivesOwner, PTL

----------------------------------------------------------------------------
(***************************************************************************)
(* The refinement.  A step that leaves what the instances know alone, and  *)
(* what is a connection, is a stutter of Connections.                      *)
(***************************************************************************)
LEMMA QuietRefinement ==
  ASSUME UNCHANGED KnownVars,
         \A d \in Descriptors : IsConnected(d)' <=> IsConnected(d)
  PROVE  UNCHANGED <<connection, open>>
<1>1. \A i \in Instances : network_descriptor(i)' = network_descriptor(i)
  BY DEF KnownVars, descriptorVars, network_descriptor
<1>2. UNCHANGED connection
  BY <1>1 DEF connection, KnownVars
<1>3. UNCHANGED open
  BY DEF open
<1> QED BY <1>2, <1>3

LEMMA EndsRefinement ==
  ASSUME Abort \/ Undefined \/ (\E code \in Nat : Fail(code))
  PROVE  UNCHANGED <<connection, open>>
<1>1. UNCHANGED KnownVars /\ UNCHANGED kernel
  BY DEF Abort, Undefined, Fail, stateVars, flagVars, kernelVars, KnownVars
<1> QED BY <1>1, QuietRefinement DEF IsConnected

(***************************************************************************)
(* What a step of instance i does to the connection of each instance.      *)
(***************************************************************************)
LEMMA OwnConnection ==
  ASSUME TypeInv, NEW i \in Instances, Others(i)
  PROVE  connection' =
           [connection EXCEPT ![i] = IF network_connection_established'[i]
                                       THEN {network_descriptor(i)'} ELSE {}]
<1>1. ASSUME NEW j \in Instances \ {i}
      PROVE  connection'[j] = connection[j]
  <2>1. network_descriptor(j)' = network_descriptor(j)
    BY OthersKnow
  <2> QED BY <2>1 DEF connection, Others
<1> QED BY <1>1 DEF connection

(***************************************************************************)
(* setParameters and acceptConnection open a socket and a listening one,   *)
(* no connection; the instance has none.                                   *)
(***************************************************************************)
LEMMA NoConnectionStep ==
  ASSUME TypeInv, NEW i \in Instances, Others(i),
         ~ network_connection_established[i], ~ network_connection_established'[i],
         \A d \in Descriptors : IsConnected(d)' <=> IsConnected(d)
  PROVE  UNCHANGED <<connection, open>>
<1>1. connection' = [connection EXCEPT ![i] = {}]
  BY OwnConnection
<1>2. connection[i] = {} /\ connection = [j \in Instances |-> connection[j]]
  BY DEF connection
<1>3. UNCHANGED connection
  BY <1>1, <1>2
<1>4. UNCHANGED open
  BY DEF open
<1> QED BY <1>3, <1>4

LEMMA setParametersRefinement ==
  ASSUME ~ Reparameterise, TypeInv,
         NEW i \in Instances, NEW c \in BOOLEAN, NEW s \in BOOLEAN,
         setParameters(i, c, s)
  PROVE  UNCHANGED <<connection, open>>
<1>0. ~ network_connection_established[i]
  BY DEF setParameters
<1>1. CASE (c /\ s) /\ Free = {}
  <2>1. Fail(cannot_open_socket) /\ cannot_open_socket \in Nat
    BY <1>1 DEF setParameters, cannot_open_socket
  <2> QED BY <2>1, EndsRefinement
<1>2. CASE (c /\ s) /\ Free # {}
  <2>1. /\ initConnection(i)
        /\ UNCHANGED <<network_connection_is_client, network_connection_established,
                       network_established_socket_descriptor, accepting>>
    BY <1>2 DEF setParameters
  <2>2. LowestFree \in Descriptors /\ kernel[LowestFree] = "free"
    BY <1>2, LowestFreeIsFree
  <2>3. \A d \in Descriptors : IsConnected(d)' <=> IsConnected(d)
    BY <2>1, <2>2 DEF initConnection, TypeInv, ObjectTypes, IsConnected
  <2>4. Others(i)
    BY <2>1 DEF initConnection, Others, TypeInv, ObjectTypes
  <2> QED BY <1>0, <2>1, <2>3, <2>4, NoConnectionStep
<1>3. CASE ~ (c /\ s)
  <2>1. UNCHANGED KnownVars /\ UNCHANGED kernel
    BY <1>3 DEF setParameters, KnownVars, kernelVars
  <2> QED BY <2>1, QuietRefinement DEF IsConnected
<1> QED BY <1>1, <1>2, <1>3

(***************************************************************************)
(* An established instance cannot listen again: its socket is in use.      *)
(***************************************************************************)
LEMMA acceptConnectionRefinement ==
  ASSUME TypeInv, Ownership, NEW i \in Instances, acceptConnection(i)
  PROVE  UNCHANGED <<connection, open>>
<1> DEFINE d == network_socket_descriptor[i]
<1>1. CASE Abort \/ Fail(cannot_bind)
  BY <1>1, EndsRefinement DEF cannot_bind
<1>2. CASE /\ kernel[d] = "socket"
           /\ kernel' = [kernel EXCEPT ![d] = "listening"]
           /\ accepting' = [accepting EXCEPT ![i] = TRUE]
           /\ network_connection_established' =
                [network_connection_established EXCEPT ![i] = FALSE]
           /\ network_connection_is_client' =
                [network_connection_is_client EXCEPT ![i] = FALSE]
           /\ UNCHANGED descriptorVars
  <2>1. Others(i) /\ ~ network_connection_established'[i]
    BY <1>2 DEF Others, TypeInv, ObjectTypes, descriptorVars
  <2>2. network_connection_established[i] =>
          IF network_connection_is_client[i]
            THEN kernel[d] \in {"connected", "closing"}
            ELSE kernel[d] = "listening"
    BY HeldByOthers DEF network_descriptor, Serves
  <2>3. d \in Descriptors
    BY HeldByOthers
  <2>4. \A e \in Descriptors : IsConnected(e)' <=> IsConnected(e)
    BY <1>2, <2>3 DEF TypeInv, ObjectTypes, IsConnected
  <2> HIDE DEF d
  <2> QED BY <1>2, <2>1, <2>2, <2>4, NoConnectionStep
<1> QED BY <1>1, <1>2 DEF acceptConnection

(***************************************************************************)
(* A connection is established on a descriptor that was none.              *)
(***************************************************************************)
LEMMA EstablishStep ==
  ASSUME TypeInv, NEW i \in Instances, Others(i), NEW d \in Descriptors,
         ~ network_connection_established[i], network_connection_established'[i],
         network_descriptor(i)' = d, ~ IsConnected(d),
         kernel' = [kernel EXCEPT ![d] = "connected"]
  PROVE  C!Establish(i, d)
<1>1. connection' = [connection EXCEPT ![i] = {d}]
  BY OwnConnection
<1>2. connection[i] = {} /\ d \notin open
  BY DEF connection, open
<1>3. open' = open \cup {d}
  BY DEF open, IsConnected, TypeInv, ObjectTypes
<1> QED BY <1>1, <1>2, <1>3 DEF C!Establish

LEMMA acceptedRefinement ==
  ASSUME TypeInv, Ownership, NEW i \in Instances, accepted(i)
  PROVE  (\E d \in Descriptors : C!Establish(i, d)) \/ UNCHANGED <<connection, open>>
<1>0. accepting[i]
  BY DEF accepted
<1>1. CASE Free = {}
  <2>1. Fail(cannot_accept_connection) /\ cannot_accept_connection \in Nat
    BY <1>1 DEF accepted, cannot_accept_connection
  <2> QED BY <2>1, EndsRefinement
<1>2. CASE Free # {}
  <2>1. LowestFree \in Descriptors /\ ~ IsConnected(LowestFree)
    BY <1>2, LowestFreeIsFree DEF IsConnected
  <2>2. Others(i)
    BY <1>2 DEF accepted, Others, TypeInv, ObjectTypes
  <2>3. ~ network_connection_established[i] /\ ~ network_connection_is_client[i]
    BY <1>0 DEF Ownership, WaitingIsServer
  <2>4. network_connection_established'[i] /\ network_descriptor(i)' = LowestFree
    BY <1>2, <2>3 DEF accepted, TypeInv, ObjectTypes, network_descriptor
  <2>5. kernel' = [kernel EXCEPT ![LowestFree] = "connected"]
    BY <1>2 DEF accepted
  <2>6. C!Establish(i, LowestFree)
    BY <2>1, <2>2, <2>3, <2>4, <2>5, EstablishStep
  <2> QED BY <2>1, <2>6
<1> QED BY <1>1, <1>2

LEMMA startConnectionRefinement ==
  ASSUME TypeInv, NEW i \in Instances, startConnection(i)
  PROVE  (\E d \in Descriptors : C!Establish(i, d)) \/ UNCHANGED <<connection, open>>
<1> DEFINE d == network_socket_descriptor[i]
<1>1. CASE Abort \/ Fail(cannot_connect)
  BY <1>1, EndsRefinement DEF cannot_connect
<1>2. CASE /\ ~ network_connection_established[i]
           /\ kernel[d] = "socket"
           /\ kernel' = [kernel EXCEPT ![d] = "connected"]
           /\ network_connection_is_client' =
                [network_connection_is_client EXCEPT ![i] = TRUE]
           /\ network_connection_established' =
                [network_connection_established EXCEPT ![i] = TRUE]
           /\ UNCHANGED <<descriptorVars, accepting, debugVars>>
  <2>1. d \in Descriptors /\ ~ IsConnected(d)
    BY <1>2 DEF TypeInv, ObjectTypes, IsConnected
  <2>2. Others(i)
    BY <1>2 DEF Others, TypeInv, ObjectTypes, descriptorVars
  <2>3. network_connection_established'[i] /\ network_descriptor(i)' = d
    BY <1>2 DEF TypeInv, ObjectTypes, network_descriptor, descriptorVars
  <2> HIDE DEF d
  <2>4. C!Establish(i, d)
    BY <1>2, <2>1, <2>2, <2>3, EstablishStep
  <2> QED BY <2>1, <2>4
<1> QED BY <1>1, <1>2 DEF startConnection

(***************************************************************************)
(* Of the descriptors terminateConnection closes, the one a server listens *)
(* on is no connection: it closes one, the instance's own.                 *)
(***************************************************************************)
LEMMA terminateConnectionRefinement ==
  ASSUME TypeInv, Ownership, NEW i \in Instances, terminateConnection(i)
  PROVE  C!Terminate(i) \/ UNCHANGED <<connection, open>>
<1>1. CASE ~ network_connection_established[i]
  BY <1>1, EndsRefinement DEF terminateConnection
<1>2. CASE network_connection_established[i]
  <2>1. Others(i) /\ ~ network_connection_established'[i]
    BY <1>2 DEF terminateConnection, Others, TypeInv, ObjectTypes, descriptorVars
  <2>2. connection' = [connection EXCEPT ![i] = {}]
    BY <2>1, OwnConnection
  <2>3. connection[i] = {network_descriptor(i)}
    BY <1>2 DEF connection
  <2>4. /\ network_descriptor(i) \in Held(i)
        /\ \A e \in Held(i) :
             e = network_descriptor(i) \/ kernel[e] = "listening"
    <3>1. Serves(i) => kernel[network_socket_descriptor[i]] = "listening"
      BY HeldByOthers
    <3> QED BY <1>2, <3>1 DEF network_descriptor, Held, Serves
  <2>5. ASSUME NEW e \in Descriptors
        PROVE  e \in open' <=> e \in open /\ e # network_descriptor(i)
    <3>1. kernel'[e] = IF e \in Held(i) THEN "free" ELSE kernel[e]
      BY <1>2 DEF terminateConnection
    <3> QED BY <2>4, <3>1 DEF open, IsConnected
  <2>6. open' = open \ connection[i]
    <3>1. open \subseteq Descriptors /\ open' \subseteq Descriptors
      BY DEF open
    <3> QED BY <2>3, <2>5, <3>1
  <2> QED BY <2>2, <2>3, <2>6 DEF C!Terminate
<1> QED BY <1>1, <1>2

LEMMA TrafficRefinement ==
  ASSUME TypeInv,
         \/ \E i \in Instances, n \in Sizes : sendToConnection(i, n)
         \/ \E i \in Instances : receiveFromConnection(i)
         \/ \E d \in Descriptors, n \in Sizes : PeerSends(d, n)
         \/ UNCHANGED vars
  PROVE  UNCHANGED <<connection, open>>
<1>1. CASE Abort \/ Undefined
  BY <1>1, EndsRefinement
<1>2. CASE ~ (Abort \/ Undefined)
  <2>1. UNCHANGED KnownVars /\ UNCHANGED kernel
    BY <1>2 DEF sendToConnection, receiveFromConnection, PeerSends, vars, stateVars,
                flagVars, kernelVars, debugVars, KnownVars
  <2> QED BY <2>1, QuietRefinement DEF IsConnected
<1> QED BY <1>1, <1>2

LEMMA WorldRefinement ==
  ASSUME TypeInv, OpenFile \/ (\E d \in Descriptors : PeerCloses(d) \/ CloseFile(d))
  PROVE  UNCHANGED <<connection, open>>
<1>1. UNCHANGED KnownVars
  BY WorldKernel DEF OnlyKernel, flagVars, KnownVars
<1>2. \A e \in Descriptors : IsConnected(e)' <=> IsConnected(e)
  <2>1. PICK d \in Descriptors, s \in DescriptorStates :
          /\ kernel' = [kernel EXCEPT ![d] = s]
          /\ \/ kernel[d] = "free" /\ s = "file"
             \/ kernel[d] = "file" /\ s = "free"
             \/ kernel[d] = "connected" /\ s = "closing"
    BY WorldKernel
  <2> QED BY <2>1 DEF TypeInv, ObjectTypes, IsConnected
<1> QED BY <1>1, <1>2, QuietRefinement

LEMMA RefinementStep ==
  ASSUME ~ Reparameterise, TypeInv, Ownership, [Next]_vars
  PROVE  [C!ConnectionsNext]_<<connection, open>>
<1>1. ASSUME NEW i \in Instances, NEW c \in BOOLEAN, NEW s \in BOOLEAN,
             setParameters(i, c, s)
      PROVE  UNCHANGED <<connection, open>>
  BY <1>1, setParametersRefinement
<1>2. ASSUME NEW i \in Instances,
             \/ acceptConnection(i) \/ accepted(i)
             \/ startConnection(i) \/ terminateConnection(i)
      PROVE  \/ C!Terminate(i) \/ (\E d \in Descriptors : C!Establish(i, d))
             \/ UNCHANGED <<connection, open>>
  BY <1>2, acceptConnectionRefinement, acceptedRefinement, startConnectionRefinement,
     terminateConnectionRefinement
<1>3. ASSUME NEW i \in Instances,
             C!Terminate(i) \/ (\E d \in Descriptors : C!Establish(i, d))
      PROVE  C!ConnectionsNext
  BY <1>3 DEF C!ConnectionsNext
<1> QED BY <1>1, <1>2, <1>3, TrafficRefinement, WorldRefinement DEF Next

(***************************************************************************)
(* As long as setParameters is not called on an established instance, the  *)
(* instances implement Connections: startConnection and accept give an     *)
(* instance without a connection one that nobody had, terminateConnection  *)
(* takes the instance's own away, and no other step opens or closes one.   *)
(***************************************************************************)
THEOREM InstancesImplementConnections ==
  ASSUME ~ Reparameterise
  PROVE  Spec => ImplementsConnections
<1>1. Init => C!ConnectionsInit
  BY DEF Init, C!ConnectionsInit, connection, open, IsConnected
<1>2. TypeInv /\ Ownership /\ [Next]_vars => [C!ConnectionsNext]_<<connection, open>>
  BY RefinementStep
<1> QED BY <1>1, <1>2, OwnershipInvariance, PTL DEF Spec, C!Spec, ImplementsConnections

----------------------------------------------------------------------------
(***************************************************************************)
(* Without the condition: setParameters may also be called on established  *)
(* instances.  What is left of Ownership is that an instance that waits in *)
(* accept has no connection.                                               *)
(***************************************************************************)
LEMMA WaitingKept ==
  ASSUME WaitingIsServer, UNCHANGED KnownVars
  PROVE  WaitingIsServer'
BY DEF WaitingIsServer, KnownVars

LEMMA WaitingOthers ==
  ASSUME WaitingIsServer, NEW i \in Instances, Others(i),
         accepting'[i] =>
           ~ network_connection_established'[i] /\ ~ network_connection_is_client'[i]
  PROVE  WaitingIsServer'
BY DEF WaitingIsServer, Others

(***************************************************************************)
(* What each operation of an instance does to the instances.               *)
(***************************************************************************)
LEMMA OperationsOfOne ==
  ASSUME TypeInv, NEW i \in Instances,
         \/ \E c, s \in BOOLEAN : setParameters(i, c, s)
         \/ acceptConnection(i) \/ startConnection(i)
         \/ terminateConnection(i) \/ accepted(i)
  PROVE  \/ UNCHANGED KnownVars /\ UNCHANGED kernel
         \/ Others(i)
<1>1. CASE Abort \/ Undefined \/ (\E code \in Nat : Fail(code))
  BY <1>1 DEF Abort, Undefined, Fail, stateVars, flagVars, kernelVars, KnownVars
<1>2. ASSUME NEW c \in BOOLEAN, NEW s \in BOOLEAN, setParameters(i, c, s)
      PROVE  (UNCHANGED KnownVars /\ UNCHANGED kernel) \/ Others(i)
  <2>1. CASE (c /\ s) /\ Free = {}
    BY <1>1, <1>2, <2>1 DEF setParameters, cannot_open_socket
  <2>2. CASE (c /\ s) /\ Free # {}
    BY <1>2, <2>2 DEF setParameters, initConnection, Others, TypeInv, ObjectTypes
  <2>3. CASE ~ (c /\ s)
    BY <1>2, <2>3 DEF setParameters, KnownVars, kernelVars
  <2> QED BY <2>1, <2>2, <2>3
<1>3. ASSUME acceptConnection(i)
      PROVE  (UNCHANGED KnownVars /\ UNCHANGED kernel) \/ Others(i)
  <2>1. CASE Abort \/ Fail(cannot_bind)
    BY <1>1, <2>1 DEF cannot_bind
  <2>2. CASE ~ (Abort \/ Fail(cannot_bind))
    BY <1>3, <2>2 DEF acceptConnection, Others, TypeInv, ObjectTypes, descriptorVars
  <2> QED BY <2>1, <2>2
<1>4. ASSUME startConnection(i)
      PROVE  (UNCHANGED KnownVars /\ UNCHANGED kernel) \/ Others(i)
  <2>1. CASE Abort \/ Fail(cannot_connect)
    BY <1>1, <2>1 DEF cannot_connect
  <2>2. CASE ~ (Abort \/ Fail(cannot_connect))
    BY <1>4, <2>2 DEF startConnection, Others, TypeInv, ObjectTypes, descriptorVars
  <2> QED BY <2>1, <2>2
<1>5. ASSUME terminateConnection(i)
      PROVE  (UNCHANGED KnownVars /\ UNCHANGED kernel) \/ Others(i)
  <2>1. CASE Abort
    BY <1>1, <2>1
  <2>2. CASE ~ Abort
    BY <1>5, <2>2 DEF terminateConnection, Others, TypeInv, ObjectTypes, descriptorVars
  <2> QED BY <2>1, <2>2
<1>6. ASSUME accepted(i)
      PROVE  (UNCHANGED KnownVars /\ UNCHANGED kernel) \/ Others(i)
  <2>1. CASE Free = {}
    BY <1>1, <1>6, <2>1 DEF accepted, cannot_accept_connection
  <2>2. CASE Free # {}
    BY <1>6, <2>2 DEF accepted, Others, TypeInv, ObjectTypes
  <2> QED BY <2>1, <2>2
<1> QED BY <1>2, <1>3, <1>4, <1>5, <1>6

(***************************************************************************)
(* What traffic, peers and other files do to the instances: nothing.       *)
(***************************************************************************)
LEMMA OthersOperations ==
  ASSUME TypeInv,
         \/ \E i \in Instances, n \in Sizes : sendToConnection(i, n)
         \/ \E i \in Instances : receiveFromConnection(i)
         \/ \E d \in Descriptors, n \in Sizes : PeerSends(d, n)
         \/ UNCHANGED vars
         \/ OpenFile \/ (\E d \in Descriptors : PeerCloses(d) \/ CloseFile(d))
  PROVE  UNCHANGED KnownVars
<1>1. CASE OpenFile \/ (\E d \in Descriptors : PeerCloses(d) \/ CloseFile(d))
  BY <1>1, WorldKernel DEF OnlyKernel, flagVars, KnownVars
<1>2. CASE Abort \/ Undefined
  BY <1>2 DEF Abort, Undefined, stateVars, flagVars, KnownVars
<1> QED BY <1>1, <1>2
        DEF sendToConnection, receiveFromConnection, PeerSends, vars, stateVars,
            flagVars, KnownVars

LEMMA WaitingStep ==
  ASSUME TypeInv, WaitingIsServer, [Next]_vars
  PROVE  WaitingIsServer'
<1>1. ASSUME NEW i \in Instances,
             \/ \E c, s \in BOOLEAN : setParameters(i, c, s)
             \/ acceptConnection(i) \/ startConnection(i)
             \/ terminateConnection(i) \/ accepted(i)
      PROVE  WaitingIsServer'
  <2>1. CASE UNCHANGED KnownVars
    BY <2>1, WaitingKept
  <2>2. CASE Others(i) /\ ~ UNCHANGED KnownVars
    <3>1. ~ Abort /\ ~ (\E code \in Nat : Fail(code))
      BY <2>2 DEF Abort, Fail, stateVars, flagVars, KnownVars
    <3>2. ASSUME NEW c \in BOOLEAN, NEW s \in BOOLEAN, setParameters(i, c, s)
          PROVE  ~ accepting'[i]
      <4>1. ~ accepting[i] /\ accepting' = accepting
        BY <2>2, <3>1, <3>2
           DEF setParameters, Running, Fail, stateVars, cannot_open_socket
      <4> QED BY <4>1
    <3>3. ASSUME acceptConnection(i)
          PROVE  /\ ~ network_connection_established'[i]
                 /\ ~ network_connection_is_client'[i]
      BY <3>1, <3>3 DEF acceptConnection, cannot_bind, TypeInv, ObjectTypes
    <3>4. ASSUME startConnection(i) \/ terminateConnection(i)
          PROVE  ~ accepting'[i]
      BY <3>1, <3>4 DEF startConnection, terminateConnection, Running, cannot_connect
    <3>5. ASSUME accepted(i) PROVE ~ accepting'[i]
      BY <3>1, <3>5 DEF accepted, cannot_accept_connection, TypeInv, ObjectTypes
    <3> QED BY <1>1, <2>2, <3>2, <3>3, <3>4, <3>5, WaitingOthers
  <2> QED BY <1>1, <2>1, <2>2, OperationsOfOne
<1> QED BY <1>1, OthersOperations, WaitingKept DEF Next

(***************************************************************************)
(* A connection that gets lost in a step of i, which opens none but its    *)
(* own, was i's.                                                           *)
(***************************************************************************)
LEMMA LostByOwner ==
  ASSUME TypeInv, NEW i \in Instances, Others(i), NEW d \in Descriptors,
         Lost(d)', ~ Lost(d), IsConnected(d)
  PROVE  network_connection_established[i] /\ network_descriptor(i) = d
<1>1. PICK k \in Instances :
        network_connection_established[k] /\ network_descriptor(k) = d
  BY DEF Lost
<1>2. ASSUME k # i PROVE FALSE
  <2>1. network_descriptor(k)' = network_descriptor(k)
    BY <1>2, OthersKnow
  <2>2. network_connection_established'[k]
    BY <1>1, <1>2 DEF Others
  <2> QED BY <1>1, <2>1, <2>2 DEF Lost
<1> QED BY <1>1, <1>2

LEMMA LostQuietly ==
  ASSUME UNCHANGED KnownVars, NEW d \in Descriptors, IsConnected(d)' => IsConnected(d),
         Lost(d)'
  PROVE  Lost(d)
<1>1. \A i \in Instances : network_descriptor(i)' = network_descriptor(i)
  BY DEF KnownVars, descriptorVars, network_descriptor
<1> QED BY <1>1 DEF Lost, KnownVars

(***************************************************************************)
(* The operations that lose nothing: connecting and accepting take a       *)
(* connection that is the instance's own, terminating closes it.           *)
(***************************************************************************)
LEMMA StartLosesNothing ==
  ASSUME TypeInv, NEW i \in Instances, startConnection(i), NEW d \in Descriptors, Lost(d)'
  PROVE  Lost(d)
<1> DEFINE e == network_socket_descriptor[i]
<1>1. CASE Abort \/ Fail(cannot_connect)
  <2>1. UNCHANGED KnownVars /\ UNCHANGED kernel
    BY <1>1 DEF Abort, Fail, stateVars, flagVars, kernelVars, KnownVars
  <2> QED BY <2>1, LostQuietly DEF IsConnected
<1>2. CASE /\ ~ network_connection_established[i]
           /\ kernel' = [kernel EXCEPT ![e] = "connected"]
           /\ network_connection_is_client' =
                [network_connection_is_client EXCEPT ![i] = TRUE]
           /\ network_connection_established' =
                [network_connection_established EXCEPT ![i] = TRUE]
           /\ UNCHANGED <<descriptorVars, accepting>>
  <2>1. Others(i)
    BY <1>2 DEF Others, TypeInv, ObjectTypes, descriptorVars
  <2>2. network_connection_established'[i] /\ network_descriptor(i)' = e
    BY <1>2 DEF TypeInv, ObjectTypes, network_descriptor, descriptorVars
  <2>3. d # e
    BY <2>2 DEF Lost
  <2>4. IsConnected(d)
    BY <1>2, <2>3 DEF Lost, IsConnected, TypeInv, ObjectTypes
  <2> QED BY <1>2, <2>1, <2>4, LostByOwner
<1> QED BY <1>1, <1>2 DEF startConnection

LEMMA AcceptedLosesNothing ==
  ASSUME TypeInv, WaitingIsServer, NEW i \in Instances, accepted(i),
         NEW d \in Descriptors, Lost(d)'
  PROVE  Lost(d)
<1>1. CASE Free = {}
  <2>1. UNCHANGED KnownVars /\ UNCHANGED kernel
    BY <1>1 DEF accepted, Fail, stateVars, flagVars, kernelVars, KnownVars
  <2> QED BY <2>1, LostQuietly DEF IsConnected
<1>2. CASE Free # {}
  <2>1. Others(i)
    BY <1>2 DEF accepted, Others, TypeInv, ObjectTypes
  <2>2. ~ network_connection_established[i] /\ ~ network_connection_is_client[i]
    BY DEF accepted, WaitingIsServer
  <2>3. network_connection_established'[i] /\ network_descriptor(i)' = LowestFree
    BY <1>2, <2>2 DEF accepted, TypeInv, ObjectTypes, network_descriptor
  <2>4. d # LowestFree
    BY <2>3 DEF Lost
  <2>5. IsConnected(d)
    BY <1>2, <2>4 DEF accepted, Lost, IsConnected, TypeInv, ObjectTypes
  <2> QED BY <2>1, <2>2, <2>5, LostByOwner
<1> QED BY <1>1, <1>2

LEMMA TerminateLosesNothing ==
  ASSUME TypeInv, NEW i \in Instances, terminateConnection(i),
         NEW d \in Descriptors, Lost(d)'
  PROVE  Lost(d)
<1>1. CASE Abort
  <2>1. UNCHANGED KnownVars /\ UNCHANGED kernel
    BY <1>1 DEF Abort, stateVars, flagVars, kernelVars, KnownVars
  <2> QED BY <2>1, LostQuietly DEF IsConnected
<1>2. CASE ~ Abort
  <2>1. Others(i)
    BY <1>2 DEF terminateConnection, Others, TypeInv, ObjectTypes, descriptorVars
  <2>2. kernel'[d] = IF d \in Held(i) THEN "free" ELSE kernel[d]
    BY <1>2 DEF terminateConnection
  <2>3. IsConnected(d) /\ d \notin Held(i)
    BY <2>2 DEF Lost, IsConnected
  <2>4. network_descriptor(i) \in Held(i)
    BY DEF network_descriptor, Held
  <2> QED BY <2>1, <2>3, <2>4, LostByOwner
<1> QED BY <1>1, <1>2

(***************************************************************************)
(* setParameters and acceptConnection open no connection.                  *)
(***************************************************************************)
LEMMA LosesItsOwn ==
  ASSUME TypeInv, NEW i \in Instances,
         (\E c, s \in BOOLEAN : setParameters(i, c, s)) \/ acceptConnection(i),
         NEW d \in Descriptors, Lost(d)', ~ Lost(d)
  PROVE  network_connection_established[i] /\ network_descriptor(i) = d
<1>1. IsConnected(d)' => IsConnected(d)
  <2>1. CASE UNCHANGED kernel
    BY <2>1 DEF IsConnected
  <2>2. ASSUME NEW c \in BOOLEAN, NEW s \in BOOLEAN, setParameters(i, c, s),
               ~ UNCHANGED kernel
        PROVE  \E e \in Descriptors : kernel' = [kernel EXCEPT ![e] = "socket"]
    <3>1. c /\ s /\ Free # {}
      BY <2>2 DEF setParameters, Fail, stateVars, kernelVars
    <3> QED BY <2>2, <3>1, LowestFreeIsFree DEF setParameters, initConnection
  <2>3. ASSUME acceptConnection(i), ~ UNCHANGED kernel
        PROVE  \E e \in Descriptors : kernel' = [kernel EXCEPT ![e] = "listening"]
    <3>1. kernel' = [kernel EXCEPT ![network_socket_descriptor[i]] = "listening"]
      BY <2>3 DEF acceptConnection, Abort, Fail, stateVars, kernelVars
    <3> QED BY <3>1 DEF TypeInv, ObjectTypes
  <2> QED BY <2>1, <2>2, <2>3 DEF IsConnected, TypeInv, ObjectTypes
<1>2. Others(i)
  BY <1>1, OperationsOfOne, LostQuietly
<1>3. IsConnected(d)
  BY <1>1 DEF Lost
<1> QED BY <1>2, <1>3, LostByOwner

(***************************************************************************)
(* Whether or not parameters are set anew on established instances: a      *)
(* connection gets lost only in a setParameters or an acceptConnection of  *)
(* the instance that has it.                                               *)
(***************************************************************************)
THEOREM ConnectionsAreLostByTheirInstance == Spec => OnlyItsInstanceLosesAConnection
<1> DEFINE Loses(d, i) ==
             /\ network_connection_established[i] /\ network_descriptor(i) = d
             /\ \/ \E c, s \in BOOLEAN : setParameters(i, c, s)
                \/ acceptConnection(i)
           P == \A d \in Descriptors : Lost(d)' /\ ~ Lost(d) =>
                  \E i \in Instances : Loses(d, i)
<1>1. Init => WaitingIsServer
  BY DEF Init, WaitingIsServer
<1>2. TypeInv /\ WaitingIsServer /\ [Next]_vars => P
  <2> SUFFICES ASSUME TypeInv, WaitingIsServer, [Next]_vars, NEW d \in Descriptors,
                      Lost(d)', ~ Lost(d)
               PROVE  \E i \in Instances : Loses(d, i)
    OBVIOUS
  <2>1. ASSUME NEW i \in Instances,
               (\E c, s \in BOOLEAN : setParameters(i, c, s)) \/ acceptConnection(i)
        PROVE  Loses(d, i)
    BY <2>1, LosesItsOwn
  <2>2. ASSUME \/ \E i \in Instances, n \in Sizes : sendToConnection(i, n)
               \/ \E i \in Instances : receiveFromConnection(i)
               \/ \E e \in Descriptors, n \in Sizes : PeerSends(e, n)
               \/ UNCHANGED vars
               \/ OpenFile \/ (\E e \in Descriptors : PeerCloses(e) \/ CloseFile(e))
        PROVE  FALSE
    <3>1. UNCHANGED open
      BY <2>2, TrafficRefinement, WorldRefinement
    <3>2. IsConnected(d)' => IsConnected(d)
      BY <3>1 DEF open
    <3> QED BY <2>2, <3>2, OthersOperations, LostQuietly
  <2> HIDE DEF Loses
  <2> QED BY <2>1, <2>2, StartLosesNothing, AcceptedLosesNothing, TerminateLosesNothing
          DEF Next
<1>3. TypeInv /\ WaitingIsServer /\ [Next]_vars => (TypeInv /\ WaitingIsServer)'
  BY TypeStep, WaitingStep
<1> QED BY <1>1, <1>2, <1>3, InitType, PTL
        DEF Spec, OnlyItsInstanceLosesAConnection
============================================================================
