------------------------ MODULE FileLifecycleProofs ------------------------
(***************************************************************************)
(* The theorems about FileLifecycle: whatever the names and the data, and  *)
(* whatever order the calls come in.                                       *)
(***************************************************************************)
EXTENDS FileLifecycle, TLAPS

(***************************************************************************)
(* What is buffered came through a stream that is open for writing.        *)
(***************************************************************************)
BufferHasFile ==
  descriptor # NoObject /\ descriptor.pending # <<>> =>
    descriptor.opened # Closed /\ is_write(descriptor.flags)

(***************************************************************************)
(* The inductive invariant.                                                *)
(***************************************************************************)
IInv == TypeOK /\ GoodStreamIsTheNamedFile /\ BufferHasFile

(***************************************************************************)
(* The invariant of an object d on a disk k.                               *)
(***************************************************************************)
SoundObject(d, k) ==
  /\ d \in Descriptors
  /\ d.opened # Closed /\ is_write(d.flags) => k[d.opened] \in Seq(Chunks)
  /\ ~ d.fail => d.opened = d.file_name /\ d.flags = d.file_mode
  /\ d.pending # <<>> => d.opened # Closed /\ is_write(d.flags)

(***************************************************************************)
(* The objects Reopen is applied to: they may have been told another file  *)
(* and mode than the ones that are open.                                   *)
(***************************************************************************)
ToldObject(d, k) ==
  /\ d \in Descriptors
  /\ d.opened # Closed /\ is_write(d.flags) => k[d.opened] \in Seq(Chunks)
  /\ d.pending # <<>> => d.opened # Closed /\ is_write(d.flags)

(***************************************************************************)
(* The invariant is about the object, if there is one.                     *)
(***************************************************************************)
LEMMA ObjectOfInvariant ==
  IInv <=> /\ disk \in [FileNames -> Nodes]
           /\ process \in {"running", "aborted", "undefined"}
           /\ descriptor = NoObject \/ SoundObject(descriptor, disk)
<1> USE LifecycleAssumption, FileAssumption
<1>1. CASE descriptor = NoObject
  BY <1>1 DEF IInv, TypeOK, GoodStreamIsTheNamedFile, BufferHasFile, Opened
<1>2. CASE descriptor # NoObject
  <2>1. Opened # {} <=> descriptor.opened # Closed
    BY <1>2 DEF Opened
  <2> QED
    BY <1>2, <2>1 DEF IInv, TypeOK, GoodStreamIsTheNamedFile, BufferHasFile,
       SoundObject, OpenNode
<1> QED BY <1>1, <1>2

(***************************************************************************)
(* The same of the next state, for the steps that establish it.            *)
(***************************************************************************)
LEMMA ObjectOfNextInvariant ==
  ASSUME disk' \in [FileNames -> Nodes],
         process' \in {"running", "aborted", "undefined"},
         descriptor' = NoObject \/ SoundObject(descriptor', disk')
  PROVE  IInv'
<1> USE LifecycleAssumption, FileAssumption
<1>1. CASE descriptor' = NoObject
  BY <1>1 DEF IInv, TypeOK, GoodStreamIsTheNamedFile, BufferHasFile, Opened
<1>2. CASE descriptor' # NoObject
  <2>1. Opened' # {} <=> descriptor'.opened # Closed
    BY <1>2 DEF Opened
  <2> QED
    BY <1>2, <2>1 DEF IInv, TypeOK, GoodStreamIsTheNamedFile, BufferHasFile,
       SoundObject, OpenNode
<1> QED BY <1>1, <1>2

(***************************************************************************)
(* getFileDescriptor either gives a good stream on the file that was told, *)
(* or leaves the open file alone and sets the fail state.                  *)
(***************************************************************************)
LEMMA ReopenIsSound ==
  ASSUME NEW d, NEW k \in [FileNames -> Nodes], ToldObject(d, k)
  PROVE  LET node == k[d.file_name]
             k2   == [k EXCEPT ![d.file_name] = NodeAfterOpen(d, @)]
         IN  /\ k2 \in [FileNames -> Nodes]
             /\ SoundObject(getFileDescriptor(d, node), k2)
<1> DEFINE node == k[d.file_name]
           k2   == [k EXCEPT ![d.file_name] = NodeAfterOpen(d, node)]
           d2   == getFileDescriptor(d, node)
<1>0. /\ d \in Descriptors /\ d.file_name \in FileNames /\ d.file_mode \in file_mode_e
      /\ d.opened \in FileNames \cup {Closed} /\ d.flags \in file_mode_e
      /\ d.fail \in BOOLEAN /\ d.pending \in Seq(Chunks) /\ node \in Nodes
  BY DEF ToldObject, Descriptors
<1>1. <<>> \in Seq(Chunks)
  OBVIOUS
<1>2. NodeAfterOpen(d, node) \in Nodes
  BY <1>0, <1>1 DEF NodeAfterOpen, OpenedNode, Nodes
<1>3. k2 \in [FileNames -> Nodes]
  BY <1>0, <1>2
<1>4. d.opened # Closed => k2 = k
  BY <1>0 DEF NodeAfterOpen
<1>5. d2 \in Descriptors
  BY <1>0 DEF getFileDescriptor, Descriptors
<1>6. CASE d.opened = Closed /\ CanOpen(d.file_mode, node)
  <2>1. d2 = [d EXCEPT !.opened = d.file_name, !.flags = d.file_mode, !.fail = FALSE]
    BY <1>6 DEF getFileDescriptor
  <2>2. /\ d2.opened = d.file_name /\ d2.flags = d.file_mode /\ d2.fail = FALSE
        /\ d2.file_name = d.file_name /\ d2.file_mode = d.file_mode
        /\ d2.pending = d.pending
    BY <1>0, <2>1 DEF Descriptors
  <2>3. d.pending = <<>>
    BY <1>6 DEF ToldObject
  <2>4. is_write(d.file_mode) => NodeAfterOpen(d, node) \in Seq(Chunks)
    BY <1>0, <1>1, <1>6 DEF NodeAfterOpen, OpenedNode, CanOpen, is_write, Nodes
  <2>5. k2[d.file_name] = NodeAfterOpen(d, node)
    BY <1>0
  <2>6. SoundObject(d2, k2)
    <3> HIDE DEF d2, k2
    <3> QED BY <1>5, <2>2, <2>3, <2>4, <2>5 DEF SoundObject
  <2> QED BY <1>3, <1>4, <2>6
<1>7. CASE ~ (d.opened = Closed /\ CanOpen(d.file_mode, node))
  <2>1. d2 = [d EXCEPT !.fail = TRUE]
    BY <1>7 DEF getFileDescriptor
  <2>2. /\ d2.opened = d.opened /\ d2.flags = d.flags /\ d2.fail = TRUE
        /\ d2.pending = d.pending
    BY <1>0, <2>1 DEF Descriptors
  <2>3. SoundObject(d2, k2)
    <3> HIDE DEF d2, k2
    <3> QED BY <1>4, <1>5, <2>2 DEF SoundObject, ToldObject
  <2> QED BY <1>3, <1>4, <2>3
<1> QED BY <1>6, <1>7

(***************************************************************************)
(* Writing out the buffer puts it at the end of the open file, and leaves  *)
(* that one a regular file.                                                *)
(***************************************************************************)
LEMMA FlushIsSound ==
  ASSUME IInv, descriptor # NoObject
  PROVE  /\ DiskFlushed \in [FileNames -> Nodes]
         /\ descriptor.pending # <<>> =>
              DiskFlushed[descriptor.opened] =
                disk[descriptor.opened] \o descriptor.pending
         /\ descriptor.opened # Closed /\ is_write(descriptor.flags) =>
              DiskFlushed[descriptor.opened] \in Seq(Chunks)
<1>1. disk \in [FileNames -> Nodes] /\ SoundObject(descriptor, disk)
  BY ObjectOfInvariant
<1>2. CASE descriptor.pending = <<>>
  BY <1>1, <1>2 DEF DiskFlushed, SoundObject
<1>3. CASE descriptor.pending # <<>>
  <2>1. /\ descriptor.opened \in FileNames
        /\ disk[descriptor.opened] \in Seq(Chunks)
        /\ descriptor.pending \in Seq(Chunks)
    BY <1>1, <1>3 DEF SoundObject, Descriptors
  <2>2. Flushed(descriptor, disk[descriptor.opened]) \in Seq(Chunks)
    BY <2>1 DEF Flushed
  <2>3. DiskFlushed =
          [disk EXCEPT ![descriptor.opened] =
             Flushed(descriptor, disk[descriptor.opened])]
    BY <1>3 DEF DiskFlushed
  <2> QED BY <1>1, <2>1, <2>2, <2>3 DEF Nodes, Flushed
<1> QED BY <1>2, <1>3

----------------------------------------------------------------------------
(***************************************************************************)
(* What a step needs to show: the invariant, and where a buffer went that  *)
(* is gone.                                                                *)
(***************************************************************************)
Drained ==
  descriptor # NoObject /\ descriptor.pending # <<>> /\
  (descriptor' = NoObject \/ descriptor'.pending = <<>>) =>
    disk'[descriptor.opened] = disk[descriptor.opened] \o descriptor.pending

(***************************************************************************)
(* The four operations that open a file.                                   *)
(***************************************************************************)
LEMMA ReopenStep ==
  ASSUME IInv, NEW d, ToldObject(d, disk), Reopen(d),
         descriptor # NoObject => d.pending = descriptor.pending
  PROVE  IInv' /\ Drained
<1>1. disk \in [FileNames -> Nodes] /\ process \in {"running", "aborted", "undefined"}
  BY ObjectOfInvariant
<1>2. /\ disk' \in [FileNames -> Nodes]
      /\ SoundObject(descriptor', disk')
      /\ descriptor'.pending = d.pending /\ descriptor' # NoObject
  <2>1. /\ disk' \in [FileNames -> Nodes]
        /\ SoundObject(descriptor', disk')
        /\ descriptor' = getFileDescriptor(d, disk[d.file_name])
    BY <1>1, ReopenIsSound DEF Reopen
  <2>2. descriptor'.pending = d.pending
    BY <2>1 DEF getFileDescriptor, ToldObject, Descriptors
  <2> QED BY <2>1, <2>2, LifecycleAssumption DEF SoundObject
<1>3. IInv'
  BY <1>1, <1>2, ObjectOfNextInvariant DEF Reopen
<1>4. Drained
  BY <1>2 DEF Drained
<1> QED BY <1>3, <1>4

(***************************************************************************)
(* A step that ends the program.                                           *)
(***************************************************************************)
LEMMA FinalStep ==
  ASSUME IInv, Abort \/ Undefined
  PROVE  IInv' /\ Drained
  BY DEF IInv, TypeOK, GoodStreamIsTheNamedFile, BufferHasFile, Opened, OpenNode,
     Abort, Undefined, Drained

(***************************************************************************)
(* An object that is told another file or mode is fit to be reopened.      *)
(***************************************************************************)
LEMMA ToldIsFit ==
  ASSUME IInv, descriptor # NoObject,
         NEW n \in FileNames, NEW m \in file_mode_e, NEW d,
         d \in {[descriptor EXCEPT !.file_mode = m],
               [descriptor EXCEPT !.file_name = n],
               [descriptor EXCEPT !.file_name = n, !.file_mode = m]}
  PROVE  ToldObject(d, disk) /\ d.pending = descriptor.pending
<1>1. SoundObject(descriptor, disk)
  BY ObjectOfInvariant
<1>2. descriptor \in Descriptors
  BY <1>1 DEF SoundObject
<1>3. /\ d \in Descriptors
      /\ d.opened = descriptor.opened /\ d.flags = descriptor.flags
      /\ d.pending = descriptor.pending
  BY <1>2 DEF Descriptors
<1> QED BY <1>1, <1>3 DEF SoundObject, ToldObject

(***************************************************************************)
(* A reader: it writes out the buffer, and its stream was good.            *)
(***************************************************************************)
LEMMA ReadStep ==
  ASSUME IInv, NEW asserts \in BOOLEAN, Read(asserts)
  PROVE  IInv' /\ Drained
<1>0. /\ descriptor # NoObject /\ disk \in [FileNames -> Nodes]
      /\ process \in {"running", "aborted", "undefined"}
      /\ SoundObject(descriptor, disk)
  BY ObjectOfInvariant DEF Read, Alive
<1>1. CASE Abort
  BY <1>1, FinalStep
<1>2. CASE /\ ~ ReadThrows(descriptor, OpenNode)
           /\ disk' = DiskFlushed
           /\ descriptor' = AfterRead(descriptor, OpenNode)
           /\ UNCHANGED process
  <2>1. ~ descriptor.fail
    BY <1>2 DEF ReadThrows
  <2>2. /\ descriptor' \in Descriptors /\ descriptor'.pending = <<>>
        /\ descriptor'.opened = descriptor.opened
        /\ descriptor'.flags = descriptor.flags
        /\ descriptor'.file_name = descriptor.file_name
        /\ descriptor'.file_mode = descriptor.file_mode
    <3> DEFINE b == is_write(descriptor.flags) /\ Flushed(descriptor, OpenNode) # <<>>
    <3>1. b \in BOOLEAN
      BY DEF is_write
    <3>2. descriptor' = [descriptor EXCEPT !.pending = <<>>, !.fail = b]
      BY <1>2 DEF AfterRead
    <3>3. <<>> \in Seq(Chunks) /\ descriptor \in Descriptors
      BY <1>0 DEF SoundObject
    <3> HIDE DEF b
    <3> QED BY <3>1, <3>2, <3>3 DEF Descriptors
  <2>3. SoundObject(descriptor', disk')
    BY <1>0, <1>2, <2>1, <2>2, FlushIsSound DEF SoundObject
  <2>4. IInv'
    BY <1>0, <1>2, <2>3, FlushIsSound, ObjectOfNextInvariant
  <2>5. Drained
    BY <1>0, <1>2, FlushIsSound DEF Drained
  <2> QED BY <2>4, <2>5
<1> QED BY <1>1, <1>2 DEF Read

(***************************************************************************)
(* Every step keeps the invariant and loses no buffer.                     *)
(***************************************************************************)
LEMMA EveryStep ==
  ASSUME IInv, [Next]_vars
  PROVE  IInv' /\ Drained
<1>0. /\ disk \in [FileNames -> Nodes] /\ process \in {"running", "aborted", "undefined"}
      /\ descriptor = NoObject \/ SoundObject(descriptor, disk)
  BY ObjectOfInvariant
<1>1. ASSUME NEW n \in FileNames, NEW m \in file_mode_e, construct(n, m)
      PROVE  IInv' /\ Drained
  <2>1. ToldObject(file_descriptor(n, m), disk)
    BY DEF ToldObject, file_descriptor, Descriptors
  <2> QED BY <1>1, <2>1, ReopenStep DEF construct
<1>2. ASSUME NEW m \in file_mode_e, modifyMode(m)
      PROVE  IInv' /\ Drained
  <2> DEFINE d == [descriptor EXCEPT !.file_mode = m]
  <2>1. ToldObject(d, disk) /\ d.pending = descriptor.pending
    <3>1. descriptor.file_name \in FileNames
      BY <1>0, <1>2 DEF SoundObject, Descriptors, modifyMode, Alive
    <3> QED BY <1>2, <3>1, ToldIsFit DEF modifyMode, Alive
  <2> QED BY <1>2, <2>1, ReopenStep DEF modifyMode
<1>3. ASSUME NEW n \in FileNames, repurpose(n)
      PROVE  IInv' /\ Drained
  <2> DEFINE d == [descriptor EXCEPT !.file_name = n]
  <2>1. ToldObject(d, disk) /\ d.pending = descriptor.pending
    BY <1>3, ToldIsFit DEF repurpose, Alive, file_mode_e
  <2> QED BY <1>3, <2>1, ReopenStep DEF repurpose
<1>4. ASSUME NEW n \in FileNames, NEW m \in file_mode_e, repurposeMode(n, m)
      PROVE  IInv' /\ Drained
  <2> DEFINE d == [descriptor EXCEPT !.file_name = n, !.file_mode = m]
  <2>1. ToldObject(d, disk) /\ d.pending = descriptor.pending
    BY <1>4, ToldIsFit DEF repurposeMode, Alive
  <2> QED BY <1>4, <2>1, ReopenStep DEF repurposeMode
<1>5. CASE destroy
  <2>1. IInv'
    BY <1>0, <1>5, FlushIsSound, ObjectOfNextInvariant DEF destroy, Alive
  <2>2. Drained
    BY <1>5, FlushIsSound DEF destroy, Alive, Drained
  <2> QED BY <2>1, <2>2
<1>6. ASSUME NEW c \in Chunks, write(c)
      PROVE  IInv' /\ Drained
  <2>1. SoundObject(descriptor, disk) /\ descriptor \in Descriptors
    BY <1>0, <1>6 DEF write, Alive, SoundObject
  <2>2. SoundObject(write_file(descriptor, c), disk)
    <3>1. CASE \/ descriptor.fail \/ descriptor.opened = Closed
               \/ ~ is_write(descriptor.flags)
      BY <2>1, <3>1 DEF write_file, SoundObject, Descriptors
    <3>2. CASE /\ ~ descriptor.fail /\ descriptor.opened # Closed
               /\ is_write(descriptor.flags)
      <4> DEFINE d == [descriptor EXCEPT !.pending = Append(descriptor.pending, c)]
      <4>1. write_file(descriptor, c) = d
        BY <3>2 DEF write_file
      <4>2. Append(descriptor.pending, c) \in Seq(Chunks)
        BY <2>1 DEF Descriptors
      <4>3. /\ d \in Descriptors /\ d.opened = descriptor.opened
            /\ d.flags = descriptor.flags /\ d.fail = descriptor.fail
            /\ d.file_name = descriptor.file_name
            /\ d.file_mode = descriptor.file_mode
        BY <2>1, <4>2 DEF Descriptors
      <4> HIDE DEF d
      <4> QED BY <2>1, <3>2, <4>1, <4>3 DEF SoundObject
    <3> QED BY <3>1, <3>2
  <2>3. IInv'
    BY <1>0, <1>6, <2>2, ObjectOfNextInvariant DEF write
  <2>4. descriptor.pending # <<>> => write_file(descriptor, c).pending # <<>>
    <3>1. descriptor.pending \in Seq(Chunks)
      BY <2>1 DEF Descriptors
    <3>2. Append(descriptor.pending, c) # <<>>
      BY <3>1
    <3> QED BY <2>1, <3>2 DEF write_file, Descriptors
  <2>5. write_file(descriptor, c) # NoObject
    BY <2>2, LifecycleAssumption DEF SoundObject
  <2> QED BY <1>6, <2>3, <2>4, <2>5 DEF write, Drained
<1>7. CASE flush
  <2>1. SoundObject(descriptor, disk) /\ descriptor \in Descriptors
    BY <1>0, <1>7 DEF flush, Alive, SoundObject
  <2>2. /\ descriptor' \in Descriptors /\ descriptor'.pending = <<>>
        /\ descriptor'.opened = descriptor.opened
        /\ descriptor'.flags = descriptor.flags
        /\ descriptor'.fail = descriptor.fail
        /\ descriptor'.file_name = descriptor.file_name
        /\ descriptor'.file_mode = descriptor.file_mode
    <3>1. <<>> \in Seq(Chunks)
      OBVIOUS
    <3> QED BY <1>7, <2>1, <3>1 DEF flush, Descriptors
  <2>3. SoundObject(descriptor', disk')
    BY <1>7, <2>1, <2>2, FlushIsSound DEF SoundObject, flush, Alive
  <2>4. IInv'
    BY <1>0, <1>7, <2>3, FlushIsSound, ObjectOfNextInvariant DEF flush, Alive
  <2> QED BY <1>7, <2>4, FlushIsSound DEF flush, Alive, Drained
<1>8. CASE read_file_binary
  BY <1>8, ReadStep DEF read_file_binary, read_file_binary_asserts
<1>9. CASE read_file_string
  <2>1. read_file_string_asserts(descriptor) \in BOOLEAN
    BY DEF read_file_string_asserts, is_write
  <2> QED BY <1>9, <2>1, ReadStep DEF read_file_string
<1>10. CASE streamOutput
  BY <1>10, ReadStep DEF streamOutput
<1>11. CASE UNCHANGED vars
  BY <1>11 DEF vars, Drained, IInv, TypeOK, GoodStreamIsTheNamedFile, BufferHasFile,
     Opened, OpenNode
<1>12. CASE streamInput \/ write_newline \/ log
  BY <1>11, <1>12, FinalStep DEF streamInput, write_newline, log
<1> QED
  BY <1>1, <1>2, <1>3, <1>4, <1>5, <1>6, <1>7, <1>8, <1>9, <1>10, <1>11, <1>12 DEF Next

(***************************************************************************)
(* The inductive invariant holds in every reachable state.                 *)
(***************************************************************************)
LEMMA InvariantHolds == Spec => []IInv
<1>1. Init => IInv
  <2>1. {Missing, Directory, <<>>} \cup {<<c>> : c \in Chunks} \subseteq Nodes
    <3>1. <<>> \in Seq(Chunks)
      OBVIOUS
    <3>2. \A c \in Chunks : <<c>> \in Seq(Chunks)
      OBVIOUS
    <3> QED BY <3>1, <3>2 DEF Nodes
  <2>2. Init => disk \in [FileNames -> Nodes]
    BY <2>1 DEF Init
  <2> QED BY <2>2, ObjectOfInvariant DEF Init
<1>2. IInv /\ [Next]_vars => IInv'
  BY EveryStep
<1> QED BY <1>1, <1>2, PTL DEF Spec

(***************************************************************************)
(* The objects and files of defs_file.h keep their types, and a stream     *)
(* open for writing has a regular file.                                    *)
(***************************************************************************)
THEOREM TypeCorrect == Spec => []TypeOK
<1>1. IInv => TypeOK
  BY DEF IInv
<1> QED BY <1>1, InvariantHolds, PTL

(***************************************************************************)
(* Whatever order modifyMode and repurpose are called in, a stream that is *)
(* not in the fail state is the file and the mode the object was told.     *)
(***************************************************************************)
THEOREM GoodStreamsAreFaithful == Spec => []GoodStreamIsTheNamedFile
<1>1. IInv => GoodStreamIsTheNamedFile
  BY DEF IInv
<1> QED BY <1>1, InvariantHolds, PTL

(***************************************************************************)
(* What write_file buffered reaches the file that was open, also when      *)
(* repurpose or modifyMode came between the write and the flush, the read  *)
(* or the destructor that wrote it out.                                    *)
(***************************************************************************)
THEOREM NoBufferIsLost == Spec => BufferReachesItsFile
<1>1. IInv /\ [Next]_vars => [Drained]_vars
  BY EveryStep
<1> QED BY <1>1, InvariantHolds, PTL DEF Spec, BufferReachesItsFile, Drained
============================================================================
