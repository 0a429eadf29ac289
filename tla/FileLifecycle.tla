--------------------------- MODULE FileLifecycle ---------------------------
(***************************************************************************)
(* A program, or a debug_logger (defs_debug.h), that keeps one             *)
(* file_descriptor: it is constructed, used in any order of calls,         *)
(* repurposed for other files and modes, and destroyed.                    *)
(*                                                                         *)
(* The logger's constructor is construct and three writes, setName is      *)
(* repurpose, setTruncate and setAppend are modifyMode or repurposeMode.   *)
(***************************************************************************)
EXTENDS FileDescriptor, Naturals

CONSTANTS
  NoObject, \* no file_descriptor is alive
  MaxLength \* bound on the length of a file and its buffer together

ASSUME LifecycleAssumption == NoObject \notin Descriptors /\ MaxLength \in Nat

VARIABLES
  disk,       \* what the files hold
  descriptor, \* the file_descriptor
  process     \* "running", "aborted" or "undefined"

vars == <<disk, descriptor, process>>

Opened ==
  IF descriptor = NoObject THEN {} ELSE {descriptor.opened} \ {Closed}

Alive == process = "running" /\ descriptor # NoObject

(***************************************************************************)
(* A failed assert or an exception nobody catches: what is buffered is     *)
(* lost.                                                                   *)
(***************************************************************************)
Abort ==
  /\ process' = "aborted"
  /\ UNCHANGED <<disk, descriptor>>

Undefined ==
  /\ process' = "undefined"
  /\ UNCHANGED <<disk, descriptor>>

Init ==
  /\ disk \in [FileNames -> {Missing, Directory, <<>>} \cup {<<c>> : c \in Chunks}]
  /\ descriptor = NoObject
  /\ process = "running"

----------------------------------------------------------------------------
(***************************************************************************)
(* getFileDescriptor of an object d that was told its file and mode.       *)
(***************************************************************************)
Reopen(d) ==
  /\ descriptor' = getFileDescriptor(d, disk[d.file_name])
  /\ disk' = [disk EXCEPT ![d.file_name] = NodeAfterOpen(d, @)]
  /\ UNCHANGED process

construct(name, mode) ==
  /\ process = "running" /\ descriptor = NoObject
  /\ Reopen(file_descriptor(name, mode))

modifyMode(mode) ==
  /\ Alive
  /\ Reopen([descriptor EXCEPT !.file_mode = mode])

repurpose(name) ==
  /\ Alive
  /\ Reopen([descriptor EXCEPT !.file_name = name])

(***************************************************************************)
(* Mutant of repurposeMode: the file is not opened again.                  *)
(***************************************************************************)
repurposeModeUnopened(name, mode) ==
  /\ Alive
  /\ descriptor' = [descriptor EXCEPT !.file_name = name, !.file_mode = mode]
  /\ UNCHANGED <<disk, process>>

repurposeMode(name, mode) ==
  /\ Alive
  /\ Reopen([descriptor EXCEPT !.file_name = name, !.file_mode = mode])

(***************************************************************************)
(* The node of the open file, and the disk when what is buffered has been  *)
(* written to it.                                                          *)
(***************************************************************************)
OpenNode == disk[descriptor.opened]

(***************************************************************************)
(* Mutant of DiskFlushed: the buffer goes to the file the object was last  *)
(* told.                                                                   *)
(***************************************************************************)
DiskFlushedByName ==
  IF descriptor.pending = <<>> THEN disk
    ELSE [disk EXCEPT ![descriptor.file_name] =
            IF @ \in {Missing, Directory} THEN descriptor.pending
              ELSE Flushed(descriptor, @)]

DiskFlushed ==
  IF descriptor.pending = <<>> THEN disk
    ELSE [disk EXCEPT ![descriptor.opened] = Flushed(descriptor, @)]

destroy ==
  /\ Alive
  /\ disk' = DiskFlushed
  /\ descriptor' = NoObject
  /\ UNCHANGED process

----------------------------------------------------------------------------
RoomForChunk ==
  is_write(descriptor.flags) /\ descriptor.opened # Closed =>
    Len(OpenNode) + Len(descriptor.pending) < MaxLength

write(custom) ==
  /\ Alive /\ RoomForChunk
  /\ descriptor' = write_file(descriptor, custom)
  /\ UNCHANGED <<disk, process>>

(***************************************************************************)
(* The buffer of the fstream is full.                                      *)
(***************************************************************************)
flush ==
  /\ Alive
  /\ descriptor.pending # <<>>
  /\ disk' = DiskFlushed
  /\ descriptor' = [descriptor EXCEPT !.pending = <<>>]
  /\ UNCHANGED process

(***************************************************************************)
(* The common part of the readers; what they return is not kept.           *)
(***************************************************************************)
Read(asserts) ==
  /\ Alive
  /\ IF ~ asserts \/ ReadThrows(descriptor, OpenNode)
       THEN Abort
       ELSE /\ disk' = DiskFlushed
            /\ descriptor' = AfterRead(descriptor, OpenNode)
            /\ UNCHANGED process

read_file_binary == Read(read_file_binary_asserts(descriptor))

read_file_string == Read(read_file_string_asserts(descriptor))

streamOutput == Read(TRUE)

(***************************************************************************)
(* operator>> reads into a pointer that was never set.                     *)
(***************************************************************************)
streamInput == Alive /\ Undefined

write_newline ==
  /\ Alive
  /\ IF write_newline_asserts(descriptor)
       THEN UNCHANGED vars
       ELSE Abort

(***************************************************************************)
(* debug_logger::log ends in write_newline: what prependTime and           *)
(* write_file have buffered is lost when its assert fails.                 *)
(***************************************************************************)
log == write_newline

Next ==
  \/ \E n \in FileNames, m \in file_mode_e : construct(n, m)
  \/ \E m \in file_mode_e : modifyMode(m)
  \/ \E n \in FileNames : repurpose(n)
  \/ \E n \in FileNames, m \in file_mode_e : repurposeMode(n, m)
  \/ destroy
  \/ \E c \in Chunks : write(c)
  \/ flush
  \/ read_file_binary
  \/ read_file_string
  \/ streamOutput
  \/ streamInput
  \/ write_newline
  \/ log

Spec == Init /\ [][Next]_vars

----------------------------------------------------------------------------
(***************************************************************************)
(* Type invariant; a stream open for writing has a regular file.           *)
(***************************************************************************)
TypeOK ==
  /\ disk \in [FileNames -> Nodes]
  /\ descriptor \in Descriptors \cup {NoObject}
  /\ process \in {"running", "aborted", "undefined"}
  /\ Opened # {} /\ is_write(descriptor.flags) => OpenNode \in Seq(Chunks)

(***************************************************************************)
(* A stream that is not in the fail state has the file and the mode open   *)
(* that the object was last told: whatever order files and modes are       *)
(* changed in, no call reads or writes another file than the one the       *)
(* object names.  The code never closes the old file, so this rests on     *)
(* every change of name or mode of an open stream failing for good.        *)
(***************************************************************************)
GoodStreamIsTheNamedFile ==
  descriptor # NoObject /\ ~ descriptor.fail =>
    descriptor.opened = descriptor.file_name /\ descriptor.flags = descriptor.file_mode

(***************************************************************************)
(* What was written through a stream reaches the file it was written to:   *)
(* when the buffer goes, at a flush, a read or in the destructor, the file *)
(* that is open has it at its end, whichever file and mode the object was  *)
(* told since, and however often.                                          *)
(***************************************************************************)
BufferReachesItsFile ==
  [][descriptor # NoObject /\ descriptor.pending # <<>> /\
     (descriptor' = NoObject \/ descriptor'.pending = <<>>) =>
       disk'[descriptor.opened] = disk[descriptor.opened] \o descriptor.pending]_vars
============================================================================
