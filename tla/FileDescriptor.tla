-------------------------- MODULE FileDescriptor --------------------------
(***************************************************************************)
(* file_descriptor (defs_file.h): a named file opened in a mode.  The      *)
(* operators give what each call makes of the object and of the node of    *)
(* the disk it works on; modules with a disk apply them.                   *)
(*                                                                         *)
(* An object is a record: file_name and file_mode are what it was last     *)
(* told; opened and flags are the file and the mode its fstream has open;  *)
(* fail is the fail state of the fstream; pending is what the fstream has  *)
(* buffered and not yet written.                                           *)
(***************************************************************************)
EXTENDS Sequences

CONSTANTS
  FileNames, \* names the program uses, all non-empty
  Chunks,    \* data it writes
  Missing,   \* no such file
  Directory, \* a directory
  Closed     \* no file: an fstream that is not open

ASSUME FileAssumption ==
  /\ Closed \notin FileNames
  /\ {Missing, Directory} \cap Seq(Chunks) = {}
  /\ Missing # Directory

file_mode_e == {"append", "truncate", "in", "binary"}

Nodes == {Missing, Directory} \cup Seq(Chunks)

Descriptors ==
  [file_name : FileNames, file_mode : file_mode_e,
   opened : FileNames \cup {Closed}, flags : file_mode_e,
   fail : BOOLEAN, pending : Seq(Chunks)]

(***************************************************************************)
(* The members is_write and is_string always follow file_mode.             *)
(***************************************************************************)
is_write(mode) == mode \in {"append", "truncate"}
is_string(mode) == mode = "in"

(***************************************************************************)
(* fstream::open of a node of the disk.  A directory can be opened for     *)
(* reading.                                                                *)
(***************************************************************************)
CanOpen(mode, node) ==
  IF is_write(mode) THEN node # Directory ELSE node # Missing

(***************************************************************************)
(* Mutant of OpenedNode: append does not create the file.                  *)
(***************************************************************************)
OpenedNodeUncreated(mode, node) ==
  IF mode = "truncate" /\ node # Directory THEN <<>> ELSE node

OpenedNode(mode, node) ==
  CASE mode = "truncate" /\ node # Directory -> <<>>
    [] mode = "append" /\ node = Missing -> <<>>
    [] OTHER -> node

(***************************************************************************)
(* getFileDescriptor opens without closing: open() of an fstream that is   *)
(* open fails, and the fstream keeps the file it has.  A successful open() *)
(* clears the fail state.                                                  *)
(***************************************************************************)
getFileDescriptor(d, node) ==
  IF d.opened = Closed /\ CanOpen(d.file_mode, node)
    THEN [d EXCEPT !.opened = d.file_name, !.flags = d.file_mode, !.fail = FALSE]
    ELSE [d EXCEPT !.fail = TRUE]

NodeAfterOpen(d, node) ==
  IF d.opened = Closed THEN OpenedNode(d.file_mode, node) ELSE node

(***************************************************************************)
(* The constructor, up to the call of getFileDescriptor.                   *)
(***************************************************************************)
file_descriptor(name, mode) ==
  [file_name |-> name, file_mode |-> mode, opened |-> Closed, flags |-> mode,
   fail |-> FALSE, pending |-> <<>>]

(***************************************************************************)
(* write of a fstream in the fail state does nothing; of one open for      *)
(* reading, or not open, it sets the fail state.                           *)
(***************************************************************************)
write_file(d, custom) ==
  IF d.fail \/ d.opened = Closed \/ ~ is_write(d.flags)
    THEN [d EXCEPT !.fail = TRUE]
    ELSE [d EXCEPT !.pending = Append(@, custom)]

(***************************************************************************)
(* What is buffered reaches the file: when the buffer is full, when the    *)
(* stream is positioned and when it is closed.                             *)
(***************************************************************************)
Flushed(d, node) == node \o d.pending

(***************************************************************************)
(* The three readers position the stream at its end for the size of the    *)
(* array they allocate.  In the fail state the size is -1, and for a       *)
(* directory beyond all memory: operator new[] throws, and nothing         *)
(* catches it.                                                             *)
(***************************************************************************)
ReadThrows(d, node) == d.fail \/ d.opened = Closed \/ node = Directory

(***************************************************************************)
(* Reading a stream that is open for writing sets the fail state, unless   *)
(* there is nothing to read.                                               *)
(***************************************************************************)
AfterRead(d, node) ==
  [d EXCEPT !.pending = <<>>,
            !.fail = is_write(d.flags) /\ Flushed(d, node) # <<>>]

read_file_binary_asserts(d) == ~ is_write(d.file_mode)
read_file_string_asserts(d) == is_write(d.file_mode)
write_newline_asserts(d) == is_string(d.file_mode) /\ is_write(d.file_mode)
===========================================================================
