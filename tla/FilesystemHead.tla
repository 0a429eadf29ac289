-------------------------- MODULE FilesystemHead --------------------------
(***************************************************************************)
(* filesystem_head (defs_filesystem.h): moves through a file system and    *)
(* changes it.  It records a directory of its own beside the working       *)
(* directory of the process: changing directory and getting a file go by   *)
(* the recorded one, all else by the working directory.                    *)
(*                                                                         *)
(* A path is the sequence of its names, without "." and ".."; the recorded *)
(* directory is an absolute path, <<>> being the empty string.             *)
(***************************************************************************)
EXTENDS DebugStatus, SequencesExt

CONSTANTS
  Names,      \* names of files and directories
  Chunks,     \* data of files
  Missing,    \* no such file
  Directory,  \* a directory
  Closed,     \* an fstream that is not open
  MaxDepth,   \* bound on the depth of the tree
  MaxRecorded \* bound on the length of the recorded directory

ASSUME FilesystemAssumption ==
  /\ MaxDepth \in Nat /\ MaxRecorded \in Nat
  /\ {Missing, Directory} \cap Seq(Chunks) = {}
  /\ Missing # Directory

F == INSTANCE FileDescriptor WITH FileNames <- Seq(Names)

VARIABLES
  tree,                         \* external: the file system
  working_directory,            \* external: that of the process
  filesystem_current_directory, \* the recorded directory
  filesystem_directory_known,
  filesystem_status_structure,  \* what the last stat that succeeded found
  result                        \* what the last operation returned

headVars == <<filesystem_current_directory, filesystem_directory_known>>
osVars == <<tree, working_directory>>
stateVars == <<headVars, osVars, filesystem_status_structure, result>>
vars == <<stateVars, debugVars>>

filesystem_local_errors ==
  <<"Cannot change directory", "Cannot update directory", "Cannot open directory",
    "Cannot create directory", "Cannot create directory">>

cannot_change_directory == 0
cannot_open_directory == 2
cannot_create_directory == 3
cannot_remove_directory == 4

fail(code) == setReturnCode(filesystem_local_errors, code)

Paths == BoundedSeq(Names, MaxDepth)

Parent(path) == Front(path)

Node(path) == IF path \in Paths THEN tree[path] ELSE Missing

IsDirectory(path) == Node(path) = Directory

WellFormed(t) ==
  /\ t[<<>>] = Directory
  /\ \A p \in Paths \ {<<>>} : t[p] # Missing => t[Parent(p)] = Directory

FileTypes == {"unset", "file", "directory"}

TypeOf(node) == IF node = Directory THEN "directory" ELSE "file"

Abort ==
  /\ process' = "aborted"
  /\ UNCHANGED <<stateVars, debug_class_return_code>>

Undefined ==
  /\ process' = "undefined"
  /\ UNCHANGED <<stateVars, debug_class_return_code>>

Init ==
  /\ InitDebug
  /\ tree \in {t \in [Paths -> {Missing, Directory} \cup {<<c>> : c \in Chunks}] :
                 WellFormed(t)}
  /\ working_directory \in {p \in Paths : IsDirectory(p)}
  /\ filesystem_current_directory \in Paths
  /\ filesystem_directory_known = (filesystem_current_directory # <<>>)
  /\ filesystem_status_structure = "unset"
  /\ result = FALSE

----------------------------------------------------------------------------
(***************************************************************************)
(* Questions.  The result of stat is not looked at: when it fails the      *)
(* structure holds what an earlier call left, at first anything.           *)
(***************************************************************************)
Stat(path) ==
  filesystem_status_structure' =
    IF Node(path) = Missing THEN filesystem_status_structure
                            ELSE TypeOf(Node(path))

Exists(path, type) ==
  /\ process = "running"
  /\ Stat(path)
  /\ IF filesystem_status_structure' = "unset"
       THEN result' \in BOOLEAN
       ELSE result' = (filesystem_status_structure' = type)
  /\ UNCHANGED <<headVars, osVars, debugVars>>

fileExists(file_path) == Exists(file_path, "file")

directoryExists(directory_path) == Exists(directory_path, "directory")

(***************************************************************************)
(* A listing asks of every entry what it is; "." and ".." are among them.  *)
(* The structure is left with the type of the last.                        *)
(***************************************************************************)
Entries(path) ==
  {p \in Paths : p # <<>> /\ Parent(p) = path /\ Node(p) # Missing}

listCurrentDirectory(directory) ==
  LET path == working_directory \o directory
  IN  /\ process = "running"
      /\ IF ~ filesystem_directory_known
           THEN Abort
           ELSE IF IsDirectory(path)
             THEN /\ \E last \in Entries(path) \cup {path} :
                       filesystem_status_structure' = TypeOf(Node(last))
                  /\ result' = TRUE
                  /\ UNCHANGED <<headVars, osVars, debugVars>>
             ELSE /\ fail(cannot_open_directory)
                  /\ UNCHANGED stateVars

----------------------------------------------------------------------------
(***************************************************************************)
(* Moving.  The wrapper of chdir returns a bool: 0, success, is FALSE, and *)
(* -1 is TRUE.                                                             *)
(***************************************************************************)
filesystem_change_directory_function(path) == ~ IsDirectory(path)

MovedTo(path) == IF IsDirectory(path) THEN path ELSE working_directory

(***************************************************************************)
(* setRoot goes to the root only if it ends in a delimeter; the root "/"   *)
(* becomes the empty string, to which chdir fails.                         *)
(***************************************************************************)
setRoot(root, delimeter) ==
  /\ process = "running"
  /\ filesystem_current_directory' = root
  /\ filesystem_directory_known' = TRUE
  /\ IF delimeter /\ root # <<>>
       THEN /\ result' = filesystem_change_directory_function(root)
            /\ working_directory' = MovedTo(root)
       ELSE /\ result' = delimeter
            /\ UNCHANGED working_directory
  /\ UNCHANGED <<tree, filesystem_status_structure, debugVars>>

CompleteDirectory(directory) == filesystem_current_directory \o directory

(***************************************************************************)
(* What changeDirectory does; recorded is what the caller makes of the     *)
(* recorded directory in the end.                                          *)
(***************************************************************************)
Change(directory, recorded) ==
  LET complete_directory == CompleteDirectory(directory)
  IN  /\ result' = filesystem_change_directory_function(complete_directory)
      /\ working_directory' = MovedTo(complete_directory)
      /\ filesystem_current_directory' = recorded
      /\ IF filesystem_change_directory_function(complete_directory)
           THEN UNCHANGED debugVars
           ELSE fail(cannot_change_directory)
      /\ UNCHANGED <<tree, filesystem_directory_known, filesystem_status_structure>>

changeDirectory(directory) ==
  LET complete_directory == CompleteDirectory(directory)
  IN  /\ process = "running"
      /\ Len(complete_directory) <= MaxRecorded
      /\ IF ~ filesystem_directory_known
           THEN Abort
           ELSE Change(directory,
                       IF filesystem_change_directory_function(complete_directory)
                         THEN complete_directory
                         ELSE filesystem_current_directory)

stepForwardDirectory(target_node) == changeDirectory(<<target_node>>)

(***************************************************************************)
(* stepBackDirectory cuts names off the recorded directory and hands the   *)
(* rest, an absolute path, to changeDirectory, which appends it to the     *)
(* recorded directory.  Its loop runs below index 0 when there are fewer   *)
(* names than steps.  With all names cut off changeDirectory is handed the *)
(* empty string and looks at the byte before its text (line 286): in the   *)
(* library of the build a zero of its length, so nothing is appended.      *)
(***************************************************************************)
stepBackDirectory(steps_backward) ==
  LET left == Len(filesystem_current_directory) - steps_backward
      parent_directory == SubSeq(filesystem_current_directory, 1, left)
  IN  /\ process = "running"
      /\ IF ~ filesystem_directory_known
           THEN Abort
           ELSE IF steps_backward < 0
             THEN /\ result' = FALSE
                  /\ UNCHANGED <<headVars, osVars, filesystem_status_structure,
                                 debugVars>>
             ELSE IF left < 0
               THEN Undefined
               ELSE Change(parent_directory, parent_directory)

manuallyRectifyDirectory(directory) ==
  /\ process = "running"
  /\ filesystem_current_directory' = directory
  /\ filesystem_directory_known' = TRUE
  /\ UNCHANGED <<osVars, filesystem_status_structure, result, debugVars>>

----------------------------------------------------------------------------
(***************************************************************************)
(* Changes of the tree: external calls on a path of the working directory. *)
(***************************************************************************)
Perform(succeeds, path, node, code) ==
  /\ process = "running"
  /\ IF ~ filesystem_directory_known
       THEN Abort
       ELSE IF succeeds
         THEN /\ tree' = [tree EXCEPT ![path] = node]
              /\ result' = TRUE
              /\ UNCHANGED <<headVars, working_directory, debugVars,
                             filesystem_status_structure>>
         ELSE /\ fail(code)
              /\ UNCHANGED stateVars

makeDirectory(directory) ==
  LET path == working_directory \o directory
  IN  Perform(path \in Paths /\ Node(path) = Missing /\ IsDirectory(Parent(path)),
              path, Directory, cannot_create_directory)

(***************************************************************************)
(* The directory itself, "./", which is the default, cannot be removed.    *)
(***************************************************************************)
removeDirectory(directory) ==
  LET path == working_directory \o directory
  IN  Perform(directory # <<>> /\ IsDirectory(path) /\ Entries(path) = {},
              path, Missing, cannot_remove_directory)

deleteFile(file_name) ==
  LET path == Append(working_directory, file_name)
      is_file == Node(path) \notin {Missing, Directory}
  IN  /\ process = "running"
      /\ IF ~ filesystem_directory_known
           THEN Abort
           ELSE /\ tree' = IF is_file THEN [tree EXCEPT ![path] = Missing] ELSE tree
                /\ result' = is_file
                /\ UNCHANGED <<headVars, working_directory, debugVars,
                               filesystem_status_structure>>

(***************************************************************************)
(* createFile opens the file in the mode "in", or in the one after it.     *)
(***************************************************************************)
createFileMode(is_binary_file) == IF is_binary_file THEN "binary" ELSE "in"

createFile(file_name, content, is_binary_file) ==
  LET path   == Append(working_directory, file_name)
      told   == F!file_descriptor(path, createFileMode(is_binary_file))
      opened == F!NodeAfterOpen(told, Node(path))
      file_to_write ==
        F!write_file(F!getFileDescriptor(told, Node(path)), content)
      closed == IF file_to_write.pending = <<>> THEN opened
                  ELSE F!Flushed(file_to_write, opened)
  IN  /\ process = "running"
      /\ path \in Paths
      /\ IF ~ filesystem_directory_known
           THEN Abort
           ELSE /\ tree' = [tree EXCEPT ![path] = closed]
                /\ result' = TRUE
                /\ UNCHANGED <<headVars, working_directory, debugVars,
                               filesystem_status_structure>>

getFile(file_name) ==
  LET path == Append(filesystem_current_directory, file_name)
      target_file ==
        F!getFileDescriptor(F!file_descriptor(path, "binary"), Node(path))
  IN  /\ process = "running"
      /\ IF \/ ~ filesystem_directory_known
            \/ ~ F!read_file_binary_asserts(target_file)
            \/ F!ReadThrows(target_file, Node(path))
           THEN Abort
           ELSE /\ result' = TRUE
                /\ UNCHANGED <<headVars, osVars, debugVars,
                               filesystem_status_structure>>

----------------------------------------------------------------------------
Next ==
  \/ \E p \in Paths : fileExists(p) \/ directoryExists(p)
  \/ \E p \in Paths : listCurrentDirectory(p)
  \/ \E p \in Paths, d \in BOOLEAN : setRoot(p, d)
  \/ \E p \in Paths \ {<<>>} : changeDirectory(p)
  \/ \E n \in Names : stepForwardDirectory(n)
  \/ \E n \in -1 .. MaxRecorded : stepBackDirectory(n)
  \/ \E p \in Paths : manuallyRectifyDirectory(p)
  \/ \E p \in Paths \ {<<>>} : makeDirectory(p)
  \/ \E p \in Paths : removeDirectory(p)
  \/ \E n \in Names : deleteFile(n)
  \/ \E n \in Names, c \in Chunks, b \in BOOLEAN : createFile(n, c, b)
  \/ \E n \in Names : getFile(n)

Spec == Init /\ [][Next]_vars

----------------------------------------------------------------------------
(***************************************************************************)
(* Type invariant; the tree stays well formed and the process stays in a   *)
(* directory.                                                              *)
(***************************************************************************)
TypeOK ==
  /\ tree \in [Paths -> F!Nodes] /\ WellFormed(tree)
  /\ IsDirectory(working_directory)
  /\ filesystem_current_directory \in Seq(Names)
  /\ filesystem_directory_known \in BOOLEAN
  /\ filesystem_status_structure \in FileTypes
  /\ result \in BOOLEAN
  /\ debug_class_return_code \in {NotSet} \cup LegalCodes(5)
  /\ process \in ProcessStates

(***************************************************************************)
(* What the comments of changeDirectory (line 263), stepBackDirectory      *)
(* (line 308) and createFile (line 532) say of the value they return: TRUE *)
(* means that the process is in the directory asked for, that the file is  *)
(* there.  The code takes the 0 of chdir for a failure and the -1 for a    *)
(* success, and opens the file to create in a mode that only reads.        *)
(***************************************************************************)
SuccessMeansDone ==
  [][result' /\ process' = "running" =>
       /\ \A p \in Paths \ {<<>>} :
            changeDirectory(p) => working_directory' = CompleteDirectory(p)
       /\ \A n \in 0 .. MaxRecorded :
            stepBackDirectory(n) => working_directory' = filesystem_current_directory'
       /\ \A n \in Names, c \in Chunks, b \in BOOLEAN :
            createFile(n, c, b) =>
              tree'[Append(working_directory, n)] \notin {Missing, Directory}]_vars
===========================================================================
